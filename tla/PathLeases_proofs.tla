------------------------- MODULE PathLeases_proofs -------------------------
(***************************************************************************)
(* That the registry keeps writers of different owners apart, for every    *)
(* set of operations, processes, sessions, paths and lease ids.            *)
(***************************************************************************)
EXTENDS PathLeases, TLAPS, WellFoundedInduction

\* What lies beside a path lies beside everything a grant above it covers.
LEMMA OverlapAbove ==
    ASSUME NEW g \in Paths, NEW p \in Paths, NEW r \in Paths,
           g \in Ancestors[p], Overlap(p, r)
    PROVE  Overlap(g, r)
BY PathsAssumption DEF Overlap

LEMMA OverlapSymmetric ==
    ASSUME NEW p, NEW q, Overlap(p, q)
    PROVE  Overlap(q, p)
BY DEF Overlap

\* A finite clock has a latest expiry among the leases that are valid.
LEMMA LatestExists ==
    ASSUME NEW reg \in [LeaseIds -> Lease \cup {None}],
           NEW live \in SUBSET LeaseIds, live # {},
           \A i \in live : reg[i] # None
    PROVE  \E i \in live : \A j \in live : reg[j].exp <= reg[i].exp
<1> DEFINE M == MaxTime + TTL
           Left == {M - reg[i].exp : i \in live}
<1>1. M \in Nat /\ \A i \in live : reg[i].exp \in 0..M
  BY ConstantsAssumption DEF Lease, Times
<1>2. Left \subseteq Nat /\ Left # {}
  BY <1>1
<1>3. IsWellFoundedOn(OpToRel(<, Nat), Nat)
  BY NatLessThanWellFounded
<1>4. PICK x \in Left : \A y \in Left : ~ (<<y, x>> \in OpToRel(<, Nat))
  <2> HIDE DEF Left
  <2> QED BY <1>2, <1>3, WFMin, Zenon
<1>5. \A y \in Left : ~(y < x)
  BY <1>2, <1>4 DEF OpToRel
<1>6. PICK i \in live : x = M - reg[i].exp
  OBVIOUS
<1>7. \A j \in live : reg[j].exp <= reg[i].exp
  <2> SUFFICES ASSUME NEW j \in live
              PROVE  reg[j].exp <= reg[i].exp
    OBVIOUS
  <2>1. M - reg[j].exp \in Left
    OBVIOUS
  <2>2. ~(M - reg[j].exp < M - reg[i].exp)
    BY <1>5, <1>6, <2>1
  <2>3. reg[j].exp \in 0..M /\ reg[i].exp \in 0..M
    BY <1>1
  <2> HIDE DEF M
  <2> QED BY <1>1, <2>2, <2>3
<1> QED BY <1>7

\* A valid lease expires no later than the barrier's expiry.
LEMMA LatestExpiryBounds ==
    ASSUME NEW reg \in [LeaseIds -> Lease \cup {None}], now \in 0..MaxTime
    PROVE  /\ LatestExpiry(reg) \in Times
           /\ \A i \in LeaseIds : Valid(reg[i]) => reg[i].exp <= LatestExpiry(reg)
<1> DEFINE live == {i \in LeaseIds : Valid(reg[i])}
           top == CHOOSE i \in live : \A j \in live : reg[j].exp <= reg[i].exp
<1>1. CASE live = {}
  BY <1>1, ConstantsAssumption DEF LatestExpiry, Times
<1>2. CASE live # {}
  <2>1. \A i \in live : reg[i] # None
    BY DEF Valid
  <2>2. \E i \in live : \A j \in live : reg[j].exp <= reg[i].exp
    BY <1>2, <2>1, LatestExists
  <2>3. top \in live /\ \A j \in live : reg[j].exp <= reg[top].exp
    BY <2>2
  <2>4. reg[top].exp \in Times
    BY <2>1, <2>3 DEF Lease
  <2>5. LatestExpiry(reg) = reg[top].exp
    BY <1>2 DEF LatestExpiry
  <2> QED BY <2>3, <2>4, <2>5
<1> QED BY <1>1, <1>2

----------------------------------------------------------------------------
(* The transaction *)

Registries == [LeaseIds -> Lease \cup {None}]

\* The compatibility file after a commit: a version 1 capability the registry
\* carries, or a barrier that outlasts every valid lease.
LEMMA SentinelFacts ==
    ASSUME NEW reg \in Registries, now \in 0..MaxTime,
           \A i \in LeaseIds : reg[i] # None /\ reg[i].migrated => reg[i].pid \in V1Procs
    PROVE  /\ Sentinel(reg) \in Guard \cup V1Cap \cup {None}
           /\ IsV1(Sentinel(reg)) =>
                 /\ Sentinel(reg).id \in LeaseIds
                 /\ reg[Sentinel(reg).id] # None
                 /\ reg[Sentinel(reg).id].migrated
           /\ \A i \in LeaseIds :
                 /\ Valid(reg[i])
                 /\ \A j \in LeaseIds : reg[j] # None => ~reg[j].migrated
                 => /\ Sentinel(reg) # None
                    /\ Sentinel(reg).kind = "guard"
                    /\ reg[i].exp <= Sentinel(reg).exp
<1>1. CASE \E i \in Held(reg) : reg[i].migrated
  <2> DEFINE k == CHOOSE i \in Held(reg) : reg[i].migrated
  <2>1. k \in Held(reg) /\ reg[k].migrated
    BY <1>1
  <2>2. Sentinel(reg) = [kind |-> "v1", id |-> k, pid |-> reg[k].pid, exp |-> reg[k].exp]
    BY <1>1 DEF Sentinel
  <2>3. k \in LeaseIds /\ reg[k] # None /\ reg[k] \in Lease
    BY <2>1 DEF Held, Registries
  <2>4. Sentinel(reg) \in V1Cap
    BY <2>1, <2>2, <2>3 DEF V1Cap, Lease
  <2> HIDE DEF k
  <2> QED BY <2>1, <2>2, <2>3, <2>4
<1>2. CASE ~(\E i \in Held(reg) : reg[i].migrated) /\ Held(reg) # {}
  <2>1. Sentinel(reg) = [kind |-> "guard", exp |-> LatestExpiry(reg)]
    BY <1>2 DEF Sentinel
  <2>2. /\ LatestExpiry(reg) \in Times
        /\ \A i \in LeaseIds : Valid(reg[i]) => reg[i].exp <= LatestExpiry(reg)
    BY LatestExpiryBounds DEF Registries
  <2>3. Sentinel(reg) \in Guard
    BY <2>1, <2>2 DEF Guard
  <2>4. Sentinel(reg) # None
    BY <2>3, NoneAssumption
  <2> QED BY <2>1, <2>2, <2>3, <2>4 DEF IsV1
<1>3. CASE Held(reg) = {}
  <2>1. Sentinel(reg) = None
    BY <1>3 DEF Sentinel
  <2>2. \A i \in LeaseIds : ~Valid(reg[i])
    BY <1>3 DEF Held, Valid
  <2> QED BY <2>1, <2>2 DEF IsV1
<1> QED BY <1>1, <1>2, <1>3

\* What a transaction sees: registry leases as they are, and the capability of
\* a live version 1 client.
LEMMA CurrentFacts ==
    ASSUME TypeOK
    PROVE  /\ Current \in Registries
           /\ \A i \in LeaseIds : Current[i] # None =>
                 /\ Valid(Current[i])
                 /\ ~Current[i].migrated => Current[i] = registry[i]
                 /\ Current[i].migrated =>
                       /\ V1Valid(legacy) /\ i = legacy.id
                       /\ Current[i].session = V1Session
                       /\ Current[i].pid \in V1Procs
                       /\ Current[i].paths = {Root}
<1> DEFINE v1 == [session |-> V1Session, pid |-> legacy.pid, paths |-> {Root},
                  exp |-> legacy.exp, migrated |-> TRUE]
<1>1. V1Valid(legacy) => /\ legacy \in V1Cap
                         /\ v1 \in Lease
                         /\ v1.pid \in V1Procs
  BY PathsAssumption DEF TypeOK, V1Valid, IsV1, Guard, V1Cap, Lease, Owners, Pids
<1>2. \A i \in LeaseIds :
        Migrated[i] = IF V1Valid(legacy) /\ i = legacy.id THEN v1
                      ELSE IF registry[i] # None /\ registry[i].migrated THEN None
                      ELSE registry[i]
  BY DEF Migrated
<1>3. \A i \in LeaseIds :
        Current[i] = IF Valid(Migrated[i]) THEN Migrated[i] ELSE None
  BY DEF Current
<1>4. \A i \in LeaseIds : registry[i] \in Lease \cup {None}
  BY DEF TypeOK
<1>5. \A i \in LeaseIds : Migrated[i] \in Lease \cup {None}
  BY <1>1, <1>2, <1>4
<1>6. Current \in Registries
  BY <1>5 DEF Current, Registries
<1>7. ASSUME NEW i \in LeaseIds, Current[i] # None
      PROVE  /\ Valid(Current[i])
             /\ ~Current[i].migrated => Current[i] = registry[i]
             /\ Current[i].migrated =>
                       /\ V1Valid(legacy) /\ i = legacy.id
                       /\ Current[i].session = V1Session
                       /\ Current[i].pid \in V1Procs
                       /\ Current[i].paths = {Root}
  <2>1. Valid(Current[i]) /\ Current[i] = Migrated[i]
    BY <1>3, <1>7
  <2>2. CASE V1Valid(legacy) /\ i = legacy.id
    <3>1. Current[i] = v1
      BY <1>2, <2>1, <2>2
    <3> QED BY <1>1, <2>1, <2>2, <3>1
  <2>3. CASE ~(V1Valid(legacy) /\ i = legacy.id)
    <3>1. Current[i] = registry[i] /\ ~registry[i].migrated
      BY <1>2, <1>7, <2>1, <2>3
    <3> QED BY <2>1, <3>1
  <2> QED BY <2>2, <2>3
<1> QED BY <1>6, <1>7

\* A registry that carries nothing but leases of Current.
Within(reg) ==
    /\ reg \in Registries
    /\ \A i \in LeaseIds : reg[i] # None => reg[i] = Current[i]

\* A transaction that grants nothing keeps the invariant.
LEMMA ShrinkStep ==
    ASSUME IInv, NEW reg, Within(reg), Commit(reg),
           UNCHANGED <<now, alive, cap, drawn, overwritten>>
    PROVE  IInv'
<1> USE DEF IInv
<1>1. \A i \in LeaseIds : reg[i] # None =>
        /\ Valid(reg[i])
        /\ ~reg[i].migrated => reg[i] = registry[i]
        /\ reg[i].migrated =>
              /\ V1Valid(legacy) /\ i = legacy.id
              /\ reg[i].session = V1Session
              /\ reg[i].pid \in V1Procs
              /\ reg[i].paths = {Root}
  BY CurrentFacts DEF Within
<1>2. now \in 0..MaxTime
  BY DEF TypeOK
<1>3. reg \in Registries
  BY DEF Within
<1>4. /\ legacy' \in Guard \cup V1Cap \cup {None}
      /\ IsV1(legacy)' =>
            /\ legacy'.id \in LeaseIds
            /\ reg[legacy'.id] # None
            /\ reg[legacy'.id].migrated
      /\ \A i \in LeaseIds :
            /\ Valid(reg[i])
            /\ \A j \in LeaseIds : reg[j] # None => ~reg[j].migrated
            => /\ legacy' # None
               /\ legacy'.kind = "guard"
               /\ reg[i].exp <= legacy'.exp
  <2>1. legacy' = Sentinel(reg)
    BY DEF Commit
  <2>2. \A i \in LeaseIds : reg[i] # None /\ reg[i].migrated => reg[i].pid \in V1Procs
    BY <1>1
  <2> QED BY <1>2, <1>3, <2>1, <2>2, SentinelFacts DEF IsV1
<1>5. registry' = reg
  BY DEF Commit
<1>6. TypeOK'
  BY <1>3, <1>4, <1>5 DEF TypeOK, Registries
<1>7. LeaseShape'
  BY <1>1, <1>5 DEF LeaseShape, LegacyShape, V1Valid
<1>8. LegacyShape'
  <2> SUFFICES ASSUME IsV1(legacy)'
               PROVE  /\ legacy'.id \in drawn
                      /\ reg[legacy'.id].migrated
                      /\ \A o \in Ops : cap[o] # None => cap[o].id # legacy'.id
    BY <1>5 DEF LegacyShape
  <2>1. IsV1(legacy) /\ legacy'.id = legacy.id
    BY <1>1, <1>4 DEF V1Valid
  <2> QED BY <1>4, <2>1 DEF LegacyShape
<1>9. CapShape'
  <2> SUFFICES ASSUME NEW o \in Ops, cap[o] # None, reg[cap[o].id] # None
               PROVE  reg[cap[o].id] = registry[cap[o].id]
    BY <1>5 DEF CapShape
  <2>1. cap[o].id \in LeaseIds
    BY DEF TypeOK, Cap
  <2> QED BY <1>1, <2>1 DEF LegacyShape, V1Valid
<1>10. LeasesDisjoint'
  BY <1>1, <1>5 DEF LeasesDisjoint
<1>11. NothingOverwritten'
  <2> SUFFICES ASSUME NEW o \in Ops, cap[o] # None, reg[cap[o].id] # None
               PROVE  registry[cap[o].id] # None
    BY <1>5 DEF NothingOverwritten
  <2>1. cap[o].id \in LeaseIds
    BY DEF TypeOK, Cap
  <2> QED BY <1>1, <2>1 DEF LegacyShape, V1Valid
<1>12. Barrier'
  <2> SUFFICES ASSUME NEW o \in Ops, cap[o] # None, reg[cap[o].id] # None,
                      reg[cap[o].id].pid = ProcOf[o]
               PROVE  \/ reg[cap[o].id].exp < now
                      \/ /\ legacy' # None /\ legacy'.kind = "guard"
                         /\ reg[cap[o].id].exp <= legacy'.exp
    BY <1>5 DEF Barrier
  <2> DEFINE i == cap[o].id
  <2>1. i \in LeaseIds
    BY DEF TypeOK, Cap
  <2>2. reg[i] = registry[i] /\ Valid(reg[i])
    BY <1>1, <2>1 DEF LegacyShape, V1Valid
  <2>3. ~(reg[i].exp < now)
    <3>1. reg[i].exp \in Times /\ now <= reg[i].exp
      BY <1>3, <2>1, <2>2 DEF Valid, Registries, Lease
    <3> QED BY <1>2, <3>1, ConstantsAssumption DEF Times
  <2>4. legacy.kind = "guard"
    BY <2>2, <2>3 DEF Barrier
  <2>5. \A j \in LeaseIds : reg[j] # None => ~reg[j].migrated
    BY <1>1, <2>4 DEF V1Valid, IsV1
  <2> QED BY <1>4, <2>1, <2>2, <2>5
<1> QED BY <1>6, <1>7, <1>8, <1>9, <1>10, <1>11, <1>12

\* A process that dies leaves the files as they are, or half written: the
\* leases the survivors hold are untouched, or were taken over by the dead.
LEMMA DieStep ==
    ASSUME IInv, NEW p \in Pids, Die(p), UNCHANGED now,
           drawn \subseteq drawn', drawn' \subseteq LeaseIds,
           legacy' \in {legacy, LegacyMigrated},
           registry' \in Registries, LeaseShape', LeasesDisjoint',
           IsV1(legacy) /\ registry'[legacy.id] # None => registry'[legacy.id].migrated,
           \A o \in Ops : cap[o] # None /\ registry'[cap[o].id] # None =>
               /\ registry[cap[o].id] # None
               /\ ~registry'[cap[o].id].migrated
               /\ registry'[cap[o].id].session = registry[cap[o].id].session
               /\ registry[cap[o].id].paths \subseteq registry'[cap[o].id].paths
               /\ \/ registry'[cap[o].id] = registry[cap[o].id]
                  \/ /\ registry'[cap[o].id].pid = p
                     /\ registry[cap[o].id].session = NoSession =>
                            registry[cap[o].id].pid = p
    PROVE  IInv'
<1> USE DEF IInv
<1>1. \A o \in Ops : cap'[o] # None =>
        ProcOf[o] # p /\ cap'[o] = cap[o] /\ overwritten'[o] = overwritten[o]
  BY DEF Die
<1>2. TypeOK'
  <2>1. cap' \in [Ops -> Cap \cup {None}]
    BY DEF Die, TypeOK
  <2>2. overwritten' \in [Ops -> SUBSET Paths]
    BY DEF Die, TypeOK
  <2>3. alive' \subseteq Pids
    BY DEF Die, TypeOK
  <2>4. legacy' \in Guard \cup V1Cap \cup {None}
    BY DEF TypeOK, LegacyMigrated
  <2> QED BY <2>1, <2>2, <2>3, <2>4 DEF TypeOK, Registries
<1>3. IsV1(legacy') => IsV1(legacy) /\ legacy' = legacy
  BY DEF LegacyMigrated, IsV1
<1>4. LegacyShape'
  BY <1>1, <1>3 DEF LegacyShape, IsV1
<1>5. CapShape'
  <2> SUFFICES ASSUME NEW o \in Ops, cap[o] # None, ProcOf[o] # p
               PROVE  /\ ProcOf[o] \in alive'
                      /\ cap[o].id \in drawn'
                      /\ registry'[cap[o].id] # None =>
                            /\ ~registry'[cap[o].id].migrated
                            /\ registry'[cap[o].id].session = SessionOf[o]
                            /\ SessionOf[o] = NoSession =>
                                  registry'[cap[o].id].pid = ProcOf[o]
                            /\ cap[o].paths \subseteq registry'[cap[o].id].paths
    BY <1>1 DEF CapShape
  <2> QED BY DEF CapShape, Die
<1>6. NothingOverwritten'
  BY <1>1 DEF NothingOverwritten
<1>7. Barrier'
  <2> SUFFICES ASSUME NEW o \in Ops, cap[o] # None, ProcOf[o] # p,
                      registry'[cap[o].id] # None,
                      registry'[cap[o].id].pid = ProcOf[o]
               PROVE  \/ registry'[cap[o].id].exp < now
                      \/ /\ legacy' # None /\ legacy'.kind = "guard"
                         /\ registry'[cap[o].id].exp <= legacy'.exp
    BY <1>1 DEF Barrier
  <2>1. registry'[cap[o].id] = registry[cap[o].id] /\ registry[cap[o].id] # None
    OBVIOUS
  <2>2. legacy.kind = "guard" => legacy' = legacy
    BY DEF LegacyMigrated, IsV1
  <2> QED BY <2>1, <2>2 DEF Barrier
<1> QED BY <1>2, <1>4, <1>5, <1>6, <1>7

\* What a granted lease does to the registry.
LEMMA GrantFacts ==
    ASSUME IInv, OwnersSeparated,
           NEW o \in Ops, NEW P \in Requests, NEW i \in LeaseIds,
           ProcOf[o] \in alive,
           Admissible(o, P, Current), Target(o, i, Current)
    PROVE  LET reg == AfterAcquire(o, P, i) IN
           /\ reg \in Registries
           /\ \A j \in LeaseIds : Current[j] # None =>
                 Valid(Current[j]) /\ ~Current[j].migrated /\ Current[j] = registry[j]
           /\ \A j \in LeaseIds \ {i} : reg[j] = Current[j]
           /\ reg[i] = Granted(o, P, i, Current)
           /\ reg[i].session = SessionOf[o]
           /\ reg[i].pid = ProcOf[o]
           /\ ~reg[i].migrated
           /\ P \subseteq reg[i].paths
           /\ Valid(reg[i])
           /\ Current[i] = None => i \notin drawn
           /\ Current[i] # None =>
                 /\ Current[i].session = SessionOf[o]
                 /\ SessionOf[o] = NoSession => Current[i].pid = ProcOf[o]
                 /\ Current[i].paths \subseteq reg[i].paths
           /\ \A j \in LeaseIds \ {i} : reg[j] # None =>
                 /\ ~Clash(reg[i].paths, reg[j].paths)
                 /\ reg[j].session = SessionOf[o] =>
                       SessionOf[o] = NoSession /\ reg[j].pid # ProcOf[o]
<1> USE DEF IInv
<1> DEFINE reg == AfterAcquire(o, P, i)
<1>1. /\ Current \in Registries
      /\ \A j \in LeaseIds : Current[j] # None =>
            /\ Valid(Current[j])
            /\ ~Current[j].migrated => Current[j] = registry[j]
            /\ Current[j].migrated => /\ Current[j].session = V1Session
                                      /\ Current[j].pid \in V1Procs
                                      /\ Current[j].paths = {Root}
  BY CurrentFacts
<1>2. ProcOf[o] \in Procs /\ SessionOf[o] \in Sessions \cup {NoSession}
  BY ConstantsAssumption
<1>3. PICK w \in P : w \in Paths
  BY ConstantsAssumption
<1>4. \A j \in LeaseIds : Current[j] # None => ~Current[j].migrated
  <2> SUFFICES ASSUME NEW j \in LeaseIds, Current[j] # None, Current[j].migrated
               PROVE  FALSE
    OBVIOUS
  <2>1. j \in Held(Current) \ Owned(o, Current)
    BY <1>1, <1>2, ConstantsAssumption DEF Held, Owned
  <2>2. Clash(P, Current[j].paths)
    BY <1>1, <1>3, PathsAssumption DEF Clash, Overlap
  <2> QED BY <2>1, <2>2 DEF Admissible
<1>5. \A j \in LeaseIds : Current[j] # None => Current[j] = registry[j]
  BY <1>1, <1>4
<1>6. Current[i] # None =>
        /\ i \in Owned(o, Current)
        /\ Current[i].session = SessionOf[o]
        /\ SessionOf[o] = NoSession => Current[i].pid = ProcOf[o]
  <2> SUFFICES ASSUME Current[i] # None
               PROVE  /\ i \in Owned(o, Current)
                      /\ Current[i].session = SessionOf[o]
                      /\ SessionOf[o] = NoSession => Current[i].pid = ProcOf[o]
    OBVIOUS
  <2>1. i \in Owned(o, Current)
    <3>1. i \in drawn
      BY <1>5 DEF LeaseShape
    <3> QED BY <3>1 DEF Target
  <2>2. CASE SessionOf[o] # NoSession
    BY <2>1, <2>2 DEF Owned
  <2>3. CASE SessionOf[o] = NoSession
    <3>1. Current[i].pid = ProcOf[o]
      BY <2>1, <2>3 DEF Owned
    <3>2. PICK q \in Ops : ProcOf[o] = ProcOf[q] /\ Current[i].session = SessionOf[q]
      BY <1>4, <1>5, <3>1 DEF LeaseShape
    <3>3. SessionOf[q] = NoSession
      BY <2>3, <3>2 DEF OwnersSeparated
    <3> QED BY <2>1, <2>3, <3>1, <3>2, <3>3
  <2> QED BY <2>2, <2>3
<1>7. Current[i] = None => i \notin drawn /\ Owned(o, Current) = {}
  BY DEF Target, Owned, Held
<1>8. Granted(o, P, i, Current) =
        [session |-> SessionOf[o], pid |-> ProcOf[o],
         paths |-> IF Current[i] # None THEN Current[i].paths \cup P ELSE P,
         exp |-> now + TTL, migrated |-> FALSE]
  BY <1>4, <1>6 DEF Granted
<1>9. now + TTL \in Times /\ now <= now + TTL
  BY ConstantsAssumption DEF TypeOK, Times
<1>10. Granted(o, P, i, Current) \in Lease
  <2>1. Current[i] # None => Current[i].paths \subseteq Paths
    BY <1>1 DEF Registries, Lease
  <2>2. P \subseteq Paths
    BY ConstantsAssumption
  <2> QED BY <1>2, <1>8, <1>9, <2>1, <2>2 DEF Lease, Owners, Pids
<1>11. /\ reg \in Registries
       /\ reg[i] = Granted(o, P, i, Current)
       /\ \A j \in LeaseIds \ {i} : reg[j] = Current[j]
  BY <1>1, <1>10 DEF AfterAcquire, Registries
<1> HIDE DEF reg
<1>12. Valid(reg[i])
  <2>1. reg[i] # None
    BY <1>10, <1>11, NoneAssumption
  <2>2. reg[i].exp = now + TTL /\ reg[i].pid = ProcOf[o]
    BY <1>8, <1>11
  <2> QED BY <1>9, <2>1, <2>2 DEF Valid
<1>13. ASSUME NEW j \in LeaseIds \ {i}, Current[j] # None
       PROVE  /\ ~Clash(reg[i].paths, Current[j].paths)
              /\ Current[j].session = SessionOf[o] =>
                    SessionOf[o] = NoSession /\ Current[j].pid # ProcOf[o]
  <2>1. CASE Current[i] # None
    <3>1. /\ ~Clash(Current[i].paths, Current[j].paths)
          /\ Current[j].session = SessionOf[o] =>
               SessionOf[o] = NoSession /\ Current[j].pid # ProcOf[o]
      BY <1>4, <1>5, <1>6, <1>13, <2>1 DEF LeasesDisjoint
    <3>2. j \notin Owned(o, Current)
      <4>1. CASE SessionOf[o] # NoSession
        BY <3>1, <4>1 DEF Owned
      <4>2. CASE SessionOf[o] = NoSession
        <5> SUFFICES ASSUME Current[j].pid = ProcOf[o] PROVE FALSE
          BY <4>2 DEF Owned
        <5>1. PICK q \in Ops : ProcOf[o] = ProcOf[q] /\ Current[j].session = SessionOf[q]
          BY <1>4, <1>5, <1>13 DEF LeaseShape
        <5>2. SessionOf[q] = NoSession
          BY <4>2, <5>1 DEF OwnersSeparated
        <5> QED BY <3>1, <4>2, <5>1, <5>2
      <4> QED BY <4>1, <4>2
    <3>3. ~Clash(P, Current[j].paths)
      BY <1>13, <3>2 DEF Admissible, Held
    <3> QED BY <1>8, <1>11, <2>1, <3>1, <3>3 DEF Clash
  <2>2. CASE Current[i] = None
    <3>1. j \notin Owned(o, Current)
      BY <1>7, <2>2
    <3>2. ~Clash(P, Current[j].paths)
      BY <1>13, <3>1 DEF Admissible, Held
    <3>3. Current[j].session = SessionOf[o] =>
               SessionOf[o] = NoSession /\ Current[j].pid # ProcOf[o]
      BY <1>13, <3>1 DEF Owned, Held
    <3> QED BY <1>8, <1>11, <2>2, <3>2, <3>3
  <2> QED BY <2>1, <2>2
<1>14. reg[i].session = SessionOf[o] /\ reg[i].pid = ProcOf[o] /\ ~reg[i].migrated
  BY <1>8, <1>11
<1>15. P \subseteq reg[i].paths /\ (Current[i] # None => Current[i].paths \subseteq reg[i].paths)
  BY <1>8, <1>11
<1> QED
  <2> USE DEF reg
  <2> QED BY <1>1, <1>4, <1>5, <1>6, <1>7, <1>11, <1>12, <1>13, <1>14, <1>15

\* A registry with one more, or one larger, lease keeps each owner apart.
LEMMA GrantedRegistry ==
    ASSUME IInv, OwnersSeparated,
           NEW o \in Ops, NEW P \in Requests, NEW i \in LeaseIds,
           ProcOf[o] \in alive,
           Admissible(o, P, Current), Target(o, i, Current),
           registry' = AfterAcquire(o, P, i), drawn' = drawn \cup {i}
    PROVE  LeaseShape' /\ LeasesDisjoint'
<1> USE DEF IInv
<1>1. /\ \A j \in LeaseIds : Current[j] # None =>
            ~Current[j].migrated /\ Current[j] = registry[j]
      /\ \A j \in LeaseIds \ {i} : registry'[j] = Current[j]
      /\ registry'[i].session = SessionOf[o]
      /\ registry'[i].pid = ProcOf[o]
      /\ ~registry'[i].migrated
      /\ \A j \in LeaseIds \ {i} : registry'[j] # None =>
            /\ ~Clash(registry'[i].paths, registry'[j].paths)
            /\ registry'[j].session = SessionOf[o] =>
                  SessionOf[o] = NoSession /\ registry'[j].pid # ProcOf[o]
  BY GrantFacts
<1>2. LeaseShape'
  <2> SUFFICES ASSUME NEW j \in LeaseIds, registry'[j] # None
               PROVE  /\ j \in drawn'
                      /\ ~registry'[j].migrated
                      /\ \E q \in Ops : /\ registry'[j].pid = ProcOf[q]
                                        /\ registry'[j].session = SessionOf[q]
    BY DEF LeaseShape
  <2>1. CASE j = i
    BY <1>1, <2>1
  <2>2. CASE j # i
    BY <1>1, <2>2 DEF LeaseShape
  <2> QED BY <2>1, <2>2
<1>3. LeasesDisjoint'
  <2> SUFFICES ASSUME NEW j \in LeaseIds, NEW k \in LeaseIds, j # k,
                      registry'[j] # None, registry'[k] # None
               PROVE  /\ ~Clash(registry'[j].paths, registry'[k].paths)
                      /\ registry'[j].session = registry'[k].session =>
                            /\ registry'[j].session = NoSession
                            /\ registry'[j].pid # registry'[k].pid
    BY DEF LeasesDisjoint, Clash
  <2>1. CASE j = i
    BY <1>1, <2>1
  <2>2. CASE k = i
    BY <1>1, <2>2, OverlapSymmetric DEF Clash
  <2>3. CASE j # i /\ k # i
    BY <1>1, <2>3 DEF LeasesDisjoint
  <2> QED BY <2>1, <2>2, <2>3
<1> QED BY <1>2, <1>3

LEMMA AcquireStep ==
    ASSUME IInv, OwnersSeparated, NEW o \in Ops, NEW P \in Requests, Acquire(o, P)
    PROVE  IInv'
<1> USE DEF IInv
<1>1. PICK i \in LeaseIds :
        /\ Target(o, i, Current)
        /\ drawn' = drawn \cup {i}
        /\ \/ /\ Commit(AfterAcquire(o, P, i))
              /\ cap' = [cap EXCEPT ![o] =
                    [id |-> i, session |-> AfterAcquire(o, P, i)[i].session,
                     pid |-> AfterAcquire(o, P, i)[i].pid,
                     paths |-> AfterAcquire(o, P, i)[i].paths]]
              /\ overwritten' = [overwritten EXCEPT ![o] = {}]
              /\ UNCHANGED alive
           \/ Torn(AfterAcquire(o, P, i)) /\ Die(ProcOf[o])
  BY DEF Acquire
<1>2. ProcOf[o] \in alive /\ Admissible(o, P, Current) /\ UNCHANGED now
  BY DEF Acquire
<1> DEFINE reg == AfterAcquire(o, P, i)
<1>3. /\ reg \in Registries
      /\ \A j \in LeaseIds : Current[j] # None =>
            Valid(Current[j]) /\ ~Current[j].migrated /\ Current[j] = registry[j]
      /\ \A j \in LeaseIds \ {i} : reg[j] = Current[j]
      /\ reg[i].session = SessionOf[o]
      /\ reg[i].pid = ProcOf[o]
      /\ ~reg[i].migrated
      /\ Valid(reg[i])
      /\ Current[i] = None => i \notin drawn
      /\ Current[i] # None =>
            /\ Current[i].session = SessionOf[o]
            /\ SessionOf[o] = NoSession => Current[i].pid = ProcOf[o]
            /\ Current[i].paths \subseteq reg[i].paths
  BY <1>1, <1>2, GrantFacts
<1>4. registry' = reg => LeaseShape' /\ LeasesDisjoint'
  BY <1>1, <1>2, GrantedRegistry
<1> HIDE DEF reg
<1>5. \A q \in Ops : cap[q] # None /\ reg[cap[q].id] # None =>
        /\ registry[cap[q].id] # None
        /\ reg[cap[q].id].session = registry[cap[q].id].session
        /\ registry[cap[q].id].paths \subseteq reg[cap[q].id].paths
        /\ \/ cap[q].id # i /\ reg[cap[q].id] = registry[cap[q].id]
           \/ /\ cap[q].id = i
              /\ registry[cap[q].id].session = NoSession =>
                        registry[cap[q].id].pid = ProcOf[o]
  <2> SUFFICES ASSUME NEW q \in Ops, cap[q] # None, reg[cap[q].id] # None
               PROVE  /\ registry[cap[q].id] # None
                      /\ reg[cap[q].id].session = registry[cap[q].id].session
                      /\ registry[cap[q].id].paths \subseteq reg[cap[q].id].paths
                      /\ \/ cap[q].id # i /\ reg[cap[q].id] = registry[cap[q].id]
                         \/ /\ cap[q].id = i
                            /\ registry[cap[q].id].session = NoSession =>
                                      registry[cap[q].id].pid = ProcOf[o]
    OBVIOUS
  <2>1. cap[q].id \in LeaseIds /\ cap[q].id \in drawn
    BY DEF TypeOK, Cap, CapShape
  <2>2. CASE cap[q].id # i
    BY <1>3, <2>1, <2>2
  <2>3. CASE cap[q].id = i
    <3>1. Current[i] # None /\ Current[i] = registry[i]
      BY <1>3, <2>1, <2>3
    <3> QED BY <1>3, <2>3, <3>1
  <2> QED BY <2>2, <2>3
<1>6. CASE Torn(reg) /\ Die(ProcOf[o])
  <2>1. ProcOf[o] \in Pids
    BY ConstantsAssumption DEF Pids
  <2>2. drawn \subseteq drawn' /\ drawn' \subseteq LeaseIds
    BY <1>1 DEF TypeOK
  <2>3. legacy' \in {legacy, LegacyMigrated} /\ registry' \in {registry, reg}
    BY <1>6 DEF Torn
  <2>4. CASE registry' = registry
    <3>1. registry' \in Registries
      BY <2>4 DEF TypeOK, Registries
    <3>2. LeaseShape'
      BY <2>2, <2>4 DEF LeaseShape
    <3>3. LeasesDisjoint'
      BY <2>4 DEF LeasesDisjoint
    <3>4. IsV1(legacy) /\ registry'[legacy.id] # None => registry'[legacy.id].migrated
      BY <2>4 DEF LegacyShape
    <3>5. \A q \in Ops : cap[q] # None /\ registry'[cap[q].id] # None =>
            /\ registry[cap[q].id] # None /\ ~registry'[cap[q].id].migrated
            /\ registry'[cap[q].id] = registry[cap[q].id]
      BY <2>4 DEF CapShape
    <3> QED BY <1>2, <1>6, <2>1, <2>2, <2>3, <3>1, <3>2, <3>3, <3>4, <3>5, DieStep
  <2>5. CASE registry' = reg
    <3>1. registry' \in Registries /\ LeaseShape' /\ LeasesDisjoint'
      BY <1>3, <1>4, <2>5
    <3>2. IsV1(legacy) /\ registry'[legacy.id] # None => registry'[legacy.id].migrated
      <4> SUFFICES ASSUME IsV1(legacy), reg[legacy.id] # None
                   PROVE  FALSE
        BY <2>5
      <4>1. legacy.id \in LeaseIds /\ legacy.id \in drawn
        BY DEF TypeOK, IsV1, Guard, V1Cap, LegacyShape
      <4>2. Current[legacy.id] # None
        BY <1>3, <4>1
      <4> QED BY <1>3, <4>1, <4>2 DEF LegacyShape
    <3>3. \A q \in Ops : cap[q] # None /\ registry'[cap[q].id] # None =>
            /\ registry[cap[q].id] # None
            /\ ~registry'[cap[q].id].migrated
            /\ registry'[cap[q].id].session = registry[cap[q].id].session
            /\ registry[cap[q].id].paths \subseteq registry'[cap[q].id].paths
            /\ \/ registry'[cap[q].id] = registry[cap[q].id]
               \/ /\ registry'[cap[q].id].pid = ProcOf[o]
                  /\ registry[cap[q].id].session = NoSession =>
                            registry[cap[q].id].pid = ProcOf[o]
      BY <1>3, <1>5, <2>5 DEF CapShape
    <3> QED BY <1>2, <1>6, <2>1, <2>2, <2>3, <3>1, <3>2, <3>3, DieStep
  <2> QED BY <2>3, <2>4, <2>5
<1>7. CASE /\ Commit(reg)
           /\ cap' = [cap EXCEPT ![o] =
                 [id |-> i, session |-> reg[i].session, pid |-> reg[i].pid,
                  paths |-> reg[i].paths]]
           /\ overwritten' = [overwritten EXCEPT ![o] = {}]
           /\ UNCHANGED alive
  <2> DEFINE c == [id |-> i, session |-> reg[i].session, pid |-> reg[i].pid,
                  paths |-> reg[i].paths]
  <2>1. registry' = reg /\ legacy' = Sentinel(reg)
    BY <1>7 DEF Commit
  <2>2. \A j \in LeaseIds : reg[j] # None => Valid(reg[j]) /\ ~reg[j].migrated
    BY <1>3
  <2>3. /\ legacy' \in Guard \cup V1Cap \cup {None}
        /\ ~IsV1(legacy')
        /\ \A j \in LeaseIds : reg[j] # None =>
              /\ legacy' # None
              /\ legacy'.kind = "guard"
              /\ reg[j].exp <= legacy'.exp
    <3>1. now \in 0..MaxTime
      BY DEF TypeOK
    <3> QED BY <1>3, <2>1, <2>2, <3>1, SentinelFacts
  <2>4. c \in Cap
    <3>1. reg[i] \in Lease
      BY <1>3 DEF Registries, Valid
    <3> QED BY <3>1 DEF Cap, Lease
  <2>5. /\ cap'[o] = c /\ overwritten'[o] = {}
        /\ \A q \in Ops \ {o} : cap'[q] = cap[q] /\ overwritten'[q] = overwritten[q]
    BY <1>7 DEF TypeOK
  <2>6. TypeOK'
    <3>1. cap' \in [Ops -> Cap \cup {None}]
      BY <1>7, <2>4 DEF TypeOK
    <3>2. overwritten' \in [Ops -> SUBSET Paths]
      BY <1>7 DEF TypeOK
    <3> QED BY <1>1, <1>2, <1>3, <1>7, <2>1, <2>3, <3>1, <3>2 DEF TypeOK, Registries
  <2>7. LegacyShape'
    BY <2>3 DEF LegacyShape, IsV1
  <2>8. CapShape'
    <3> SUFFICES ASSUME NEW q \in Ops, cap'[q] # None
                 PROVE  /\ ProcOf[q] \in alive'
                        /\ cap'[q].id \in drawn'
                        /\ cap'[q].pid = ProcOf[q]
                        /\ cap'[q].session = SessionOf[q]
                        /\ reg[cap'[q].id] # None =>
                              /\ ~reg[cap'[q].id].migrated
                              /\ reg[cap'[q].id].session = SessionOf[q]
                              /\ SessionOf[q] = NoSession => reg[cap'[q].id].pid = ProcOf[q]
                              /\ cap'[q].paths \subseteq reg[cap'[q].id].paths
      BY <2>1 DEF CapShape
    <3>1. CASE q = o
      BY <1>1, <1>2, <1>3, <1>7, <2>5, <3>1
    <3>2. CASE q # o
      <4>1. cap'[q] = cap[q] /\ cap[q] # None
        BY <2>5, <3>2
      <4>2. ProcOf[q] \in alive' /\ cap[q].id \in drawn' /\ cap[q].pid = ProcOf[q]
            /\ cap[q].session = SessionOf[q]
        BY <1>1, <1>7, <4>1 DEF CapShape
      <4>3. ASSUME reg[cap[q].id] # None
            PROVE  /\ ~reg[cap[q].id].migrated
                   /\ reg[cap[q].id].session = SessionOf[q]
                   /\ SessionOf[q] = NoSession => reg[cap[q].id].pid = ProcOf[q]
                   /\ cap[q].paths \subseteq reg[cap[q].id].paths
        BY <1>3, <1>5, <4>1, <4>3 DEF CapShape
      <4> QED BY <4>1, <4>2, <4>3
    <3> QED BY <3>1, <3>2
  <2>9. NothingOverwritten'
    <3> SUFFICES ASSUME NEW q \in Ops, cap'[q] # None, reg[cap'[q].id] # None
                 PROVE  ~Clash(cap'[q].paths, overwritten'[q])
      BY <2>1 DEF NothingOverwritten
    <3>1. CASE q = o
      BY <2>5, <3>1 DEF Clash
    <3>2. CASE q # o
      BY <1>5, <2>5, <3>2 DEF NothingOverwritten
    <3> QED BY <3>1, <3>2
  <2>10. Barrier'
    <3> SUFFICES ASSUME NEW q \in Ops, cap'[q] # None, reg[cap'[q].id] # None
                 PROVE  /\ legacy' # None /\ legacy'.kind = "guard"
                        /\ reg[cap'[q].id].exp <= legacy'.exp
      BY <2>1 DEF Barrier
    <3>1. cap'[q].id \in LeaseIds
      BY <2>6 DEF TypeOK, Cap
    <3> QED BY <2>3, <3>1
  <2> QED BY <1>4, <2>1, <2>6, <2>7, <2>8, <2>9, <2>10
<1> QED
  <2> USE DEF reg
  <2> QED BY <1>1, <1>6, <1>7

\* A transaction that takes leases away, committed or torn.
LEMMA RemoveStep ==
    ASSUME IInv, NEW p \in Procs, NEW gone, Remove(p, gone), UNCHANGED <<now, drawn>>
    PROVE  IInv'
<1> USE DEF IInv
<1> DEFINE reg == [i \in LeaseIds |-> IF i \in gone THEN None ELSE Current[i]]
<1>1. Within(reg)
  BY CurrentFacts DEF Within, Registries
<1>2. CASE Commit(reg) /\ UNCHANGED <<alive, cap, overwritten>>
  <2> HIDE DEF reg
  <2> QED BY <1>1, <1>2, ShrinkStep
<1>3. CASE Torn(reg) /\ Die(p)
  <2> HIDE DEF reg
  <2>1. \A i \in LeaseIds : reg[i] # None =>
          /\ ~reg[i].migrated => reg[i] = registry[i]
          /\ reg[i].migrated => /\ V1Valid(legacy) /\ i = legacy.id
                                /\ reg[i].session = V1Session
                                /\ reg[i].pid \in V1Procs
    BY <1>1, CurrentFacts DEF Within
  <2>2. legacy' \in {legacy, LegacyMigrated} /\ registry' \in {registry, reg}
    BY <1>3 DEF Torn
  <2>3. registry' \in Registries
    BY <1>1, <2>2 DEF TypeOK, Registries, Within
  <2>4. LeaseShape'
    BY <2>1, <2>2 DEF LeaseShape, LegacyShape, V1Valid
  <2>5. LeasesDisjoint'
    BY <2>1, <2>2 DEF LeasesDisjoint
  <2>6. IsV1(legacy) /\ registry'[legacy.id] # None => registry'[legacy.id].migrated
    <3> SUFFICES ASSUME IsV1(legacy), registry'[legacy.id] # None
                 PROVE  registry'[legacy.id].migrated
      OBVIOUS
    <3>1. legacy.id \in LeaseIds
      BY DEF TypeOK, IsV1, Guard, V1Cap
    <3> QED BY <2>1, <2>2, <3>1 DEF LegacyShape
  <2>7. \A o \in Ops : cap[o] # None /\ registry'[cap[o].id] # None =>
          /\ registry[cap[o].id] # None
          /\ ~registry'[cap[o].id].migrated
          /\ registry'[cap[o].id] = registry[cap[o].id]
    <3> SUFFICES ASSUME NEW o \in Ops, cap[o] # None, registry'[cap[o].id] # None
                 PROVE  /\ registry[cap[o].id] # None
                        /\ ~registry'[cap[o].id].migrated
                        /\ registry'[cap[o].id] = registry[cap[o].id]
      OBVIOUS
    <3>1. cap[o].id \in LeaseIds
      BY DEF TypeOK, Cap
    <3> QED BY <2>1, <2>2, <3>1 DEF CapShape, LegacyShape, V1Valid
  <2>8. p \in Pids /\ drawn' \subseteq LeaseIds /\ drawn \subseteq drawn'
    BY DEF Pids, TypeOK
  <2> QED BY <1>3, <2>2, <2>3, <2>4, <2>5, <2>6, <2>7, <2>8, DieStep
<1> QED BY <1>2, <1>3 DEF Remove

\* Two operations that pass the fence for overlapping paths have one owner.
LEMMA FenceExcludes ==
    ASSUME IInv, NEW o \in Ops, NEW q \in Ops, NEW p \in Paths, NEW r \in Paths,
           MayWrite(o, p), MayWrite(q, r), Overlap(p, r)
    PROVE  SameOwner(o, q)
<1> USE DEF IInv
<1>1. /\ cap[o].id \in LeaseIds /\ cap[q].id \in LeaseIds
      /\ registry[cap[o].id] # None /\ ~registry[cap[o].id].migrated
      /\ registry[cap[q].id] # None /\ ~registry[cap[q].id].migrated
      /\ registry[cap[o].id].session = SessionOf[o]
      /\ registry[cap[q].id].session = SessionOf[q]
      /\ registry[cap[o].id].pid = ProcOf[o]
      /\ registry[cap[q].id].pid = ProcOf[q]
  BY DEF MayWrite, TypeOK, Cap, CapShape, Valid
<1>2. PICK g \in registry[cap[o].id].paths : g \in Ancestors[p]
  BY DEF MayWrite, Covers
<1>3. PICK h \in registry[cap[q].id].paths : h \in Ancestors[r]
  BY DEF MayWrite, Covers
<1>4. g \in Paths /\ h \in Paths
  BY <1>2, <1>3, PathsAssumption
<1>5. Overlap(g, h)
  <2>1. Overlap(r, g)
    BY <1>2, <1>4, OverlapAbove, OverlapSymmetric
  <2> QED BY <1>3, <1>4, <2>1, OverlapAbove, OverlapSymmetric
<1>6. CASE cap[o].id = cap[q].id
  BY <1>1, <1>6 DEF SameOwner
<1>7. CASE cap[o].id # cap[q].id
  BY <1>1, <1>2, <1>3, <1>5, <1>7 DEF LeasesDisjoint, Clash
<1> QED BY <1>6, <1>7

\* A fenced write of another owner hits no path a held capability grants.
LEMMA WriteStep ==
    ASSUME IInv, NEW q \in Ops, NEW r \in Paths, FencedWrite(q, r)
    PROVE  IInv'
<1> USE DEF IInv
<1>1. /\ MayWrite(q, r)
      /\ UNCHANGED <<now, alive, registry, legacy, cap, drawn>>
      /\ overwritten' = [o \in Ops |->
            IF SameOwner(q, o) \/ cap[o] = None THEN overwritten[o]
            ELSE overwritten[o] \cup {r}]
  BY DEF FencedWrite
<1>2. TypeOK'
  BY <1>1 DEF TypeOK
<1>3. NothingOverwritten'
  <2> SUFFICES ASSUME NEW o \in Ops, cap[o] # None, registry[cap[o].id] # None,
                      ~SameOwner(q, o),
                      NEW g \in cap[o].paths, Overlap(g, r)
               PROVE  FALSE
    BY <1>1 DEF NothingOverwritten, Clash
  <2>1. PICK h \in registry[cap[q].id].paths : h \in Ancestors[r]
    BY <1>1 DEF MayWrite, Covers
  <2>2. /\ cap[o].id \in LeaseIds /\ cap[q].id \in LeaseIds
        /\ registry[cap[q].id] # None /\ ~registry[cap[q].id].migrated
        /\ registry[cap[q].id].session = SessionOf[q]
        /\ registry[cap[q].id].pid = ProcOf[q]
    BY <1>1 DEF MayWrite, TypeOK, Cap, CapShape, Valid
  <2>3. /\ ~registry[cap[o].id].migrated
        /\ registry[cap[o].id].session = SessionOf[o]
        /\ SessionOf[o] = NoSession => registry[cap[o].id].pid = ProcOf[o]
        /\ g \in registry[cap[o].id].paths
    BY DEF CapShape
  <2>4. cap[o].id # cap[q].id
    BY <2>2, <2>3 DEF SameOwner
  <2>5. g \in Paths /\ h \in Paths
    BY <2>1, PathsAssumption DEF TypeOK, Cap
  <2>6. Overlap(h, g)
    BY <2>1, <2>5, OverlapSymmetric, OverlapAbove
  <2> QED BY <2>1, <2>2, <2>3, <2>4, <2>6, OverlapSymmetric DEF LeasesDisjoint, Clash
<1>4. LeaseShape' /\ LegacyShape'
  BY <1>1 DEF LeaseShape, LegacyShape, IsV1
<1>5. CapShape' /\ LeasesDisjoint' /\ Barrier'
  BY <1>1 DEF CapShape, LeasesDisjoint, Barrier
<1> QED BY <1>2, <1>3, <1>4, <1>5

----------------------------------------------------------------------------
(* Version 1 clients, processes and time *)

LEMMA V1Step ==
    ASSUME IInv, NEW v \in V1Procs, V1Acquire(v) \/ V1Renew(v) \/ V1Release(v)
    PROVE  IInv'
<1> USE DEF IInv
<1>1. UNCHANGED <<now, alive, registry, cap, overwritten>>
  BY DEF V1Acquire, V1Renew, V1Release
<1>2. now + TTL \in Times /\ now \in Times
  BY ConstantsAssumption DEF TypeOK, Times
<1>3. CASE V1Acquire(v)
  <2>1. PICK i \in LeaseIds \ drawn :
          /\ drawn' = drawn \cup {i}
          /\ legacy' = [kind |-> "v1", id |-> i, pid |-> v, exp |-> now + TTL]
    BY <1>3 DEF V1Acquire
  <2>2. TypeOK'
    BY <1>1, <1>2, <2>1 DEF TypeOK, V1Cap
  <2>3. LeaseShape' /\ LegacyShape'
    BY <1>1, <2>1 DEF LeaseShape, LegacyShape, CapShape
  <2>4. CapShape' /\ LeasesDisjoint' /\ NothingOverwritten'
    BY <1>1, <2>1 DEF CapShape, LeasesDisjoint, NothingOverwritten
  <2>5. Barrier'
    <3> SUFFICES ASSUME NEW o \in Ops, cap[o] # None, registry[cap[o].id] # None,
                        registry[cap[o].id].pid = ProcOf[o],
                        legacy # None /\ legacy.kind = "guard",
                        registry[cap[o].id].exp <= legacy.exp
                 PROVE  registry[cap[o].id].exp < now
      BY <1>1 DEF Barrier
    <3>1. ~(now <= legacy.exp)
      BY <1>3 DEF V1Acquire, GuardValid
    <3>2. now \in Int /\ legacy.exp \in Int
      BY DEF TypeOK, Guard, V1Cap, Times
    <3>3. registry[cap[o].id].exp \in Int
      BY DEF TypeOK, Cap, Lease, Times
    <3> QED BY <3>1, <3>2, <3>3
  <2> QED BY <2>2, <2>3, <2>4, <2>5
<1>4. CASE V1Renew(v) \/ V1Release(v)
  <2>1. /\ drawn' = drawn /\ IsV1(legacy) /\ legacy \in V1Cap
        /\ legacy' = None \/ legacy' = [legacy EXCEPT !.exp = now + TTL]
    BY <1>4 DEF V1Renew, V1Release, V1Holds, V1Valid, IsV1, TypeOK, Guard
  <2>2. legacy' = None \/ (legacy' \in V1Cap /\ legacy'.id = legacy.id)
    BY <1>2, <2>1 DEF V1Cap
  <2>3. TypeOK'
    BY <1>1, <2>1, <2>2 DEF TypeOK
  <2>4. LeaseShape' /\ LegacyShape'
    BY <1>1, <2>1, <2>2 DEF LeaseShape, LegacyShape, IsV1
  <2>5. CapShape' /\ LeasesDisjoint' /\ NothingOverwritten'
    BY <1>1, <2>1 DEF CapShape, LeasesDisjoint, NothingOverwritten
  <2>6. Barrier'
    BY <1>1, <2>1 DEF Barrier, IsV1
  <2> QED BY <2>3, <2>4, <2>5, <2>6
<1> QED BY <1>3, <1>4

LEMMA CrashStep ==
    ASSUME IInv, NEW p \in Pids, Crash(p)
    PROVE  IInv'
<1> USE DEF IInv
<1>1. Die(p) /\ UNCHANGED <<now, registry, legacy, drawn>>
  BY DEF Crash
<1>2. /\ registry' \in Registries
      /\ drawn \subseteq drawn' /\ drawn' \subseteq LeaseIds
  BY <1>1 DEF TypeOK, Registries
<1>3. LeaseShape' /\ LeasesDisjoint'
  BY <1>1 DEF LeaseShape, LeasesDisjoint
<1>4. IsV1(legacy) /\ registry'[legacy.id] # None => registry'[legacy.id].migrated
  BY <1>1 DEF LegacyShape
<1>5. \A o \in Ops : cap[o] # None /\ registry'[cap[o].id] # None =>
        ~registry'[cap[o].id].migrated
  BY <1>1 DEF CapShape
<1> QED BY <1>1, <1>2, <1>3, <1>4, <1>5, DieStep

LEMMA RestartOrTickStep ==
    ASSUME IInv, (\E p \in Pids : Restart(p)) \/ Tick
    PROVE  IInv'
<1> USE DEF IInv
<1>1. UNCHANGED <<registry, legacy, cap, drawn, overwritten>>
  BY DEF Restart, Tick
<1>2. /\ now' \in 0..MaxTime /\ now <= now'
      /\ alive \subseteq alive' /\ alive' \subseteq Pids
  BY ConstantsAssumption DEF Restart, Tick, TypeOK
<1>3. TypeOK' /\ LeaseShape' /\ LegacyShape'
  BY <1>1, <1>2 DEF TypeOK, LeaseShape, LegacyShape, IsV1
<1>4. CapShape' /\ LeasesDisjoint' /\ NothingOverwritten'
  BY <1>1, <1>2 DEF CapShape, LeasesDisjoint, NothingOverwritten
<1>5. Barrier'
  <2> SUFFICES ASSUME NEW o \in Ops, cap[o] # None, registry[cap[o].id] # None,
                      registry[cap[o].id].exp < now
               PROVE  registry[cap[o].id].exp < now'
    BY <1>1 DEF Barrier
  <2>1. registry[cap[o].id].exp \in Int /\ now \in Int /\ now' \in Int
    BY <1>2 DEF TypeOK, Cap, Lease, Times
  <2> QED BY <1>2, <2>1
<1> QED BY <1>3, <1>4, <1>5

----------------------------------------------------------------------------
(* The theorems *)

LEMMA InitInvariant == Init => IInv
<1> SUFFICES ASSUME Init PROVE IInv
  OBVIOUS
<1>1. TypeOK
  BY ConstantsAssumption DEF Init, TypeOK
<1> QED BY <1>1, ConstantsAssumption
        DEF Init, IInv, LeaseShape, LegacyShape, IsV1, CapShape, LeasesDisjoint,
            NothingOverwritten, Barrier

LEMMA NextInvariant ==
    ASSUME IInv, OwnersSeparated, [Next]_vars
    PROVE  IInv'
<1>1. ASSUME NEW o \in Ops, NEW P \in Requests, Acquire(o, P)
      PROVE  IInv'
  BY <1>1, AcquireStep
<1>2. ASSUME NEW o \in Ops, NEW P \in Requests, AcquireConflict(o, P)
      PROVE  IInv'
  <2>1. Within(Current)
    BY CurrentFacts DEF Within, IInv
  <2> QED BY <1>2, <2>1, ShrinkStep DEF AcquireConflict
<1>3. ASSUME NEW o \in Ops, Release(o)
      PROVE  IInv'
  <2>1. \E gone : Remove(ProcOf[o], gone)
    BY <1>3 DEF Release
  <2>2. ProcOf[o] \in Procs /\ UNCHANGED <<now, drawn>>
    BY <1>3, ConstantsAssumption DEF Release
  <2> QED BY <2>1, <2>2, RemoveStep
<1>4. ASSUME NEW o \in Ops, NEW p \in Paths, FencedWrite(o, p)
      PROVE  IInv'
  BY <1>4, WriteStep
<1>5. ASSUME NEW p \in Procs, NEW s \in Sessions, ReleaseSession(p, s)
      PROVE  IInv'
  BY <1>5, RemoveStep DEF ReleaseSession
<1>6. ASSUME NEW p \in Procs, NEW i \in LeaseIds, ReleaseAtShutdown(p, i)
      PROVE  IInv'
  BY <1>6, RemoveStep DEF ReleaseAtShutdown
<1>7. ASSUME NEW p \in Procs, SweepStale(p)
      PROVE  IInv'
  BY <1>7, RemoveStep DEF SweepStale
<1>8. ASSUME NEW v \in V1Procs, V1Acquire(v) \/ V1Renew(v) \/ V1Release(v)
      PROVE  IInv'
  BY <1>8, V1Step
<1>9. ASSUME NEW p \in Pids, Crash(p)
      PROVE  IInv'
  BY <1>9, CrashStep
<1>10. ASSUME (\E p \in Pids : Restart(p)) \/ Tick
       PROVE  IInv'
  BY <1>10, RestartOrTickStep
<1>11. CASE UNCHANGED vars
  BY <1>11 DEF vars, IInv, TypeOK, LeaseShape, LegacyShape, IsV1, CapShape,
               LeasesDisjoint, NothingOverwritten, Barrier
<1> QED
  BY <1>1, <1>2, <1>3, <1>4, <1>5, <1>6, <1>7, <1>8, <1>9, <1>10, <1>11 DEF Next

\* The strengthening the other theorems follow from.
THEOREM Invariant ==
    ASSUME OwnersSeparated
    PROVE  Spec => []IInv
<1>1. IInv /\ [Next]_vars => IInv'
  BY NextInvariant
<1> QED BY <1>1, InitInvariant, PTL DEF Spec

\* Operations of two owners never pass the fence for overlapping paths.
THEOREM WritersExcluded ==
    ASSUME OwnersSeparated
    PROVE  Spec => []WriteExclusion
<1>1. IInv => WriteExclusion
  BY FenceExcludes DEF WriteExclusion
<1> QED BY <1>1, Invariant, PTL

\* What an operation may write nobody else wrote since it was admitted.
THEOREM NoLostWrite ==
    ASSUME OwnersSeparated
    PROVE  Spec => []NoForeignOverwrite
<1>1. ASSUME IInv PROVE NoForeignOverwrite
  <2> SUFFICES ASSUME NEW o \in Ops, NEW p \in Paths, MayWrite(o, p),
                      NEW r \in overwritten[o], Overlap(p, r)
               PROVE  FALSE
    BY DEF NoForeignOverwrite
  <2>1. PICK g \in cap[o].paths : g \in Ancestors[p]
    BY DEF MayWrite, Covers
  <2>2. g \in Paths /\ r \in Paths
    BY <1>1, <2>1, PathsAssumption DEF IInv, TypeOK
  <2>3. Overlap(g, r)
    BY <2>1, <2>2, OverlapAbove
  <2> QED BY <1>1, <2>1, <2>3 DEF IInv, NothingOverwritten, Clash, MayWrite, Valid
<1> QED BY <1>1, Invariant, PTL

\* While a version 1 client holds the workspace nobody passes the fence.
THEOREM BarrierHolds ==
    ASSUME OwnersSeparated
    PROVE  Spec => []V1Exclusion
<1>1. ASSUME IInv PROVE V1Exclusion
  <2> SUFFICES ASSUME NEW v \in V1Procs, V1Holds(v),
                      NEW o \in Ops, NEW p \in Paths, MayWrite(o, p)
               PROVE  FALSE
    BY DEF V1Exclusion
  <2>1. legacy.kind = "v1"
    BY DEF V1Holds, V1Valid, IsV1
  <2>2. /\ cap[o] # None /\ registry[cap[o].id] # None
        /\ registry[cap[o].id].pid = ProcOf[o]
        /\ now <= registry[cap[o].id].exp
    BY DEF MayWrite, Valid
  <2>3. registry[cap[o].id].exp < now
    BY <1>1, <2>1, <2>2 DEF IInv, Barrier
  <2>4. now \in Int /\ registry[cap[o].id].exp \in Int
    BY <1>1, <2>2 DEF IInv, TypeOK, Cap, Lease, Times
  <2> QED BY <2>2, <2>3, <2>4
<1> QED BY <1>1, Invariant, PTL

----------------------------------------------------------------------------
(* Merged leases, with no assumption on who shares a process *)

\* A version 1 capability has an id of its own.
V1Drawn == IsV1(legacy) => legacy.id \in drawn

SharedInv == TypeOK /\ LeaseShape /\ V1Drawn /\ NeverMerged

\* A registry that carries nothing but what was there, and what a live version 1
\* client holds, merges nothing.
LEMMA FewerLeases ==
    ASSUME SharedInv, registry' = registry \/ Within(registry'),
           drawn \subseteq drawn'
    PROVE  LeaseShape' /\ NeverMerged'
<1> USE DEF SharedInv
<1>1. \A i \in LeaseIds : registry'[i] # None =>
        \/ registry'[i] = registry[i]
        \/ /\ registry'[i].migrated /\ IsV1(legacy) /\ i = legacy.id
           /\ registry'[i].session = V1Session
           /\ registry'[i].pid \in V1Procs
  BY CurrentFacts DEF Within, V1Valid
<1>2. LeaseShape'
  BY <1>1 DEF LeaseShape, V1Drawn
<1>3. NeverMerged'
  <2>1. \A i \in LeaseIds : registry'[i] # None /\ registry'[i].session \in Sessions =>
            registry'[i] = registry[i]
    BY <1>1, ConstantsAssumption
  <2> QED BY <2>1 DEF NeverMerged, Merged
<1> QED BY <1>2, <1>3

\* A grant meets only leases its operation may extend: a session's own, or, for a
\* call outside any session, those of its process.
LEMMA GrantMeets ==
    ASSUME SharedInv,
           NEW o \in Ops, NEW P \in Requests, NEW i \in LeaseIds,
           Admissible(o, P, Current), Target(o, i, Current)
    PROVE  LET reg == AfterAcquire(o, P, i) IN
           /\ reg \in Registries
           /\ reg[i] # None
           /\ ~reg[i].migrated
           /\ reg[i].pid = ProcOf[o]
           /\ \E q \in Ops : ProcOf[o] = ProcOf[q] /\ reg[i].session = SessionOf[q]
           /\ \A j \in LeaseIds \ {i} : reg[j] # None =>
                 /\ reg[j] = registry[j] /\ ~registry[j].migrated
                 /\ /\ {reg[i].session, reg[j].session} \subseteq Sessions
                    /\ reg[i].session # reg[j].session
                    /\ Clash(reg[i].paths, reg[j].paths)
                    => Shared(reg[i].session, reg[j].session)
<1> USE DEF SharedInv
<1> DEFINE reg == AfterAcquire(o, P, i)
           lease == Granted(o, P, i, Current)
<1>1. /\ Current \in Registries
      /\ \A j \in LeaseIds : Current[j] # None =>
            /\ ~Current[j].migrated => Current[j] = registry[j]
            /\ Current[j].migrated => /\ Current[j].session = V1Session
                                      /\ Current[j].pid \in V1Procs
                                      /\ Current[j].paths = {Root}
  BY CurrentFacts
<1>2. ProcOf[o] \in Procs /\ SessionOf[o] \in Sessions \cup {NoSession}
  BY ConstantsAssumption
<1>3. PICK w \in P : w \in Paths
  BY ConstantsAssumption
<1>4. \A j \in LeaseIds : Current[j] # None =>
          ~Current[j].migrated /\ Current[j] = registry[j]
  <2> SUFFICES ASSUME NEW j \in LeaseIds, Current[j] # None, Current[j].migrated
               PROVE  FALSE
    BY <1>1
  <2>1. j \in Held(Current) \ Owned(o, Current)
    BY <1>1, <1>2, ConstantsAssumption DEF Held, Owned
  <2>2. Clash(P, Current[j].paths)
    BY <1>1, <1>3, PathsAssumption DEF Clash, Overlap
  <2> QED BY <2>1, <2>2 DEF Admissible
<1>5. \A j \in Owned(o, Current) :
        /\ j \in LeaseIds /\ Current[j] # None
        /\ SessionOf[o] # NoSession => Current[j].session = SessionOf[o]
        /\ SessionOf[o] = NoSession =>
              /\ Current[j].pid = ProcOf[o]
              /\ \E q \in Ops : ProcOf[o] = ProcOf[q] /\ Current[j].session = SessionOf[q]
  BY <1>4 DEF Owned, Held, LeaseShape
<1>6. Current[i] # None => i \in Owned(o, Current)
  BY <1>4 DEF LeaseShape, Target
<1>7. /\ lease.session = IF SessionOf[o] = NoSession /\ Current[i] # None
                         THEN Current[i].session ELSE SessionOf[o]
      /\ lease.pid = ProcOf[o]
      /\ lease.paths = IF Current[i] # None THEN Current[i].paths \cup P ELSE P
      /\ lease.exp = now + TTL
      /\ lease.migrated = FALSE
  BY <1>4 DEF Granted
<1>8. lease \in Lease
  <2>1. Current[i] # None => Current[i] \in Lease
    BY <1>1 DEF Registries
  <2>2. lease.session \in Owners /\ lease.pid \in Pids
    BY <1>2, <1>7, <2>1 DEF Lease, Owners, Pids
  <2>3. lease.paths \subseteq Paths
    BY <1>7, <2>1, ConstantsAssumption DEF Lease
  <2>4. now + TTL \in Times
    BY ConstantsAssumption DEF TypeOK, Times
  <2>5. lease = [session |-> lease.session, pid |-> lease.pid, paths |-> lease.paths,
                 exp |-> lease.exp, migrated |-> lease.migrated]
    BY DEF Granted
  <2> HIDE DEF lease
  <2> QED BY <1>7, <2>2, <2>3, <2>4, <2>5 DEF Lease
<1>9. /\ reg \in Registries
      /\ reg[i] = lease
      /\ \A j \in LeaseIds \ {i} : reg[j] = Current[j]
  BY <1>1, <1>8 DEF AfterAcquire, Registries
<1> HIDE DEF reg, lease
<1>10. \E q \in Ops : ProcOf[o] = ProcOf[q] /\ lease.session = SessionOf[q]
  BY <1>5, <1>6, <1>7
<1>11. ASSUME NEW j \in LeaseIds \ {i}, Current[j] # None,
              {lease.session, Current[j].session} \subseteq Sessions,
              lease.session # Current[j].session,
              Clash(lease.paths, Current[j].paths)
       PROVE  Shared(lease.session, Current[j].session)
  <2>1. CASE SessionOf[o] # NoSession
    <3>1. j \notin Owned(o, Current)
      BY <1>5, <1>7, <1>11, <2>1
    <3>2. ~Clash(P, Current[j].paths)
      BY <1>11, <3>1 DEF Admissible, Held
    <3>3. /\ Current[i] # None /\ Current[i].session = lease.session
          /\ Clash(Current[i].paths, Current[j].paths)
      BY <1>5, <1>6, <1>7, <1>11, <2>1, <3>2 DEF Clash
    <3>4. Merged(i, j)
      BY <1>4, <1>11, <3>3 DEF Merged
    <3> QED BY <1>4, <1>11, <3>3, <3>4 DEF NeverMerged
  <2>2. CASE SessionOf[o] = NoSession
    <3>1. Current[i] # None /\ Current[i].session = lease.session
      BY <1>7, <1>11, <2>2, ConstantsAssumption
    <3>2. CASE j \in Owned(o, Current)
      BY <1>5, <1>10, <2>2, <3>2 DEF Shared
    <3>3. CASE j \notin Owned(o, Current)
      <4>1. ~Clash(P, Current[j].paths)
        BY <1>11, <3>3 DEF Admissible, Held
      <4>2. Clash(Current[i].paths, Current[j].paths)
        BY <1>7, <1>11, <3>1, <4>1 DEF Clash
      <4>3. Merged(i, j)
        BY <1>4, <1>11, <3>1, <4>2 DEF Merged
      <4> QED BY <1>4, <1>11, <3>1, <4>3 DEF NeverMerged
    <3> QED BY <3>2, <3>3
  <2> QED BY <2>1, <2>2
<1>12. lease # None
  BY <1>8, NoneAssumption
<1> QED
  <2>1. \A j \in LeaseIds \ {i} : reg[j] # None =>
          /\ reg[j] = registry[j] /\ ~registry[j].migrated
          /\ /\ {reg[i].session, reg[j].session} \subseteq Sessions
             /\ reg[i].session # reg[j].session
             /\ Clash(reg[i].paths, reg[j].paths)
             => Shared(reg[i].session, reg[j].session)
    BY <1>4, <1>9, <1>11
  <2> USE DEF reg
  <2> QED BY <1>7, <1>9, <1>10, <1>12, <2>1

\* So a grant merges leases of two sessions in a shared process only.
LEMMA GrantMerges ==
    ASSUME SharedInv,
           NEW o \in Ops, NEW P \in Requests, NEW i \in LeaseIds,
           Admissible(o, P, Current), Target(o, i, Current),
           registry' = AfterAcquire(o, P, i), drawn' = drawn \cup {i}
    PROVE  LeaseShape' /\ NeverMerged'
<1> USE DEF SharedInv
<1>1. /\ registry'[i] # None
      /\ ~registry'[i].migrated
      /\ \E q \in Ops : registry'[i].pid = ProcOf[q] /\ registry'[i].session = SessionOf[q]
      /\ \A j \in LeaseIds \ {i} : registry'[j] # None =>
            /\ registry'[j] = registry[j] /\ ~registry[j].migrated
            /\ /\ {registry'[i].session, registry'[j].session} \subseteq Sessions
               /\ registry'[i].session # registry'[j].session
               /\ Clash(registry'[i].paths, registry'[j].paths)
               => Shared(registry'[i].session, registry'[j].session)
  BY GrantMeets
<1>2. LeaseShape'
  BY <1>1 DEF LeaseShape
<1>3. NeverMerged'
  <2> SUFFICES ASSUME NEW j \in LeaseIds, NEW k \in LeaseIds, Merged(j, k)'
               PROVE  Shared(registry'[j].session, registry'[k].session)
    BY DEF NeverMerged, Shared
  <2>1. j # k
    BY DEF Merged
  <2>2. CASE j = i
    BY <1>1, <2>1, <2>2 DEF Merged
  <2>3. CASE k = i
    <3>1. Clash(registry'[k].paths, registry'[j].paths)
      BY OverlapSymmetric DEF Merged, Clash
    <3>2. Shared(registry'[k].session, registry'[j].session)
      BY <1>1, <2>1, <2>3, <3>1 DEF Merged
    <3> QED BY <3>2 DEF Shared
  <2>4. CASE j # i /\ k # i
    BY <1>1, <2>4 DEF NeverMerged, Merged
  <2> QED BY <2>2, <2>3, <2>4
<1> QED BY <1>2, <1>3

\* What the two files and a capability are typed by, after a commit, in a torn
\* transaction and when a process dies.
LEMMA Files ==
    ASSUME TypeOK, NEW reg \in Registries
    PROVE  /\ Commit(reg) /\ (\A i \in LeaseIds : reg[i] # None /\ reg[i].migrated =>
                                  reg[i].pid \in V1Procs)
              => /\ registry' = reg
                 /\ legacy' \in Guard \cup V1Cap \cup {None}
                 /\ IsV1(legacy') => legacy'.id \in LeaseIds /\ reg[legacy'.id] # None
           /\ Torn(reg) => /\ registry' \in {registry, reg}
                           /\ legacy' \in {legacy, None}
           /\ \A p : Die(p) => /\ alive' \subseteq Pids
                               /\ cap' \in [Ops -> Cap \cup {None}]
                               /\ overwritten' \in [Ops -> SUBSET Paths]
<1>1. now \in 0..MaxTime
  BY DEF TypeOK
<1>2. Torn(reg) => registry' \in {registry, reg} /\ legacy' \in {legacy, None}
  BY DEF Torn, LegacyMigrated
<1>3. \A p : Die(p) => /\ alive' \subseteq Pids
                       /\ cap' \in [Ops -> Cap \cup {None}]
                       /\ overwritten' \in [Ops -> SUBSET Paths]
  BY DEF Die, TypeOK
<1>4. ASSUME Commit(reg), \A i \in LeaseIds : reg[i] # None /\ reg[i].migrated =>
                              reg[i].pid \in V1Procs
      PROVE  /\ registry' = reg
             /\ legacy' \in Guard \cup V1Cap \cup {None}
             /\ IsV1(legacy') => legacy'.id \in LeaseIds /\ reg[legacy'.id] # None
  BY <1>1, <1>4, SentinelFacts DEF Commit
<1> QED BY <1>2, <1>3, <1>4

\* A transaction that takes leases away, committed or torn.
LEMMA SharedRemove ==
    ASSUME SharedInv, NEW p, NEW reg, Within(reg), UNCHANGED <<now, drawn>>,
           \/ Commit(reg) /\ UNCHANGED <<alive, cap, overwritten>>
           \/ Torn(reg) /\ Die(p)
    PROVE  SharedInv'
<1> USE DEF SharedInv
<1>1. reg \in Registries /\ \A i \in LeaseIds : reg[i] # None /\ reg[i].migrated =>
          reg[i].pid \in V1Procs
  BY CurrentFacts DEF Within
<1>2. CASE Commit(reg) /\ UNCHANGED <<alive, cap, overwritten>>
  <2>1. LeaseShape' /\ NeverMerged'
    BY <1>2, FewerLeases DEF Commit
  <2>2. /\ registry' = reg
        /\ legacy' \in Guard \cup V1Cap \cup {None}
        /\ IsV1(legacy') => legacy'.id \in LeaseIds /\ reg[legacy'.id] # None
    BY <1>1, <1>2, Files
  <2>3. V1Drawn'
    BY <2>1, <2>2 DEF V1Drawn, LeaseShape, IsV1
  <2> QED BY <1>1, <1>2, <2>1, <2>2, <2>3 DEF TypeOK, Registries
<1>3. CASE Torn(reg) /\ Die(p)
  <2>1. /\ registry' \in {registry, reg}
        /\ legacy' \in {legacy, None}
        /\ alive' \subseteq Pids
        /\ cap' \in [Ops -> Cap \cup {None}]
        /\ overwritten' \in [Ops -> SUBSET Paths]
    BY <1>1, <1>3, Files
  <2>2. LeaseShape' /\ NeverMerged'
    BY <2>1, FewerLeases
  <2> QED BY <1>1, <2>1, <2>2 DEF TypeOK, Registries, V1Drawn, IsV1
<1> QED BY <1>2, <1>3

LEMMA SharedAcquire ==
    ASSUME SharedInv, NEW o \in Ops, NEW P \in Requests, Acquire(o, P)
    PROVE  SharedInv'
<1> USE DEF SharedInv
<1>1. PICK i \in LeaseIds :
        LET reg == AfterAcquire(o, P, i) IN
        /\ Target(o, i, Current)
        /\ drawn' = drawn \cup {i}
        /\ \/ /\ Commit(reg)
              /\ cap' = [cap EXCEPT ![o] =
                    [id |-> i, session |-> reg[i].session, pid |-> reg[i].pid,
                     paths |-> reg[i].paths]]
              /\ overwritten' = [overwritten EXCEPT ![o] = {}]
              /\ UNCHANGED alive
           \/ Torn(reg) /\ Die(ProcOf[o])
  BY DEF Acquire
<1> DEFINE reg == AfterAcquire(o, P, i)
<1>2. Admissible(o, P, Current) /\ now' = now
  BY DEF Acquire
<1>3. /\ reg \in Registries /\ reg[i] # None /\ ~reg[i].migrated
      /\ \A j \in LeaseIds \ {i} : reg[j] # None => ~reg[j].migrated
  BY <1>1, <1>2, GrantMeets
<1>4. registry' = reg => LeaseShape' /\ NeverMerged'
  BY <1>1, <1>2, GrantMerges
<1>5. drawn' \subseteq LeaseIds /\ drawn \subseteq drawn'
  BY <1>1 DEF TypeOK
<1> HIDE DEF reg
<1>6. CASE /\ Commit(reg)
           /\ cap' = [cap EXCEPT ![o] =
                 [id |-> i, session |-> reg[i].session, pid |-> reg[i].pid,
                  paths |-> reg[i].paths]]
           /\ overwritten' = [overwritten EXCEPT ![o] = {}]
           /\ UNCHANGED alive
  <2>1. /\ registry' = reg
        /\ legacy' \in Guard \cup V1Cap \cup {None}
        /\ IsV1(legacy') => legacy'.id \in LeaseIds /\ reg[legacy'.id] # None
    BY <1>3, <1>6, Files
  <2>2. LeaseShape' /\ NeverMerged'
    BY <1>4, <2>1
  <2>3. reg[i] \in Lease
    BY <1>3 DEF Registries
  <2>4. [id |-> i, session |-> reg[i].session, pid |-> reg[i].pid,
         paths |-> reg[i].paths] \in Cap
    BY <2>3 DEF Lease, Cap
  <2>5. cap' \in [Ops -> Cap \cup {None}] /\ overwritten' \in [Ops -> SUBSET Paths]
    BY <1>6, <2>4 DEF TypeOK
  <2>6. TypeOK'
    BY <1>2, <1>3, <1>5, <1>6, <2>1, <2>5 DEF TypeOK, Registries
  <2>7. V1Drawn'
    BY <2>1, <2>2 DEF V1Drawn, LeaseShape, IsV1
  <2> QED BY <2>2, <2>6, <2>7
<1>7. CASE Torn(reg) /\ Die(ProcOf[o])
  <2>1. /\ registry' \in {registry, reg}
        /\ legacy' \in {legacy, None}
        /\ alive' \subseteq Pids
        /\ cap' \in [Ops -> Cap \cup {None}]
        /\ overwritten' \in [Ops -> SUBSET Paths]
    BY <1>3, <1>7, Files
  <2>2. LeaseShape' /\ NeverMerged'
    <3>1. CASE registry' = registry
      BY <1>5, <3>1, FewerLeases
    <3> QED BY <1>4, <2>1, <3>1
  <2> QED BY <1>2, <1>3, <1>5, <2>1, <2>2 DEF TypeOK, Registries, V1Drawn, IsV1
<1> QED BY <1>1, <1>6, <1>7 DEF reg

LEMMA SharedStep ==
    ASSUME SharedInv, [Next]_vars
    PROVE  SharedInv'
<1>a. Within(Current) /\ \A gone : Within([i \in LeaseIds |-> IF i \in gone THEN None ELSE Current[i]])
  BY CurrentFacts DEF SharedInv, Within, Registries
<1>b. \A p, gone : Remove(p, gone) /\ UNCHANGED <<now, drawn>> => SharedInv'
  BY <1>a, SharedRemove DEF Remove
<1> USE DEF SharedInv
<1>1. ASSUME NEW o \in Ops, NEW P \in Requests, Acquire(o, P)
      PROVE  SharedInv'
  BY <1>1, SharedAcquire
<1>2. ASSUME NEW o \in Ops, NEW P \in Requests, AcquireConflict(o, P)
      PROVE  SharedInv'
  BY <1>2, <1>a, SharedRemove DEF AcquireConflict
<1>3. ASSUME NEW o \in Ops, Release(o)
      PROVE  SharedInv'
  BY <1>3, <1>b DEF Release
<1>4. ASSUME NEW o \in Ops, NEW p \in Paths, FencedWrite(o, p)
      PROVE  SharedInv'
  BY <1>4, FewerLeases DEF FencedWrite, TypeOK, V1Drawn, IsV1
<1>5. ASSUME NEW p \in Procs, NEW s \in Sessions, ReleaseSession(p, s)
      PROVE  SharedInv'
  BY <1>5, <1>b DEF ReleaseSession
<1>6. ASSUME NEW p \in Procs, NEW i \in LeaseIds, ReleaseAtShutdown(p, i)
      PROVE  SharedInv'
  BY <1>6, <1>b DEF ReleaseAtShutdown
<1>7. ASSUME NEW p \in Procs, SweepStale(p)
      PROVE  SharedInv'
  BY <1>7, <1>b DEF SweepStale
<1>8. ASSUME NEW v \in V1Procs, V1Acquire(v) \/ V1Renew(v) \/ V1Release(v)
      PROVE  SharedInv'
  <2>1. UNCHANGED <<now, alive, registry, cap, overwritten>>
    BY <1>8 DEF V1Acquire, V1Renew, V1Release
  <2>2. now + TTL \in Times
    BY ConstantsAssumption DEF TypeOK, Times
  <2>3. CASE V1Acquire(v)
    <3>1. PICK i \in LeaseIds \ drawn :
            /\ drawn' = drawn \cup {i}
            /\ legacy' = [kind |-> "v1", id |-> i, pid |-> v, exp |-> now + TTL]
      BY <2>3 DEF V1Acquire
    <3>2. LeaseShape' /\ NeverMerged'
      BY <2>1, <3>1, FewerLeases
    <3> QED BY <2>1, <2>2, <3>1, <3>2 DEF TypeOK, V1Cap, V1Drawn
  <2>4. CASE V1Renew(v) \/ V1Release(v)
    <3>1. /\ drawn' = drawn /\ IsV1(legacy) /\ legacy \in V1Cap
          /\ legacy' = None \/ legacy' = [legacy EXCEPT !.exp = now + TTL]
      BY <2>4 DEF V1Renew, V1Release, V1Holds, V1Valid, IsV1, TypeOK, Guard
    <3>2. legacy' = None \/ (legacy' \in V1Cap /\ legacy'.id = legacy.id)
      BY <2>2, <3>1 DEF V1Cap
    <3>3. LeaseShape' /\ NeverMerged'
      BY <2>1, <3>1, FewerLeases
    <3> QED BY <2>1, <3>1, <3>2, <3>3 DEF TypeOK, V1Drawn, IsV1
  <2> QED BY <1>8, <2>3, <2>4
<1>9. ASSUME NEW p \in Pids, Crash(p)
      PROVE  SharedInv'
  <2>1. registry \in Registries
    BY DEF TypeOK, Registries
  <2>2. /\ alive' \subseteq Pids
        /\ cap' \in [Ops -> Cap \cup {None}]
        /\ overwritten' \in [Ops -> SUBSET Paths]
    BY <1>9, <2>1, Files DEF Crash
  <2> QED BY <1>9, <2>2, FewerLeases DEF Crash, TypeOK, V1Drawn, IsV1
<1>10. ASSUME (\E p \in Pids : Restart(p)) \/ Tick
       PROVE  SharedInv'
  BY <1>10, FewerLeases, ConstantsAssumption DEF Restart, Tick, TypeOK, V1Drawn, IsV1
<1>11. CASE UNCHANGED vars
  BY <1>11, FewerLeases DEF vars, TypeOK, V1Drawn, IsV1
<1> QED
  BY <1>1, <1>2, <1>3, <1>4, <1>5, <1>6, <1>7, <1>8, <1>9, <1>10, <1>11 DEF Next

\* The registry, the compatibility file and the capabilities keep their types,
\* whoever shares a process with whom.
THEOREM TypeCorrect == Spec => []TypeOK
<1>1. Init => SharedInv
  BY InitInvariant DEF IInv, SharedInv, Init, V1Drawn, IsV1, NeverMerged, Merged
<1>2. SharedInv /\ [Next]_vars => SharedInv'
  BY SharedStep
<1>3. SharedInv => TypeOK
  BY DEF SharedInv
<1> QED BY <1>1, <1>2, <1>3, PTL DEF Spec

\* Leases of two sessions overlap in the registry only when one process serves
\* both and a call outside any session (acquire_path_lease).
THEOREM LeasesNeverMerged == Spec => []NeverMerged
<1>1. Init => SharedInv
  BY InitInvariant DEF IInv, SharedInv, Init, V1Drawn, IsV1, NeverMerged, Merged
<1>2. SharedInv /\ [Next]_vars => SharedInv'
  BY SharedStep
<1>3. SharedInv => NeverMerged
  BY DEF SharedInv
<1> QED BY <1>1, <1>2, <1>3, PTL DEF Spec

============================================================================
