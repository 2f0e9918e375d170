------------------------ MODULE RequestJournal_proofs ------------------------
(***************************************************************************)
(* For any number of requests, servers, lanes and faults: a request whose  *)
(* record is kept is executed by one process at a time, and opens a second *)
(* session only if the first was never bound to it.                        *)
(***************************************************************************)
EXTENDS RequestJournal, TLAPS

\* A call in progress has its request and a process.
CallsRun ==
    \A p \in Procs :
        pc[p] # "idle" => req[p] \in Requests /\ procs[p] = "up"

\* The process that executes a request owns its record.
OwnersExecute ==
    \A p \in Procs :
        pc[p] \in Executing /\ req[p] \notin pruned =>
            /\ record[req[p]].owner = p
            /\ record[req[p]].status \in {"started", "completed"}

\* What a call is to write into is there.
RecordsKept ==
    /\ \A p \in Procs :
          pc[p] = "recover" => Exists(req[p]) \/ req[p] \in pruned
    /\ ConflictMeansPruned

\* A session that was opened is bound, or is about to be.
OpenedBound ==
    \A r \in Requests \ (pruned \cup orphaned) :
        opened[r] > 0 =>
            /\ Exists(r)
            /\ record[r].session \/ \E p \in Procs : pc[p] = "bind" /\ req[p] = r

\* Who is about to open a session opens the first.
OpensFirst ==
    \A p \in Procs :
        pc[p] = "open" /\ req[p] \notin pruned \cup orphaned => opened[req[p]] = 0

Rest == CallsRun /\ OwnersExecute /\ RecordsKept /\ OpenedBound /\ OpensFirst /\ OpensOnce
IInv == TypeOK /\ Rest

----------------------------------------------------------------------------

THEOREM Initially == Init => IInv
BY JournalConstants DEF Init, IInv, TypeOK, Rest, CallsRun, OwnersExecute, RecordsKept,
   ConflictMeansPruned, OpenedBound, OpensFirst, OpensOnce, Exists, Record, None,
   Lane, Points, Executing

\* Storing a record may prune others, and says so.
LEMMA StoreShape ==
    ASSUME record \in [Requests -> Record], NEW r \in Requests, NEW rec \in Record,
           rec.status # "none", pruned \subseteq Requests, Store(r, rec)
    PROVE  /\ record' \in [Requests -> Record]
           /\ record'[r] = rec
           /\ \A k \in Requests \ {r} :
                 \/ record'[k] = record[k]
                 \/ record'[k] = None /\ (Exists(k) => k \in pruned')
           /\ pruned \subseteq pruned' /\ pruned' \subseteq Requests
           /\ r \in pruned' => r \in pruned
<1> DEFINE new == [record EXCEPT ![r] = rec]
           kept == {k \in Requests : new[k].status # "none"}
<1>1. None \in Record /\ None.status = "none"
  BY DEF None, Record
<1>2. new \in [Requests -> Record] /\ new[r] = rec
  OBVIOUS
<1>3. \/ record' = new
      \/ \E g \in SUBSET (kept \ {r}) :
            record' = [k \in Requests |-> IF k \in g THEN None ELSE new[k]]
  BY DEF Store, Prune
<1>4. /\ record' \in [Requests -> Record]
      /\ record'[r] = rec
      /\ \A k \in Requests \ {r} : record'[k] \in {record[k], None}
  BY <1>1, <1>2, <1>3
<1> QED BY <1>1, <1>4 DEF Store, Exists

LEMMA TypeStep ==
    ASSUME TypeOK, CallsRun, [Next]_vars
    PROVE  TypeOK'
<1> USE JournalConstants DEF TypeOK, CallsRun
<1>1. ASSUME NEW p \in Procs, Scan(p) PROVE TypeOK'
  BY <1>1 DEF Scan, Standing, Record, Lane, Points, None
<1>2. ASSUME NEW p \in Procs, Insert(p) PROVE TypeOK'
  <2>1. [status |-> "started", owner |-> p, session |-> FALSE] \in Record
    BY DEF Record
  <2> QED BY <1>2, <2>1, StoreShape DEF Insert, Decide, Goto, Points, CallsRun
<1>3. ASSUME NEW p \in Procs, Replay(p) PROVE TypeOK'
  BY <1>3 DEF Replay, Decide, Goto, Record, Lane, Points, None
<1>4. ASSUME NEW p \in Procs, Recover(p) PROVE TypeOK'
  BY <1>4 DEF Recover, Decide, Goto, Pending, Record, Lane, Points, None
<1>5. ASSUME NEW p \in Procs, TakeOver(p) PROVE TypeOK'
  BY <1>5 DEF TakeOver, Decide, Goto, MayTakeOver, Pending, Alive, Record,
     Lane, Points, None
<1>6. ASSUME NEW p \in Procs, Wait(p) PROVE TypeOK'
  BY <1>6 DEF Wait, Decide, Goto, Record, Lane, Points, None
<1>7. ASSUME NEW p \in Procs, Open(p) PROVE TypeOK'
  <2>1. req[p] \in Requests /\ [request |-> req[p], open |-> TRUE] \in Lane
    BY <1>7 DEF Open, Lane
  <2>2. lanes' \in [Lanes -> Lane]
    BY <1>7, <2>1 DEF Open
  <2>3. opened' \in [Requests -> 0..2]
    BY <1>7, <2>1 DEF Open
  <2> QED BY <1>7, <2>2, <2>3 DEF Open, Goto, Points
<1>8. ASSUME NEW p \in Procs, Bind(p) PROVE TypeOK'
  <2>1. req[p] \in Requests
    BY <1>8 DEF Bind
  <2>2. [record EXCEPT ![req[p]].session = TRUE] \in [Requests -> Record]
    BY <2>1 DEF Record
  <2>3. record' \in [Requests -> Record]
    BY <1>8, <2>2 DEF Bind
  <2> QED BY <1>8, <2>3 DEF Bind, Goto, Points
<1>9. ASSUME NEW p \in Procs, Complete(p) PROVE TypeOK'
  <2>0. req[p] \in Requests /\ record[req[p]] \in Record
    BY <1>9 DEF Complete
  <2>1. PICK rec \in Record : rec.status # "none" /\ Store(req[p], rec)
    <3>1. PICK named \in BOOLEAN :
              Store(req[p], [record[req[p]] EXCEPT !.status = Marked(req[p], "completed"),
                                                   !.session = IF named THEN TRUE ELSE @])
      BY <1>9 DEF Complete
    <3>2. Marked(req[p], "completed") \in {"completed", "bare"}
      BY DEF Marked
    <3> QED BY <2>0, <3>1, <3>2 DEF Record
  <2> QED BY <1>9, <2>1, StoreShape DEF Complete, Goto, Points, CallsRun
<1>10. ASSUME NEW p \in Procs, Answer(p) PROVE TypeOK'
  BY <1>10 DEF Answer, Goto, Record, Lane, Points, None
<1>11. ASSUME NEW p \in Procs, Raise(p) PROVE TypeOK'
  <2>1. req[p] \in Requests /\ Marked(req[p], "unknown") \in {"unknown", "bare"}
    BY <1>11 DEF Raise, Marked, Executing
  <2>2. record' \in [Requests -> Record]
    BY <1>11, <2>1 DEF Raise, Record
  <2> QED BY <1>11, <2>1, <2>2 DEF Raise, Goto, Points, Fault
<1>12. ASSUME NEW p \in Procs, RecoverRaises(p) PROVE TypeOK'
  BY <1>12 DEF RecoverRaises, Goto, Fault, Record, Lane, Points, None
<1>13. ASSUME NEW p \in Procs, Die(p) PROVE TypeOK'
  BY <1>13 DEF Die, Goto, Fault, Record, Lane, Points, None
<1>14. ASSUME NEW p \in Procs, PidReused(p) PROVE TypeOK'
  BY <1>14 DEF PidReused, Record, Lane, Points, None
<1>15. ASSUME NEW p \in Procs, ForeignEnds(p) PROVE TypeOK'
  BY <1>15 DEF ForeignEnds, Record, Lane, Points, None
<1>16. ASSUME NEW p \in Procs, NEW r \in Requests, Submit(p, r) PROVE TypeOK'
  BY <1>16 DEF Submit, Record, Lane, Points, None
<1>17. ASSUME NEW l \in Lanes, EndSession(l) PROVE TypeOK'
  BY <1>17 DEF EndSession, Record, Lane, Points, None
<1>18. ASSUME NEW l \in Lanes, StartPlain(l) PROVE TypeOK'
  BY <1>18 DEF StartPlain, Record, Lane, Points, None
<1>19. CASE UNCHANGED vars
  BY <1>19 DEF vars, Record, Lane, Points, None
<1> QED
  BY <1>1, <1>2, <1>3, <1>4, <1>5, <1>6, <1>7, <1>8, <1>9, <1>10, <1>11,
     <1>12, <1>13, <1>14, <1>15, <1>16, <1>17, <1>18, <1>19 DEF Next, Step

LEMMA RestStep ==
    ASSUME IInv, [Next]_vars
    PROVE  Rest'
<1> USE JournalConstants DEF IInv, TypeOK, Rest, CallsRun, OwnersExecute, RecordsKept,
            ConflictMeansPruned, OpenedBound, OpensFirst, OpensOnce, Executing
<1>1. ASSUME NEW p \in Procs, Scan(p) PROVE Rest'
  BY <1>1 DEF Scan, Standing, Exists
<1>2. ASSUME NEW p \in Procs, Insert(p) PROVE Rest'
  <2> DEFINE r == req[p]
             rec == [status |-> "started", owner |-> p, session |-> FALSE]
  <2>1. r \in Requests /\ rec \in Record /\ rec.status = "started" /\ Store(r, rec)
    BY <1>2 DEF Insert, Decide, Record
  <2>2. /\ record'[r] = rec
        /\ \A k \in Requests \ {r} :
              \/ record'[k] = record[k]
              \/ record'[k] = None /\ (Exists(k) => k \in pruned')
        /\ pruned \subseteq pruned' /\ (r \in pruned' => r \in pruned)
    BY <2>1, StoreShape
  <2> QED BY <1>2, <2>1, <2>2 DEF Insert, Decide, Goto, Exists, None
<1>3. ASSUME NEW p \in Procs, Replay(p) PROVE Rest'
  BY <1>3 DEF Replay, Decide, Goto, Exists
<1>4. ASSUME NEW p \in Procs, Recover(p) PROVE Rest'
  BY <1>4 DEF Recover, Decide, Goto, Pending, Exists
<1>5. ASSUME NEW p \in Procs, TakeOver(p) PROVE Rest'
  BY <1>5 DEF TakeOver, Decide, Goto, MayTakeOver, Pending, Alive, Exists
<1>6. ASSUME NEW p \in Procs, Wait(p) PROVE Rest'
  BY <1>6 DEF Wait, Decide, Goto, Exists
<1>7. ASSUME NEW p \in Procs, Open(p) PROVE Rest'
  BY <1>7 DEF Open, Goto, Exists
<1>8. ASSUME NEW p \in Procs, Bind(p) PROVE Rest'
  <2> DEFINE r == req[p]
  <2>1. r \in Requests /\ record[r] \in Record
    BY <1>8 DEF Bind
  <2>2. /\ Exists(r) => record'[r].session = TRUE /\ record'[r].owner = record[r].owner
                         /\ record'[r].status = record[r].status
        /\ ~Exists(r) => record' = record
        /\ \A k \in Requests \ {r} : record'[k] = record[k]
    BY <1>8, <2>1 DEF Bind, Record
  <2>3. \A k \in Requests : record'[k].status = record[k].status
                            /\ record'[k].owner = record[k].owner
                            /\ (record[k].session => record'[k].session)
    BY <2>2
  <2> QED BY <1>8, <2>1, <2>2, <2>3 DEF Bind, Goto, Exists
<1>9. ASSUME NEW p \in Procs, Complete(p) PROVE Rest'
  <2> DEFINE r == req[p]
  <2>0. r \in Requests /\ (Exists(r) \/ r \in pruned)
    BY <1>9 DEF Complete, Exists
  <2>1. PICK rec \in Record :
            /\ rec.status # "none" /\ Store(r, rec)
            /\ rec.owner = record[r].owner
            /\ record[r].session => rec.session
            /\ r \notin pruned => rec.status = "completed"
    <3>1. PICK named \in BOOLEAN :
              Store(r, [record[r] EXCEPT !.status = Marked(r, "completed"),
                                         !.session = IF named THEN TRUE ELSE @])
      BY <1>9 DEF Complete
    <3>2. /\ Marked(r, "completed") \in {"completed", "bare"}
          /\ r \notin pruned => Marked(r, "completed") = "completed"
      BY <2>0 DEF Marked
    <3> DEFINE new == [record[r] EXCEPT !.status = Marked(r, "completed"),
                                        !.session = IF named THEN TRUE ELSE @]
    <3>3. record[r] \in Record
      BY <2>0
    <3>4. /\ new.owner = record[r].owner
          /\ new.status = Marked(r, "completed")
          /\ record[r].session => new.session
      BY <3>3 DEF Record
    <3>5. new \in Record
      BY <3>2, <3>3, Zenon DEF Record
    <3> HIDE DEF new
    <3>6. Store(r, new)
      BY <3>1 DEF new
    <3> QED BY <3>2, <3>4, <3>5, <3>6
  <2>2. /\ record'[r] = rec
        /\ \A k \in Requests \ {r} :
              \/ record'[k] = record[k]
              \/ record'[k] = None /\ (Exists(k) => k \in pruned')
        /\ pruned \subseteq pruned' /\ (r \in pruned' => r \in pruned)
    BY <2>0, <2>1, StoreShape
  <2> QED BY <1>9, <2>0, <2>1, <2>2 DEF Complete, Goto, Exists, None
<1>10. ASSUME NEW p \in Procs, Answer(p) PROVE Rest'
  BY <1>10 DEF Answer, Goto, Exists
<1>11. ASSUME NEW p \in Procs, Raise(p) PROVE Rest'
  BY <1>11 DEF Raise, Goto, Fault, Marked, Exists
<1>12. ASSUME NEW p \in Procs, RecoverRaises(p) PROVE Rest'
  BY <1>12 DEF RecoverRaises, Goto, Fault, Exists
<1>13. ASSUME NEW p \in Procs, Die(p) PROVE Rest'
  BY <1>13 DEF Die, Goto, Fault, Exists
<1>14. ASSUME NEW p \in Procs, PidReused(p) PROVE Rest'
  BY <1>14 DEF PidReused, Exists
<1>15. ASSUME NEW p \in Procs, ForeignEnds(p) PROVE Rest'
  BY <1>15 DEF ForeignEnds, Exists
<1>16. ASSUME NEW p \in Procs, NEW r \in Requests, Submit(p, r) PROVE Rest'
  BY <1>16 DEF Submit, Exists
<1>17. ASSUME NEW l \in Lanes, EndSession(l) PROVE Rest'
  BY <1>17 DEF EndSession, Exists
<1>18. ASSUME NEW l \in Lanes, StartPlain(l) PROVE Rest'
  BY <1>18 DEF StartPlain, Exists
<1>19. CASE UNCHANGED vars
  BY <1>19 DEF vars, Exists
<1> QED
  BY <1>1, <1>2, <1>3, <1>4, <1>5, <1>6, <1>7, <1>8, <1>9, <1>10, <1>11,
     <1>12, <1>13, <1>14, <1>15, <1>16, <1>17, <1>18, <1>19 DEF Next, Step

----------------------------------------------------------------------------

LEMMA Inductive == Spec => []IInv
<1>1. IInv /\ [Next]_vars => IInv'
  BY TypeStep, RestStep DEF IInv, Rest
<1> QED BY Initially, <1>1, PTL DEF Spec

\* The records, the lanes and the calls keep their types.
THEOREM TypeCorrect == Spec => []TypeOK
BY Inductive, PTL DEF IInv

\* A request whose record was kept opens a second session only if an execution
\* left one that it had not bound.
THEOREM Once == Spec => []OpensOnce
BY Inductive, PTL DEF IInv, Rest

\* No two processes execute a request whose record is kept.
THEOREM OneExecutor == Spec => []ExecutesOnce
<1>1. IInv => ExecutesOnce
  BY DEF IInv, Rest, OwnersExecute, ExecutesOnce
<1> QED BY Inductive, <1>1, PTL

\* A record that matches no request any more is one that was pruned before.
THEOREM NoFalseConflict == Spec => []ConflictMeansPruned
BY Inductive, PTL DEF IInv, Rest, RecordsKept

=============================================================================
