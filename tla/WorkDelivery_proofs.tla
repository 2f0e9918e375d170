------------------------- MODULE WorkDelivery_proofs -------------------------
(***************************************************************************)
(* For any number of callers, requests, endpoints and faults: a request    *)
(* that is retried no more has had its effect or was replaced by one that  *)
(* had, a sync keeps its hands off what it read to be fenced, and the      *)
(* endpoint moves along signed transitions only.                           *)
(***************************************************************************)
EXTENDS WorkDelivery, TLAPS

\* What is beside an outbox entry is true of it.
EntriesSound ==
    /\ acked \subseteq queued
    /\ \A r \in acked : Applied(r)
    /\ \A r \in Requests : Retired(r) =>
          retired[r] \in acked /\ Kind[retired[r]] = Kind[r]
    /\ \A g \in Endpoints : fenced[g] \subseteq queued

\* What a sync has done for the entry it is at.
Progress(p) ==
    /\ Posting(p) \/ pc[p] \in {"read", "fence"} => todo[p] \subseteq queued
    /\ pc[p] \in {"store", "follow", "ack"} => cur[p] \in todo[p] \cap accepted
    /\ pc[p] = "store" => Kind[cur[p]] # "evidence"
    /\ pc[p] = "follow" => Kind[cur[p]] = "acceptance" /\ cur[p] \in bound
    /\ pc[p] = "ack" => Applied(cur[p])

\* What was in the outbox and not pending when a call read the pending
\* entries is never pending again; past the fences that is all that a sync
\* has found in them of what was there.
Barred(p) ==
    /\ pc[p] = "read" =>
          barred[p] \subseteq queued /\ barred[p] \ todo[p] \subseteq queued \ Pending
    /\ pc[p] = "checked" \/ Posting(p) => barred[p] \subseteq queued \ Pending
    /\ Posting(p) => todo[p] \cap barred[p] = {}

\* The caller in the lock of the configuration writes what it has signed.
Signed(p) ==
    pc[p] = "move" =>
        /\ \E k \in moved : From[k] = url /\ To[k] = gen[p]
        /\ \A q \in Callers : pc[q] = "move" => q = p

Named(p) ==
    /\ pc[p] \in {"loaded", "read"} => cur[p] \in Evidence \cup {NoRequest}
    /\ pc[p] = "publish" => cur[p] \in Evidence
    /\ pc[p] \in {"loaded", "read", "leave", "fence", "move"} => gen[p] \in Endpoints

CallsSound == \A p \in Callers : Named(p) /\ Progress(p) /\ Barred(p) /\ Signed(p)

IInv == TypeOK /\ EntriesSound /\ CallsSound

----------------------------------------------------------------------------

THEOREM Initially == Init => IInv
BY DeliveryConstants DEF Init, IInv, TypeOK, EntriesSound, CallsSound, Named, Progress,
   Barred, Signed, Posting, Points, Retired

LEMMA TypeStep ==
    ASSUME TypeOK, CallsSound, [Next]_vars
    PROVE  TypeOK'
<1>0. Pending \subseteq queued
  BY DEF Pending
<1> USE <1>0, DeliveryConstants DEF TypeOK, CallsSound, Named, Progress, Points
<1>1. ASSUME NEW r \in Requests, QueueCall(r) PROVE TypeOK'
  BY <1>1 DEF QueueCall, Queue
<1>2. ASSUME NEW r \in Requests, NEW s \in Requests, Retire(r, s) PROVE TypeOK'
  BY <1>2 DEF Retire, MayRetire, Retired
<1>3. ASSUME NEW p \in Callers, PublishQueue(p) PROVE TypeOK'
  BY <1>3 DEF PublishQueue, Queue, Done, Goto, Evidence
<1>4. ASSUME NEW p \in Callers, ReadFences(p) PROVE TypeOK'
  <2>1. cur[p] \in Requests \cup {NoRequest} /\ gen[p] \in Endpoints
    BY <1>4 DEF ReadFences, Evidence
  <2>2. CASE cur[p] = NoRequest
    BY <1>4, <2>1, <2>2 DEF ReadFences, files, Goto
  <2>3. CASE cur[p] # NoRequest
    BY <1>4, <2>1, <2>3 DEF ReadFences, files, Goto
  <2> QED BY <2>2, <2>3
<1>20. ASSUME NEW p \in Callers, ReadPending(p) PROVE TypeOK'
  BY <1>20 DEF ReadPending, files, Evidence, Goto
<1>21. ASSUME NEW p \in Callers, FencedOff(p) PROVE TypeOK'
  BY <1>21 DEF FencedOff, files, Done, Goto
<1>22. ASSUME NEW p \in Callers, Disconnect(p) PROVE TypeOK'
  BY <1>22 DEF Disconnect, files, Goto
<1>5. ASSUME NEW p \in Callers, Snapshot(p) PROVE TypeOK'
  BY <1>5 DEF Snapshot, files, Goto
<1>6. ASSUME NEW p \in Callers, Store(p) PROVE TypeOK'
  BY <1>6 DEF Store, At
<1>7. ASSUME NEW p \in Callers, Follow(p) PROVE TypeOK'
  BY <1>7 DEF Follow, At, Queue
<1>8. ASSUME NEW p \in Callers, Ack(p) PROVE TypeOK'
  BY <1>8 DEF Ack, NextEntry, Goto
<1>9. ASSUME NEW p \in Callers, SyncEnd(p) PROVE TypeOK'
  BY <1>9 DEF SyncEnd, files, Done, Goto
<1>10. ASSUME NEW p \in Callers, DisconnectRead(p) PROVE TypeOK'
  BY <1>10 DEF DisconnectRead, files, Goto
<1>11. ASSUME NEW p \in Callers, DisconnectWrite(p) PROVE TypeOK'
  BY <1>11 DEF DisconnectWrite, Done, Goto
<1>12. ASSUME NEW p \in Callers, TransitionWrite(p) PROVE TypeOK'
  BY <1>12 DEF TransitionWrite, Done, Goto
<1>13. ASSUME NEW p \in Callers, Crash(p) PROVE TypeOK'
  BY <1>13 DEF Crash, Done, Goto, files
<1>14. ASSUME NEW p \in Callers, NEW r \in Evidence \cup {NoRequest}, Load(p, r) PROVE TypeOK'
  BY <1>14 DEF Load, files, Evidence, Goto
<1>15. ASSUME NEW p \in Callers, NEW r \in Requests, Post(p, r) PROVE TypeOK'
  BY <1>15 DEF Post, Goto
<1>16. ASSUME NEW p \in Callers, NEW r \in Requests, PostRefused(p, r) PROVE TypeOK'
  BY <1>16 DEF PostRefused, files, NextEntry, Goto
<1>17. ASSUME NEW p \in Callers, NEW r \in Requests, PostLost(p, r) PROVE TypeOK'
  BY <1>17 DEF PostLost, NextEntry, Goto
<1>18. ASSUME NEW p \in Callers, NEW k \in Transitions, TransitionSign(p, k) PROVE TypeOK'
  BY <1>18 DEF TransitionSign, Goto
<1>19. CASE UNCHANGED vars
  BY <1>19 DEF vars, files
<1> QED
  BY <1>1, <1>2, <1>3, <1>4, <1>5, <1>6, <1>7, <1>8, <1>9, <1>10, <1>11,
     <1>12, <1>13, <1>14, <1>15, <1>16, <1>17, <1>18, <1>19, <1>20, <1>21, <1>22 DEF Next

\* Nothing that was written is taken away, and no entry becomes pending again.
Grows ==
    /\ queued \subseteq queued' /\ acked \subseteq acked' /\ bound \subseteq bound'
    /\ accepted \subseteq accepted' /\ moved \subseteq moved'
    /\ \A r \in Requests : Retired(r) => retired'[r] = retired[r]

LEMMA Growing ==
    ASSUME TypeOK, [Next]_vars
    PROVE  Grows
<1> USE DEF TypeOK, Grows
<1>1. ASSUME NEW r \in Requests, QueueCall(r) PROVE Grows
  BY <1>1 DEF QueueCall, Queue
<1>2. ASSUME NEW r \in Requests, NEW s \in Requests, Retire(r, s) PROVE Grows
  BY <1>2 DEF Retire, MayRetire, Retired
<1>3. ASSUME NEW p \in Callers, PublishQueue(p) PROVE Grows
  BY <1>3 DEF PublishQueue, Queue, Done, Goto, Evidence
<1>4. ASSUME NEW p \in Callers, ReadFences(p) PROVE Grows
  BY <1>4 DEF ReadFences, files, Evidence, Goto
<1>20. ASSUME NEW p \in Callers, ReadPending(p) PROVE Grows
  BY <1>20 DEF ReadPending, files, Evidence, Goto
<1>21. ASSUME NEW p \in Callers, FencedOff(p) PROVE Grows
  BY <1>21 DEF FencedOff, files, Done, Goto
<1>22. ASSUME NEW p \in Callers, Disconnect(p) PROVE Grows
  BY <1>22 DEF Disconnect, files, Goto
<1>5. ASSUME NEW p \in Callers, Snapshot(p) PROVE Grows
  BY <1>5 DEF Snapshot, files, Goto
<1>6. ASSUME NEW p \in Callers, Store(p) PROVE Grows
  BY <1>6 DEF Store, At
<1>7. ASSUME NEW p \in Callers, Follow(p) PROVE Grows
  BY <1>7 DEF Follow, At, Queue
<1>8. ASSUME NEW p \in Callers, Ack(p) PROVE Grows
  BY <1>8 DEF Ack, NextEntry, Goto
<1>9. ASSUME NEW p \in Callers, SyncEnd(p) PROVE Grows
  BY <1>9 DEF SyncEnd, files, Done, Goto
<1>10. ASSUME NEW p \in Callers, DisconnectRead(p) PROVE Grows
  BY <1>10 DEF DisconnectRead, files, Goto
<1>11. ASSUME NEW p \in Callers, DisconnectWrite(p) PROVE Grows
  BY <1>11 DEF DisconnectWrite, Done, Goto
<1>12. ASSUME NEW p \in Callers, TransitionWrite(p) PROVE Grows
  BY <1>12 DEF TransitionWrite, Done, Goto
<1>13. ASSUME NEW p \in Callers, Crash(p) PROVE Grows
  BY <1>13 DEF Crash, Done, Goto, files
<1>14. ASSUME NEW p \in Callers, NEW r \in Evidence \cup {NoRequest}, Load(p, r) PROVE Grows
  BY <1>14 DEF Load, files, Evidence, Goto
<1>15. ASSUME NEW p \in Callers, NEW r \in Requests, Post(p, r) PROVE Grows
  BY <1>15 DEF Post, Goto
<1>16. ASSUME NEW p \in Callers, NEW r \in Requests, PostRefused(p, r) PROVE Grows
  BY <1>16 DEF PostRefused, files, NextEntry, Goto
<1>17. ASSUME NEW p \in Callers, NEW r \in Requests, PostLost(p, r) PROVE Grows
  BY <1>17 DEF PostLost, NextEntry, Goto
<1>18. ASSUME NEW p \in Callers, NEW k \in Transitions, TransitionSign(p, k) PROVE Grows
  BY <1>18 DEF TransitionSign, Goto
<1>19. CASE UNCHANGED vars
  BY <1>19 DEF vars, files
<1> QED
  BY <1>1, <1>2, <1>3, <1>4, <1>5, <1>6, <1>7, <1>8, <1>9, <1>10, <1>11,
     <1>12, <1>13, <1>14, <1>15, <1>16, <1>17, <1>18, <1>19, <1>20, <1>21, <1>22 DEF Next

LEMMA AppliedStays ==
    ASSUME Grows, NEW r \in Requests, Applied(r)
    PROVE  Applied(r)'
BY DEF Grows, Applied

LEMMA PendingStays ==
    ASSUME TypeOK, Grows
    PROVE  queued \ Pending \subseteq (queued \ Pending)'
BY DEF TypeOK, Grows, Pending, Retired

LEMMA EntriesStep ==
    ASSUME IInv, TypeOK', Grows, [Next]_vars
    PROVE  EntriesSound'
<1>0. \A r \in Requests : Applied(r) => Applied(r)'
  BY AppliedStays
<1> USE <1>0, DeliveryConstants DEF IInv, TypeOK, EntriesSound, Grows, Retired
<1>1. ASSUME NEW r \in Requests, QueueCall(r) PROVE EntriesSound'
  BY <1>1 DEF QueueCall, Queue
<1>2. ASSUME NEW r \in Requests, NEW s \in Requests, Retire(r, s) PROVE EntriesSound'
  BY <1>2 DEF Retire, MayRetire, Retired
<1>3. ASSUME NEW p \in Callers, PublishQueue(p) PROVE EntriesSound'
  BY <1>3 DEF PublishQueue, Queue, Done, Goto, Evidence
<1>4. ASSUME NEW p \in Callers, ReadFences(p) PROVE EntriesSound'
  BY <1>4 DEF ReadFences, files, Evidence, Goto
<1>20. ASSUME NEW p \in Callers, ReadPending(p) PROVE EntriesSound'
  BY <1>20 DEF ReadPending, files, Evidence, Goto
<1>21. ASSUME NEW p \in Callers, FencedOff(p) PROVE EntriesSound'
  BY <1>21 DEF FencedOff, files, Done, Goto
<1>22. ASSUME NEW p \in Callers, Disconnect(p) PROVE EntriesSound'
  BY <1>22 DEF Disconnect, files, Goto
<1>5. ASSUME NEW p \in Callers, Snapshot(p) PROVE EntriesSound'
  BY <1>5 DEF Snapshot, files, Goto
<1>6. ASSUME NEW p \in Callers, Store(p) PROVE EntriesSound'
  BY <1>6 DEF Store, At
<1>7. ASSUME NEW p \in Callers, Follow(p) PROVE EntriesSound'
  BY <1>7 DEF Follow, At, Queue
<1>8. ASSUME NEW p \in Callers, Ack(p) PROVE EntriesSound'
  <2>1. cur[p] \in queued /\ Applied(cur[p])
    BY <1>8 DEF Ack, CallsSound, Progress, Posting
  <2> QED BY <1>8, <2>1 DEF Ack
<1>9. ASSUME NEW p \in Callers, SyncEnd(p) PROVE EntriesSound'
  BY <1>9 DEF SyncEnd, files, Done, Goto
<1>10. ASSUME NEW p \in Callers, DisconnectRead(p) PROVE EntriesSound'
  BY <1>10 DEF DisconnectRead, files, Goto
<1>11. ASSUME NEW p \in Callers, DisconnectWrite(p) PROVE EntriesSound'
  <2>1. todo[p] \subseteq queued /\ gen[p] \in Endpoints
    BY <1>11 DEF DisconnectWrite, CallsSound, Progress, Named
  <2> QED BY <1>11, <2>1 DEF DisconnectWrite
<1>12. ASSUME NEW p \in Callers, TransitionWrite(p) PROVE EntriesSound'
  BY <1>12 DEF TransitionWrite, Done, Goto
<1>13. ASSUME NEW p \in Callers, Crash(p) PROVE EntriesSound'
  BY <1>13 DEF Crash, Done, Goto, files
<1>14. ASSUME NEW p \in Callers, NEW r \in Evidence \cup {NoRequest}, Load(p, r) PROVE EntriesSound'
  BY <1>14 DEF Load, files, Evidence, Goto
<1>15. ASSUME NEW p \in Callers, NEW r \in Requests, Post(p, r) PROVE EntriesSound'
  BY <1>15 DEF Post, Goto
<1>16. ASSUME NEW p \in Callers, NEW r \in Requests, PostRefused(p, r) PROVE EntriesSound'
  BY <1>16 DEF PostRefused, files, NextEntry, Goto
<1>17. ASSUME NEW p \in Callers, NEW r \in Requests, PostLost(p, r) PROVE EntriesSound'
  BY <1>17 DEF PostLost, NextEntry, Goto
<1>18. ASSUME NEW p \in Callers, NEW k \in Transitions, TransitionSign(p, k) PROVE EntriesSound'
  BY <1>18 DEF TransitionSign, Goto
<1>19. CASE UNCHANGED vars
  BY <1>19 DEF vars, files
<1> QED
  BY <1>1, <1>2, <1>3, <1>4, <1>5, <1>6, <1>7, <1>8, <1>9, <1>10, <1>11,
     <1>12, <1>13, <1>14, <1>15, <1>16, <1>17, <1>18, <1>19, <1>20, <1>21, <1>22 DEF Next

\* A call that a step leaves where it is stays sound.
LEMMA CallKept ==
    ASSUME IInv, TypeOK', Grows, NEW q \in Callers,
           pc'[q] = pc[q], gen'[q] = gen[q], todo'[q] = todo[q], cur'[q] = cur[q],
           barred'[q] = barred[q]
    PROVE  Named(q)' /\ Progress(q)' /\ Barred(q)'
<1>1. queued \ Pending \subseteq (queued \ Pending)'
  BY PendingStays DEF IInv
<1>2. Named(q)' /\ Barred(q)'
  BY <1>1 DEF IInv, CallsSound, Named, Barred, Posting, Grows
<1>3. cur[q] \in Requests /\ Applied(cur[q]) => Applied(cur[q])'
  BY AppliedStays
<1>4. Progress(q)'
  BY <1>3 DEF IInv, TypeOK, CallsSound, Progress, Posting, Grows, Applied
<1> QED BY <1>2, <1>4

LEMMA CallsStep ==
    ASSUME IInv, TypeOK', Grows, [Next]_vars
    PROVE  \A q \in Callers : Named(q)' /\ Progress(q)' /\ Barred(q)'
<1> DEFINE Good(q) == Named(q)' /\ Progress(q)' /\ Barred(q)'
<1>a. queued \ Pending \subseteq (queued \ Pending)'
  BY PendingStays DEF IInv
<1>b. Pending \subseteq queued
  BY DEF Pending
<1>1. ASSUME NEW r \in Requests, QueueCall(r) PROVE \A q \in Callers : Good(q)
  BY <1>1, CallKept DEF QueueCall
<1>2. ASSUME NEW r \in Requests, NEW s \in Requests, Retire(r, s) PROVE \A q \in Callers : Good(q)
  BY <1>2, CallKept DEF Retire
<1>3. ASSUME NEW p \in Callers, PublishQueue(p) PROVE \A q \in Callers : Good(q)
  <2>1. \A q \in Callers \ {p} : Good(q)
    BY <1>3, CallKept DEF PublishQueue, Done, Goto, IInv, TypeOK
  <2>2. Good(p)
    BY <1>3, <1>a DEF PublishQueue, Queue, Done, Goto, IInv, TypeOK, CallsSound,
       Named, Progress, Barred, Posting, Applied
  <2> QED BY <2>1, <2>2
<1>4. ASSUME NEW p \in Callers, ReadFences(p) PROVE \A q \in Callers : Good(q)
  <2>1. \A q \in Callers \ {p} : Good(q)
    BY <1>4, CallKept DEF ReadFences, Goto, Available, IInv, TypeOK
  <2>3. Named(p)'
    BY <1>4, DeliveryConstants DEF ReadFences, Goto, Available, files, Evidence, IInv, TypeOK, CallsSound, Named, Posting
  <2>4. Progress(p)'
    BY <1>4, <1>b DEF ReadFences, Goto, Available, files, IInv, TypeOK, CallsSound, Progress, Posting, Applied
  <2>5. Barred(p)'
    BY <1>4, <1>a DEF ReadFences, Goto, Available, files, IInv, TypeOK, EntriesSound, CallsSound, Barred, Posting
  <2>2. Good(p)
    BY <2>3, <2>4, <2>5
  <2> QED BY <2>1, <2>2
<1>20. ASSUME NEW p \in Callers, ReadPending(p) PROVE \A q \in Callers : Good(q)
  <2>1. \A q \in Callers \ {p} : Good(q)
    BY <1>20, CallKept DEF ReadPending, Goto, IInv, TypeOK
  <2>3. Named(p)'
    BY <1>20, DeliveryConstants DEF ReadPending, Goto, files, Evidence, IInv, TypeOK, CallsSound, Named, Posting
  <2>4. Progress(p)'
    BY <1>20, <1>b DEF ReadPending, Goto, files, IInv, TypeOK, CallsSound, Progress, Posting, Applied
  <2>5. Barred(p)'
    BY <1>20, <1>a DEF ReadPending, Goto, files, IInv, TypeOK, EntriesSound, CallsSound, Barred, Posting
  <2>2. Good(p)
    BY <2>3, <2>4, <2>5
  <2> QED BY <2>1, <2>2
<1>21. ASSUME NEW p \in Callers, FencedOff(p) PROVE \A q \in Callers : Good(q)
  <2>1. \A q \in Callers \ {p} : Good(q)
    BY <1>21, CallKept DEF FencedOff, Done, Goto, IInv, TypeOK
  <2>3. Named(p)'
    BY <1>21, DeliveryConstants DEF FencedOff, Done, Goto, files, Evidence, IInv, TypeOK, CallsSound, Named, Posting
  <2>4. Progress(p)'
    BY <1>21, <1>b DEF FencedOff, Done, Goto, files, IInv, TypeOK, CallsSound, Progress, Posting, Applied
  <2>5. Barred(p)'
    BY <1>21, <1>a DEF FencedOff, Done, Goto, files, IInv, TypeOK, EntriesSound, CallsSound, Barred, Posting
  <2>2. Good(p)
    BY <2>3, <2>4, <2>5
  <2> QED BY <2>1, <2>2
<1>22. ASSUME NEW p \in Callers, Disconnect(p) PROVE \A q \in Callers : Good(q)
  <2>1. \A q \in Callers \ {p} : Good(q)
    BY <1>22, CallKept DEF Disconnect, Goto, IInv, TypeOK
  <2>3. Named(p)'
    BY <1>22, DeliveryConstants DEF Disconnect, Goto, files, Evidence, IInv, TypeOK, CallsSound, Named, Posting
  <2>4. Progress(p)'
    BY <1>22, <1>b DEF Disconnect, Goto, files, IInv, TypeOK, CallsSound, Progress, Posting, Applied
  <2>5. Barred(p)'
    BY <1>22, <1>a DEF Disconnect, Goto, files, IInv, TypeOK, EntriesSound, CallsSound, Barred, Posting
  <2>2. Good(p)
    BY <2>3, <2>4, <2>5
  <2> QED BY <2>1, <2>2
<1>5. ASSUME NEW p \in Callers, Snapshot(p) PROVE \A q \in Callers : Good(q)
  <2>1. \A q \in Callers \ {p} : Good(q)
    BY <1>5, CallKept DEF Snapshot, Goto, IInv, TypeOK
  <2>3. Named(p)'
    BY <1>5, DeliveryConstants DEF Snapshot, Goto, files, Pending, IInv, TypeOK, CallsSound, Named, Posting
  <2>4. Progress(p)'
    BY <1>5, <1>b DEF Snapshot, Goto, files, IInv, TypeOK, CallsSound, Progress, Posting, Applied
  <2>5. Barred(p)'
    BY <1>5, <1>a DEF Snapshot, Goto, files, IInv, TypeOK, CallsSound, Barred, Posting
  <2>2. Good(p)
    BY <2>3, <2>4, <2>5
  <2> QED BY <2>1, <2>2
<1>6. ASSUME NEW p \in Callers, Store(p) PROVE \A q \in Callers : Good(q)
  <2>1. \A q \in Callers \ {p} : Good(q)
    BY <1>6, CallKept DEF Store, At, IInv, TypeOK
  <2>3. Named(p)'
    BY <1>6, DeliveryConstants DEF Store, At, IInv, TypeOK, CallsSound, Named, Posting
  <2>4. Progress(p)'
    BY <1>6, <1>b DEF Store, At, IInv, TypeOK, CallsSound, Progress, Posting, Applied
  <2>5. Barred(p)'
    BY <1>6, <1>a DEF Store, At, IInv, TypeOK, CallsSound, Barred, Posting
  <2>2. Good(p)
    BY <2>3, <2>4, <2>5
  <2> QED BY <2>1, <2>2
<1>7. ASSUME NEW p \in Callers, Follow(p) PROVE \A q \in Callers : Good(q)
  <2>1. \A q \in Callers \ {p} : Good(q)
    BY <1>7, CallKept DEF Follow, At, IInv, TypeOK
  <2>3. Named(p)'
    BY <1>7, DeliveryConstants DEF Follow, At, Queue, IInv, TypeOK, CallsSound, Named, Posting
  <2>4. Progress(p)'
    BY <1>7, <1>b DEF Follow, At, Queue, IInv, TypeOK, CallsSound, Progress, Posting, Applied
  <2>5. Barred(p)'
    BY <1>7, <1>a DEF Follow, At, Queue, IInv, TypeOK, CallsSound, Barred, Posting
  <2>2. Good(p)
    BY <2>3, <2>4, <2>5
  <2> QED BY <2>1, <2>2
<1>8. ASSUME NEW p \in Callers, Ack(p) PROVE \A q \in Callers : Good(q)
  <2>1. \A q \in Callers \ {p} : Good(q)
    BY <1>8, CallKept DEF Ack, NextEntry, Goto, IInv, TypeOK
  <2>3. Named(p)'
    BY <1>8, DeliveryConstants DEF Ack, NextEntry, Goto, IInv, TypeOK, CallsSound, Named, Posting
  <2>4. Progress(p)'
    BY <1>8, <1>b DEF Ack, NextEntry, Goto, IInv, TypeOK, CallsSound, Progress, Posting, Applied
  <2>5. Barred(p)'
    BY <1>8, <1>a DEF Ack, NextEntry, Goto, IInv, TypeOK, CallsSound, Barred, Posting
  <2>2. Good(p)
    BY <2>3, <2>4, <2>5
  <2> QED BY <2>1, <2>2
<1>9. ASSUME NEW p \in Callers, SyncEnd(p) PROVE \A q \in Callers : Good(q)
  <2>1. \A q \in Callers \ {p} : Good(q)
    BY <1>9, CallKept DEF SyncEnd, Done, Goto, IInv, TypeOK
  <2>2. Good(p)
    BY <1>9, <1>a DEF SyncEnd, files, Done, Goto, IInv, TypeOK, CallsSound,
       Named, Progress, Barred, Posting, Applied
  <2> QED BY <2>1, <2>2
<1>10. ASSUME NEW p \in Callers, DisconnectRead(p) PROVE \A q \in Callers : Good(q)
  <2>1. \A q \in Callers \ {p} : Good(q)
    BY <1>10, CallKept DEF DisconnectRead, Goto, IInv, TypeOK
  <2>3. Named(p)'
    BY <1>10, DeliveryConstants DEF DisconnectRead, Goto, files, IInv, TypeOK, CallsSound, Named, Posting
  <2>4. Progress(p)'
    BY <1>10, <1>b DEF DisconnectRead, Goto, files, IInv, TypeOK, CallsSound, Progress, Posting, Applied
  <2>5. Barred(p)'
    BY <1>10, <1>a DEF DisconnectRead, Goto, files, IInv, TypeOK, CallsSound, Barred, Posting
  <2>2. Good(p)
    BY <2>3, <2>4, <2>5
  <2> QED BY <2>1, <2>2
<1>11. ASSUME NEW p \in Callers, DisconnectWrite(p) PROVE \A q \in Callers : Good(q)
  <2>1. \A q \in Callers \ {p} : Good(q)
    BY <1>11, CallKept DEF DisconnectWrite, Done, Goto, IInv, TypeOK
  <2>2. Good(p)
    BY <1>11, <1>a DEF DisconnectWrite, Done, Goto, IInv, TypeOK, CallsSound,
       Named, Progress, Barred, Posting, Applied
  <2> QED BY <2>1, <2>2
<1>12. ASSUME NEW p \in Callers, TransitionWrite(p) PROVE \A q \in Callers : Good(q)
  <2>1. \A q \in Callers \ {p} : Good(q)
    BY <1>12, CallKept DEF TransitionWrite, Done, Goto, IInv, TypeOK
  <2>2. Good(p)
    BY <1>12, <1>a DEF TransitionWrite, Done, Goto, IInv, TypeOK, CallsSound,
       Named, Progress, Barred, Posting, Applied
  <2> QED BY <2>1, <2>2
<1>13. ASSUME NEW p \in Callers, Crash(p) PROVE \A q \in Callers : Good(q)
  <2>1. \A q \in Callers \ {p} : Good(q)
    BY <1>13, CallKept DEF Crash, Done, Goto, IInv, TypeOK
  <2>2. Good(p)
    BY <1>13, <1>a DEF Crash, Done, Goto, files, IInv, TypeOK, CallsSound,
       Named, Progress, Barred, Posting, Applied
  <2> QED BY <2>1, <2>2
<1>14. ASSUME NEW p \in Callers, NEW r \in Evidence \cup {NoRequest}, Load(p, r) PROVE \A q \in Callers : Good(q)
  <2>1. \A q \in Callers \ {p} : Good(q)
    BY <1>14, CallKept DEF Load, Goto, IInv, TypeOK
  <2>3. Named(p)'
    BY <1>14, DeliveryConstants DEF Load, Goto, files, Evidence, IInv, TypeOK, CallsSound, Named, Posting
  <2>4. Progress(p)'
    BY <1>14, <1>b DEF Load, Goto, files, IInv, TypeOK, CallsSound, Progress, Posting, Applied
  <2>5. Barred(p)'
    BY <1>14, <1>a DEF Load, Goto, files, IInv, TypeOK, EntriesSound, CallsSound, Barred, Posting
  <2>2. Good(p)
    BY <2>3, <2>4, <2>5
  <2> QED BY <2>1, <2>2
<1>15. ASSUME NEW p \in Callers, NEW r \in Requests, Post(p, r) PROVE \A q \in Callers : Good(q)
  <2>1. \A q \in Callers \ {p} : Good(q)
    BY <1>15, CallKept DEF Post, Goto, IInv, TypeOK
  <2>3. Named(p)'
    BY <1>15, DeliveryConstants DEF Post, Goto, IInv, TypeOK, CallsSound, Named, Posting
  <2>4. Progress(p)'
    BY <1>15, <1>b DEF Post, Goto, IInv, TypeOK, CallsSound, Progress, Posting, Applied
  <2>5. Barred(p)'
    BY <1>15, <1>a DEF Post, Goto, IInv, TypeOK, CallsSound, Barred, Posting
  <2>2. Good(p)
    BY <2>3, <2>4, <2>5
  <2> QED BY <2>1, <2>2
<1>16. ASSUME NEW p \in Callers, NEW r \in Requests, PostRefused(p, r) PROVE \A q \in Callers : Good(q)
  <2>1. \A q \in Callers \ {p} : Good(q)
    BY <1>16, CallKept DEF PostRefused, NextEntry, Goto, IInv, TypeOK
  <2>3. Named(p)'
    BY <1>16, DeliveryConstants DEF PostRefused, NextEntry, Goto, files, IInv, TypeOK, CallsSound, Named, Posting
  <2>4. Progress(p)'
    BY <1>16, <1>b DEF PostRefused, NextEntry, Goto, files, IInv, TypeOK, CallsSound, Progress, Posting, Applied
  <2>5. Barred(p)'
    BY <1>16, <1>a DEF PostRefused, NextEntry, Goto, files, IInv, TypeOK, CallsSound, Barred, Posting
  <2>2. Good(p)
    BY <2>3, <2>4, <2>5
  <2> QED BY <2>1, <2>2
<1>17. ASSUME NEW p \in Callers, NEW r \in Requests, PostLost(p, r) PROVE \A q \in Callers : Good(q)
  <2>1. \A q \in Callers \ {p} : Good(q)
    BY <1>17, CallKept DEF PostLost, NextEntry, Goto, IInv, TypeOK
  <2>3. Named(p)'
    BY <1>17, DeliveryConstants DEF PostLost, NextEntry, Goto, IInv, TypeOK, CallsSound, Named, Posting
  <2>4. Progress(p)'
    BY <1>17, <1>b DEF PostLost, NextEntry, Goto, IInv, TypeOK, CallsSound, Progress, Posting, Applied
  <2>5. Barred(p)'
    BY <1>17, <1>a DEF PostLost, NextEntry, Goto, IInv, TypeOK, CallsSound, Barred, Posting
  <2>2. Good(p)
    BY <2>3, <2>4, <2>5
  <2> QED BY <2>1, <2>2
<1>18. ASSUME NEW p \in Callers, NEW k \in Transitions, TransitionSign(p, k) PROVE \A q \in Callers : Good(q)
  <2>1. \A q \in Callers \ {p} : Good(q)
    BY <1>18, CallKept DEF TransitionSign, Goto, IInv, TypeOK
  <2>3. Named(p)'
    BY <1>18, DeliveryConstants DEF TransitionSign, Goto, IInv, TypeOK, CallsSound, Named, Posting
  <2>4. Progress(p)'
    BY <1>18, <1>b DEF TransitionSign, Goto, IInv, TypeOK, CallsSound, Progress, Posting, Applied
  <2>5. Barred(p)'
    BY <1>18, <1>a DEF TransitionSign, Goto, IInv, TypeOK, CallsSound, Barred, Posting
  <2>2. Good(p)
    BY <2>3, <2>4, <2>5
  <2> QED BY <2>1, <2>2
<1>19. CASE UNCHANGED vars
  BY <1>19, CallKept DEF vars
<1> QED
  BY <1>1, <1>2, <1>3, <1>4, <1>5, <1>6, <1>7, <1>8, <1>9,
     <1>10, <1>11, <1>12, <1>13, <1>14, <1>15, <1>16, <1>17, <1>18, <1>19, <1>20, <1>21, <1>22 DEF Next

LEMMA SignedStep ==
    ASSUME TypeOK, CallsSound, [Next]_vars
    PROVE  \A q \in Callers : Signed(q)'
<1> USE DEF TypeOK, CallsSound, Signed
<1>1. ASSUME NEW r \in Requests, QueueCall(r) PROVE \A q \in Callers : Signed(q)'
  BY <1>1 DEF QueueCall, Queue
<1>2. ASSUME NEW r \in Requests, NEW s \in Requests, Retire(r, s) PROVE \A q \in Callers : Signed(q)'
  BY <1>2 DEF Retire, MayRetire, Retired
<1>3. ASSUME NEW p \in Callers, PublishQueue(p) PROVE \A q \in Callers : Signed(q)'
  BY <1>3 DEF PublishQueue, Queue, Done, Goto, Evidence
<1>4. ASSUME NEW p \in Callers, ReadFences(p) PROVE \A q \in Callers : Signed(q)'
  BY <1>4 DEF ReadFences, files, Evidence, Goto
<1>20. ASSUME NEW p \in Callers, ReadPending(p) PROVE \A q \in Callers : Signed(q)'
  BY <1>20 DEF ReadPending, files, Evidence, Goto
<1>21. ASSUME NEW p \in Callers, FencedOff(p) PROVE \A q \in Callers : Signed(q)'
  BY <1>21 DEF FencedOff, files, Done, Goto
<1>22. ASSUME NEW p \in Callers, Disconnect(p) PROVE \A q \in Callers : Signed(q)'
  BY <1>22 DEF Disconnect, files, Goto
<1>5. ASSUME NEW p \in Callers, Snapshot(p) PROVE \A q \in Callers : Signed(q)'
  BY <1>5 DEF Snapshot, files, Goto
<1>6. ASSUME NEW p \in Callers, Store(p) PROVE \A q \in Callers : Signed(q)'
  BY <1>6 DEF Store, At
<1>7. ASSUME NEW p \in Callers, Follow(p) PROVE \A q \in Callers : Signed(q)'
  BY <1>7 DEF Follow, At, Queue
<1>8. ASSUME NEW p \in Callers, Ack(p) PROVE \A q \in Callers : Signed(q)'
  BY <1>8 DEF Ack, NextEntry, Goto
<1>9. ASSUME NEW p \in Callers, SyncEnd(p) PROVE \A q \in Callers : Signed(q)'
  BY <1>9 DEF SyncEnd, files, Done, Goto
<1>10. ASSUME NEW p \in Callers, DisconnectRead(p) PROVE \A q \in Callers : Signed(q)'
  BY <1>10 DEF DisconnectRead, files, Goto
<1>11. ASSUME NEW p \in Callers, DisconnectWrite(p) PROVE \A q \in Callers : Signed(q)'
  BY <1>11 DEF DisconnectWrite, Done, Goto
<1>12. ASSUME NEW p \in Callers, TransitionWrite(p) PROVE \A q \in Callers : Signed(q)'
  BY <1>12 DEF TransitionWrite, Done, Goto
<1>13. ASSUME NEW p \in Callers, Crash(p) PROVE \A q \in Callers : Signed(q)'
  BY <1>13 DEF Crash, Done, Goto, files
<1>14. ASSUME NEW p \in Callers, NEW r \in Evidence \cup {NoRequest}, Load(p, r) PROVE \A q \in Callers : Signed(q)'
  BY <1>14 DEF Load, files, Evidence, Goto
<1>15. ASSUME NEW p \in Callers, NEW r \in Requests, Post(p, r) PROVE \A q \in Callers : Signed(q)'
  BY <1>15 DEF Post, Goto
<1>16. ASSUME NEW p \in Callers, NEW r \in Requests, PostRefused(p, r) PROVE \A q \in Callers : Signed(q)'
  BY <1>16 DEF PostRefused, files, NextEntry, Goto
<1>17. ASSUME NEW p \in Callers, NEW r \in Requests, PostLost(p, r) PROVE \A q \in Callers : Signed(q)'
  BY <1>17 DEF PostLost, NextEntry, Goto
<1>18. ASSUME NEW p \in Callers, NEW k \in Transitions, TransitionSign(p, k) PROVE \A q \in Callers : Signed(q)'
  BY <1>18 DEF TransitionSign, Goto
<1>19. CASE UNCHANGED vars
  BY <1>19 DEF vars, files
<1> QED
  BY <1>1, <1>2, <1>3, <1>4, <1>5, <1>6, <1>7, <1>8, <1>9, <1>10, <1>11,
     <1>12, <1>13, <1>14, <1>15, <1>16, <1>17, <1>18, <1>19, <1>20, <1>21, <1>22 DEF Next

----------------------------------------------------------------------------

LEMMA Inductive == Spec => []IInv
<1>1. IInv /\ [Next]_vars => IInv'
  BY TypeStep, Growing, EntriesStep, CallsStep, SignedStep DEF IInv, CallsSound
<1> QED BY Initially, <1>1, PTL DEF Spec

\* The outbox and the calls keep their types.
THEOREM TypeCorrect == Spec => []TypeOK
BY Inductive, PTL DEF IInv

\* Whatever callers crash and in whatever order they sync and retire, a
\* request leaves the pending ones only with its effect, or its replacement's.
THEOREM Lossless == Spec => []NothingLost
<1>1. IInv => NothingLost
  BY DEF IInv, TypeOK, EntriesSound, NothingLost, Pending, Retired
<1> QED BY Inductive, <1>1, PTL

\* No sync posts an entry that was there when it read what is pending and that
\* it then found in a fence.
THEOREM Fenced == Spec => []FencesHold
<1>1. IInv => FencesHold
  BY DEF IInv, CallsSound, Barred, FencesHold
<1> QED BY Inductive, <1>1, PTL

\* The endpoint moves along signed transitions only.
THEOREM Endpoint == Spec => EndpointSigned
<1> DEFINE Move == url' # url => \E k \in moved : From[k] = url /\ To[k] = url'
<1>1. IInv /\ [Next]_vars => [Move]_vars
  <2> SUFFICES ASSUME IInv, [Next]_vars, url' # url PROVE Move
    OBVIOUS
  <2>1. PICK p \in Callers : TransitionWrite(p)
    BY DEF Next, vars, files, QueueCall, Retire, PublishQueue, Load, ReadPending,
       ReadFences, FencedOff, Snapshot, Store,
       Follow, Ack, SyncEnd, Disconnect, DisconnectRead, DisconnectWrite, Crash, Post,
       PostRefused, PostLost, TransitionSign
  <2> QED BY <2>1 DEF TransitionWrite, IInv, CallsSound, Signed
<1> QED BY <1>1, Inductive, PTL DEF Spec, EndpointSigned

----------------------------------------------------------------------------
(* The refinement of OutboxPromise *)

\* What has had its effects is fulfilled.
LEMMA AppliedFulfilled ==
    ASSUME TypeOK, NEW r \in Requests, Applied(r)
    PROVE  Promise!Fulfilled(r)
BY DEF Applied, Promise!Fulfilled, Followers, Effective, Evidence

\* Putting a request into the outbox is a step of the promise, or none.
LEMMA QueueIsPut ==
    ASSUME NEW r \in Requests, Queue(r), UNCHANGED <<acked, retired, bound, accepted>>
    PROVE  Promise!Next
BY DEF Queue, Promise!Next, Promise!Put, Effective, Retired

\* Each step of the delivery is one of the promise, or none.
LEMMA PromiseStep ==
    ASSUME IInv, [Next]_vars
    PROVE  Promise!Next \/ UNCHANGED Promise!vars
<1> DEFINE Good == Promise!Next \/ UNCHANGED Promise!vars
           Settled == acked \cup {r \in Requests : Retired(r)}
<1>0. TypeOK /\ EntriesSound /\ \A p \in Callers : Named(p) /\ Progress(p)
  BY DEF IInv, CallsSound
<1>1. CASE UNCHANGED <<queued, acked, retired, bound, accepted>>
  BY <1>1 DEF Promise!vars, Effective, Retired
<1>2. ASSUME NEW r \in Requests, QueueCall(r) PROVE Good
  BY <1>2, QueueIsPut DEF QueueCall
<1>3. ASSUME NEW p \in Callers, PublishQueue(p) PROVE Good
  BY <1>0, <1>3, QueueIsPut DEF PublishQueue, Named, Evidence
<1>4. ASSUME NEW p \in Callers, Follow(p) PROVE Good
  <2>1. SourceOf[cur[p]] \in Requests
    BY <1>0, <1>4, DeliveryConstants DEF Follow, Progress, Posting, TypeOK
  <2> QED BY <1>4, <2>1, QueueIsPut DEF Follow
<1>5. ASSUME NEW r \in Requests, r \in queued, UNCHANGED <<queued, acked, retired>>,
             Effective' = Effective \cup {r}
      PROVE  Good
  BY <1>5 DEF Promise!Next, Promise!Work, Retired
<1>6. ASSUME NEW p \in Callers, NEW r \in Requests, Post(p, r) \/ PostLost(p, r) PROVE Good
  <2>1. /\ r \in queued /\ UNCHANGED <<queued, acked, retired, bound>>
        /\ accepted' = accepted \/ accepted' = accepted \cup {r}
    BY <1>0, <1>6 DEF Post, PostLost, Progress, Posting
  <2>2. Effective' = Effective \/ Effective' = Effective \cup {r}
    BY <2>1 DEF Effective, Evidence
  <2> QED BY <1>5, <2>1, <2>2 DEF Promise!vars, Retired
<1>7. ASSUME NEW p \in Callers, Store(p) PROVE Good
  <2>1. /\ cur[p] \in queued /\ cur[p] \in Requests
        /\ UNCHANGED <<queued, acked, retired, accepted>> /\ bound' = bound \cup {cur[p]}
    BY <1>0, <1>7 DEF Store, Progress, Posting, TypeOK
  <2> QED BY <1>5, <2>1 DEF Effective
<1>8. ASSUME NEW p \in Callers, Ack(p) PROVE Good
  <2>1. /\ cur[p] \in queued /\ cur[p] \in Requests /\ Applied(cur[p])
        /\ UNCHANGED <<queued, retired, bound, accepted>> /\ acked' = acked \cup {cur[p]}
    BY <1>0, <1>8 DEF Ack, Progress, Posting, TypeOK
  <2>2. Promise!Fulfilled(cur[p])
    BY <1>0, <2>1, AppliedFulfilled
  <2> QED BY <2>1, <2>2 DEF Promise!Next, Promise!Settle, Effective, Retired
<1>9. ASSUME NEW r \in Requests, NEW s \in Requests, Retire(r, s) PROVE Good
  <2>1. /\ r \in queued /\ s \in acked /\ s # r /\ Kind[s] = Kind[r] /\ s \in Requests
        /\ retired' = [retired EXCEPT ![r] = s] /\ s # NoRequest
        /\ UNCHANGED <<queued, acked, bound, accepted>>
    BY <1>9, DeliveryConstants DEF Retire, MayRetire
  <2>2. Promise!StandsIn(s, r)
    <3>1. Promise!Fulfilled(s)
      BY <1>0, <2>1, AppliedFulfilled DEF EntriesSound
    <3> QED BY <2>1, <3>1 DEF Promise!StandsIn
  <2>3. Settled' = Settled \cup {r}
    BY <1>0, <2>1 DEF TypeOK, Retired
  <2> QED BY <2>1, <2>2, <2>3 DEF Promise!Next, Promise!Settle, Effective
<1> QED
  <2>1. CASE UNCHANGED vars
    BY <1>1, <2>1 DEF vars, files
  <2>2. ASSUME NEW p \in Callers,
               \/ ReadPending(p) \/ ReadFences(p) \/ FencedOff(p)
               \/ Snapshot(p) \/ SyncEnd(p) \/ Disconnect(p) \/ DisconnectRead(p)
               \/ DisconnectWrite(p) \/ TransitionWrite(p) \/ Crash(p)
               \/ \E r \in Evidence \cup {NoRequest} : Load(p, r)
               \/ \E r \in Requests : PostRefused(p, r)
               \/ \E k \in Transitions : TransitionSign(p, k)
        PROVE  Good
    BY <1>1, <2>2 DEF ReadPending, ReadFences, FencedOff, Load, Snapshot, SyncEnd,
       Disconnect, DisconnectRead, DisconnectWrite, TransitionWrite, Crash, PostRefused,
       TransitionSign, files
  <2> QED BY <1>2, <1>3, <1>4, <1>6, <1>7, <1>8, <1>9, <2>1, <2>2 DEF Next

\* The outbox of governed work implements the promise of OutboxPromise, for any
\* number of callers, requests and faults.
THEOREM PromiseRefined == Spec => PromiseKept
<1>1. Init => Promise!Init
  BY DEF Init, Promise!Init, Effective, Retired
<1>2. IInv /\ [Next]_vars => [Promise!Next]_(Promise!vars)
  BY PromiseStep
<1> QED BY <1>1, <1>2, Inductive, PTL DEF Spec, PromiseKept, Promise!Spec

=============================================================================
