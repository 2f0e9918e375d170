---------------------------- MODULE WorkDelivery ----------------------------
(***************************************************************************)
(* The governed-work outbox (src/apatch/governed_work_delivery.py) and the *)
(* calls that work on it (src/apatch/governed_work_mcp.py).  Requests for  *)
(* the Platform are queued as files; a sync posts the pending ones and     *)
(* acknowledges each beside its file; a request the Platform refuses may   *)
(* be retired in favour of one it has accepted; a disconnect puts a fence  *)
(* around the connection, and a signed transition moves the connection to  *)
(* another endpoint.  Callers are threads of MCP servers and of terminals; *)
(* nothing but the configuration is locked.                                *)
(*                                                                         *)
(* A document is published by one rename, and a directory is read at one   *)
(* instant; each is one step.  There is one tenant and one project group,  *)
(* so requests are of one scope when they are of one kind.  A connection   *)
(* generation is the hash of the configuration, of which only the endpoint *)
(* ever changes.                                                           *)
(***************************************************************************)
EXTENDS Naturals, FiniteSets

CONSTANTS
    Callers,
    Requests,     \* outbox entries, named by their idempotency keys
    Kind,         \* Kind[r]: "acceptance", "source" or "evidence"
    SourceOf,     \* SourceOf[a]: the source request of an acceptance's change
    Direct,       \* requests that callers queue without asking to publish
    Refused,      \* requests that the Platform rejects
    Endpoints, First,
    Transitions,  \* idempotency keys of endpoint transitions
    From, To,     \* the endpoints that a transition names
    NoRequest, NoEndpoint,
    MaxFaults     \* bound on crashes and on lost calls

Acceptances == {r \in Requests : Kind[r] = "acceptance"}
Evidence    == {r \in Requests : Kind[r] = "evidence"}

ASSUME DeliveryConstants ==
    /\ Kind \in [Requests -> {"acceptance", "source", "evidence"}]
    /\ SourceOf \in [Requests -> Requests]
    /\ \A a \in Acceptances : Kind[SourceOf[a]] = "source"
    /\ Direct \subseteq Requests /\ Refused \subseteq Requests
    /\ First \in Endpoints
    /\ From \in [Transitions -> Endpoints] /\ To \in [Transitions -> Endpoints]
    /\ \A k \in Transitions : From[k] # To[k]
    /\ NoRequest \notin Requests
    /\ NoEndpoint \notin Endpoints
    /\ MaxFaults \in Nat

VARIABLES
    url,       \* platform_url in governed_work.json
    moved,     \* transitions with a signed document
    fences,    \* generations with a sharing fence
    fenced,    \* fenced[g]: the pending entries that the fence of g names
    queued,    \* outbox/<key>.json
    acked,     \* outbox/<key>.ack.json
    retired,   \* the replacement named in outbox/<key>.retired.json
    bound,     \* requests whose binding is stored
    accepted,  \* requests the Platform has applied
    pc,        \* where the call of a caller stands
    gen,       \* the endpoint that call read, or is about to write
    todo,      \* the entries it took for pending
    cur,       \* the entry it is at
    barred,    \* history: entries of the outbox when it read what is pending,
               \* and of these, after that, the ones in a fence it then read
    faults

files == <<url, moved, fences, fenced, queued, acked, retired, bound, accepted>>
vars  == <<files, pc, gen, todo, cur, barred, faults>>

Points == {"idle", "loaded", "read", "publish", "checked", "post", "store", "follow", "ack",
           "leave", "fence", "move"}

----------------------------------------------------------------------------
(* Helpers *)

\* A retirement is active as soon as its marker is there: the
\* acknowledgement of the replacement it names is never taken away.
Retired(r) == retired[r] # NoRequest

Pending == {r \in queued \ acked : ~Retired(r)}

\* Fault: only the fence of the generation it has loaded is looked at.
AvailableNow(p) == gen[p] \notin fences

\* _assert_sharing_available, of what it read before for pending
Available(p) ==
    /\ gen[p] \notin fences
    /\ \A h \in fences : fenced[h] \cap todo[p] = {}

Goto(p, point, g, todos, r, bars) ==
    /\ pc' = [pc EXCEPT ![p] = point]
    /\ gen' = [gen EXCEPT ![p] = g]
    /\ todo' = [todo EXCEPT ![p] = todos]
    /\ cur' = [cur EXCEPT ![p] = r]
    /\ barred' = [barred EXCEPT ![p] = bars]

Done(p) == Goto(p, "idle", NoEndpoint, {}, NoRequest, {})

\* The call goes on with the entry it is at.
At(p, point) ==
    /\ pc' = [pc EXCEPT ![p] = point]
    /\ UNCHANGED <<gen, todo, cur, barred>>

\* The sync is through with an entry, delivered or not.
NextEntry(p, r) == Goto(p, "post", gen[p], todo[p] \ {r}, NoRequest, barred[p])

\* _queue: an entry that is there stays as it is.
Queue(r) == queued' = queued \cup {r}

----------------------------------------------------------------------------
(* Looking at the fences, before a sync and before a publication *)

\* A sync, or the publication of the evidence r, loads the configuration,
Load(p, r) ==
    /\ pc[p] = "idle" /\ r \in Evidence \cup {NoRequest}
    /\ Goto(p, "loaded", url, {}, r, {})
    /\ UNCHANGED <<files, faults>>

\* reads what is pending,
ReadPending(p) ==
    /\ pc[p] = "loaded"
    /\ Goto(p, "read", gen[p], Pending, cur[p], IF cur[p] = NoRequest THEN queued ELSE {})
    /\ UNCHANGED <<files, faults>>

\* and then the fences; no lock holds the three together.  A publication
\* looks twice: the first look could only have refused it earlier.
ReadFences(p) ==
    /\ pc[p] = "read" /\ Available(p)
    /\ IF cur[p] = NoRequest
       THEN Goto(p, "checked", gen[p], {}, NoRequest,
                 barred[p] \cap UNION {fenced[h] : h \in fences})
       ELSE Goto(p, "publish", NoEndpoint, {}, cur[p], {})
    /\ UNCHANGED <<files, faults>>

\* The sharing is disconnected: the call fails.
FencedOff(p) ==
    /\ pc[p] = "read" /\ ~Available(p)
    /\ Done(p)
    /\ UNCHANGED <<files, faults>>

----------------------------------------------------------------------------
(* Queueing *)

\* prepare_change, build_evidence and accept_execution_proposal queue
\* without a look at the fences.
QueueCall(r) ==
    /\ r \in Direct \ queued
    /\ Queue(r)
    /\ UNCHANGED <<url, moved, fences, fenced, acked, retired, bound, accepted,
                   pc, gen, todo, cur, barred, faults>>

\* publish_governed_evidence queues the evidence.
PublishQueue(p) ==
    /\ pc[p] = "publish"
    /\ Queue(cur[p])
    /\ Done(p)
    /\ UNCHANGED <<url, moved, fences, fenced, acked, retired, bound, accepted, faults>>

----------------------------------------------------------------------------
(* Sync *)

\* and a sync takes a list of its own of what is pending.
Snapshot(p) ==
    /\ pc[p] = "checked"
    /\ Goto(p, "post", gen[p], Pending, NoRequest, barred[p])
    /\ UNCHANGED <<files, faults>>

\* The Platform applies a request once for its idempotency key and answers
\* every repetition as it answered the first.
Post(p, r) ==
    /\ pc[p] = "post" /\ r \in todo[p] \ Refused
    /\ accepted' = accepted \cup {r}
    /\ Goto(p, IF Kind[r] = "evidence" THEN "ack" ELSE "store", gen[p], todo[p], r, barred[p])
    /\ UNCHANGED <<url, moved, fences, fenced, queued, acked, retired, bound, faults>>

\* PLATFORM_REJECTED: the sync goes on with the next entry.
PostRefused(p, r) ==
    /\ pc[p] = "post" /\ r \in todo[p] \cap Refused
    /\ NextEntry(p, r)
    /\ UNCHANGED <<files, faults>>

\* DELIVERY_FAILED: the connection breaks before the request or before its
\* answer arrives.
PostLost(p, r) ==
    /\ pc[p] = "post" /\ r \in todo[p] /\ faults < MaxFaults
    /\ accepted' \in {accepted, accepted \cup ({r} \ Refused)}
    /\ NextEntry(p, r)
    /\ faults' = faults + 1
    /\ UNCHANGED <<url, moved, fences, fenced, queued, acked, retired, bound>>

\* Fault: an acceptance is acknowledged before its source request is queued.
StoreLeapt(p) ==
    /\ pc[p] = "store"
    /\ bound' = bound \cup {cur[p]}
    /\ At(p, "ack")
    /\ UNCHANGED <<url, moved, fences, fenced, queued, acked, retired, accepted, faults>>

\* _ack_source_binding and _ack_work_item_acceptance store the binding that
\* the Platform answered,
Store(p) ==
    /\ pc[p] = "store"
    /\ bound' = bound \cup {cur[p]}
    /\ At(p, IF Kind[cur[p]] = "acceptance" THEN "follow" ELSE "ack")
    /\ UNCHANGED <<url, moved, fences, fenced, queued, acked, retired, accepted, faults>>

\* and the latter queues the source request of the accepted change.
Follow(p) ==
    /\ pc[p] = "follow"
    /\ Queue(SourceOf[cur[p]])
    /\ At(p, "ack")
    /\ UNCHANGED <<url, moved, fences, fenced, acked, retired, bound, accepted, faults>>

\* The acknowledgement is written whatever became of the entry since.
Ack(p) ==
    /\ pc[p] = "ack"
    /\ acked' = acked \cup {cur[p]}
    /\ NextEntry(p, cur[p])
    /\ UNCHANGED <<url, moved, fences, fenced, queued, retired, bound, accepted, faults>>

SyncEnd(p) ==
    /\ pc[p] = "post" /\ todo[p] = {}
    /\ Done(p)
    /\ UNCHANGED <<files, faults>>

----------------------------------------------------------------------------
(* Retirement *)

\* Fault: the replacement need not have been acknowledged.
MayRetireQueued(r, s) ==
    r \in queued \ acked /\ s \in queued /\ r # s /\ Kind[r] = Kind[s] /\ ~Retired(r)

MayRetire(r, s) ==
    r \in queued \ acked /\ s \in acked /\ r # s /\ Kind[r] = Kind[s] /\ ~Retired(r)

\* retire_outbox_entry.  What it read may change before it writes, but an
\* acknowledgement that comes in between is one that could come after.
Retire(r, s) ==
    /\ MayRetire(r, s)
    /\ retired' = [retired EXCEPT ![r] = s]
    /\ UNCHANGED <<url, moved, fences, fenced, queued, acked, bound, accepted,
                   pc, gen, todo, cur, barred, faults>>

----------------------------------------------------------------------------
(* Disconnecting, and moving to another endpoint *)

\* disconnect_governed_work loads the configuration, reads the pending entries,
Disconnect(p) ==
    /\ pc[p] = "idle"
    /\ Goto(p, "leave", url, {}, NoRequest, {})
    /\ UNCHANGED <<files, faults>>

DisconnectRead(p) ==
    /\ pc[p] = "leave"
    /\ Goto(p, "fence", gen[p], Pending, NoRequest, {})
    /\ UNCHANGED <<files, faults>>

\* and writes the fence of that generation unless there is one.
DisconnectWrite(p) ==
    /\ pc[p] = "fence"
    /\ fences' = fences \cup {gen[p]}
    /\ fenced' = IF gen[p] \in fences THEN fenced ELSE [fenced EXCEPT ![gen[p]] = todo[p]]
    /\ Done(p)
    /\ UNCHANGED <<url, moved, queued, acked, retired, bound, accepted, faults>>

\* Fault: the document is not written before the configuration.
TransitionSignLate(p, k) ==
    /\ pc[p] = "idle" /\ \A q \in Callers : pc[q] # "move"
    /\ url = From[k]
    /\ Goto(p, "move", To[k], {}, NoRequest, {})
    /\ UNCHANGED <<files, faults>>

\* transition_platform_url, in the lock of the configuration.  A transition
\* with a document is a repetition: it goes on when the configuration is
\* still, or again, the one it started from.
TransitionSign(p, k) ==
    /\ pc[p] = "idle" /\ \A q \in Callers : pc[q] # "move"
    /\ url = From[k]
    /\ moved' = moved \cup {k}
    /\ Goto(p, "move", To[k], {}, NoRequest, {})
    /\ UNCHANGED <<url, fences, fenced, queued, acked, retired, bound, accepted, faults>>

TransitionWrite(p) ==
    /\ pc[p] = "move"
    /\ url' = gen[p]
    /\ Done(p)
    /\ UNCHANGED <<moved, fences, fenced, queued, acked, retired, bound, accepted, faults>>

Crash(p) ==
    /\ pc[p] # "idle" /\ faults < MaxFaults
    /\ Done(p)
    /\ faults' = faults + 1
    /\ UNCHANGED files

----------------------------------------------------------------------------
(* Specification *)

Init ==
    /\ url = First /\ moved = {}
    /\ fences = {} /\ fenced = [g \in Endpoints |-> {}]
    /\ queued = {} /\ acked = {} /\ bound = {} /\ accepted = {}
    /\ retired = [r \in Requests |-> NoRequest]
    /\ pc = [p \in Callers |-> "idle"]
    /\ gen = [p \in Callers |-> NoEndpoint]
    /\ todo = [p \in Callers |-> {}]
    /\ cur = [p \in Callers |-> NoRequest]
    /\ barred = [p \in Callers |-> {}]
    /\ faults = 0

Next ==
    \/ \E r \in Requests : QueueCall(r)
    \/ \E r, s \in Requests : Retire(r, s)
    \/ \E p \in Callers :
          \/ ReadPending(p) \/ ReadFences(p) \/ FencedOff(p)
          \/ PublishQueue(p) \/ Snapshot(p)
          \/ Store(p) \/ Follow(p) \/ Ack(p) \/ SyncEnd(p)
          \/ Disconnect(p) \/ DisconnectRead(p) \/ DisconnectWrite(p) \/ TransitionWrite(p)
          \/ Crash(p)
          \/ \E r \in Evidence \cup {NoRequest} : Load(p, r)
          \/ \E r \in Requests : Post(p, r) \/ PostRefused(p, r) \/ PostLost(p, r)
          \/ \E k \in Transitions : TransitionSign(p, k)

Spec == Init /\ [][Next]_vars

----------------------------------------------------------------------------
(* Properties *)

\* Every variable stays in its type.
TypeOK ==
    /\ url \in Endpoints /\ moved \subseteq Transitions
    /\ fences \subseteq Endpoints /\ fenced \in [Endpoints -> SUBSET Requests]
    /\ queued \subseteq Requests /\ acked \subseteq Requests
    /\ bound \subseteq Requests /\ accepted \subseteq Requests
    /\ retired \in [Requests -> Requests \cup {NoRequest}]
    /\ pc \in [Callers -> Points]
    /\ gen \in [Callers -> Endpoints \cup {NoEndpoint}]
    /\ todo \in [Callers -> SUBSET Requests]
    /\ cur \in [Callers -> Requests \cup {NoRequest}]
    /\ barred \in [Callers -> SUBSET Requests]
    /\ faults \in 0..MaxFaults

Posting(p) == pc[p] \in {"post", "store", "follow", "ack"}

\* The Platform applied the request, what it answered is stored, and what
\* has to follow is in the outbox.
Applied(r) ==
    /\ r \in accepted
    /\ Kind[r] # "evidence" => r \in bound
    /\ Kind[r] = "acceptance" => SourceOf[r] \in queued

\* Wherever a caller dies and however syncs and retirements interleave, a
\* request that is retried no more has had its effect here and on the
\* Platform, or the request that replaced it has.
NothingLost ==
    \A r \in queued \ Pending :
        Applied(r) \/ (Retired(r) /\ Applied(retired[r]) /\ Kind[retired[r]] = Kind[r])

\* A sync posts no entry that was in the outbox when it read what is pending
\* and that a fence named when it then read the fences, though its own
\* generation is another, and though calls that began earlier acknowledge and
\* retire entries, and disconnect, meanwhile.  Of an entry queued between
\* the two reads it says nothing, and such an entry may be fenced and posted:
\* WorkDeliveryRaced.cfg.
FencesHold == \A p \in Callers : Posting(p) => todo[p] \cap barred[p] = {}

\* The endpoint moves along signed transitions only, whatever becomes of
\* the callers between the document and the configuration.
EndpointSigned ==
    [][url' # url => \E k \in moved : From[k] = url /\ To[k] = url']_vars

\* A request has had its effect when the answer of the Platform is stored here;
\* of an evidence admission nothing is stored but the acknowledgement.
Effective == bound \cup (accepted \cap Evidence)

Followers == [r \in Requests |-> IF Kind[r] = "acceptance" THEN {SourceOf[r]} ELSE {}]

Promise == INSTANCE OutboxPromise
    WITH KindOf <- Kind, Follows <- Followers,
         outbox <- queued, effective <- Effective,
         settled <- acked \cup {r \in Requests : Retired(r)}

\* However often requests are posted again, by whichever caller, after lost
\* answers, crashes and retirements: the outbox gives up a request only for
\* its effect, has effects only of what was put into it, and takes nothing
\* back (governed_work_delivery.py sync_governed_work,
\* retire_outbox_entry).
PromiseKept == Promise!Spec

=============================================================================
