--------------------------- MODULE SourceEffects ---------------------------
(***************************************************************************)
(* Chunked apply of one governed session and the recovery of a chunk whose *)
(* apply was interrupted (src/apatch/apply_session.py, tui.py,             *)
(* notarization_failure.py, runtime/effects.py).                           *)
(*                                                                         *)
(* An apply call takes the chunk the cursor file points at, signs for each *)
(* patch an intent with the exact bytes before and after, writes the file, *)
(* signs one receipt for the chunk and moves the cursor on.  A recovery    *)
(* call does the last two for a chunk whose intents are all signed and     *)
(* whose files hold the images signed.  The ledger only grows.             *)
(*                                                                         *)
(* The cursor file is stored whole and, by apply calls, under no lock.     *)
(* Enforcement is on; every patch has a file of its own; the patch log     *)
(* never changes.  The session's lease is PathLeases' in one entry.        *)
(***************************************************************************)
EXTENDS Integers, FiniteSets

CONSTANTS
    N,          \* patches in the log
    ChunkSize,  \* files a chunk may hold
    Calls,      \* concurrent calls of the session, each in its own process
    MaxCalls,   \* bound on the calls that are admitted or abort
    MaxFaults   \* bound on crashes, lost leases, failures of the signer and
                \* writes of others

ASSUME LogAssumption ==
    /\ N \in Nat \ {0} /\ ChunkSize \in Nat \ {0}
    /\ MaxCalls \in Nat /\ MaxFaults \in Nat

VARIABLES
    file,     \* the image on disk of each patch's file
    cursor,   \* apply_session.json
    lease,    \* the session's writer lease
    intents,  \* the signed effect_prepared rows
    receipts, \* the signed rows for chunks, of apply calls and of recoveries
    backup,   \* .apatch/backups/<checkpoint>: the files as they were
    call,     \* the calls in progress
    locked,   \* who holds the lock of the session's recovery
    landed,   \* history: the images that apply calls have put in place
    aborts,   \* calls that have aborted so far
    serial,   \* calls admitted so far: a checkpoint or a lease is named by it
    faults    \* how much died, failed or was written by others so far

vars == <<file, cursor, lease, intents, receipts, backup, call, locked, landed,
          aborts, serial, faults>>

Patches == 1..N
Serials == 1..MaxCalls
Nobody  == "nobody"

ASSUME NobodyAssumption == Nobody \notin Calls

\* What a file holds: the patch or not, and the last write of others to it.
Image   == [patched : BOOLEAN, rev : 0..MaxFaults]
NoImage == [patched |-> FALSE, rev |-> -1]
Saved   == Image \cup {NoImage}

\* index is one past the last chunk when all is applied; 0: there is no file.
\* plan holds the patches the plan kept, from which the chunks follow.
Cursor == [index : 0..N + 1, plan : SUBSET Patches, lease : 0..MaxCalls,
           checkpoint : 0..MaxCalls, blocked : BOOLEAN]
NoCursor == [index |-> 0, plan |-> {}, lease |-> 0, checkpoint |-> 0, blocked |-> FALSE]

Lease   == [id : 0..MaxCalls, pid : Calls \cup {Nobody}]
NoLease == [id |-> 0, pid |-> Nobody]

Effect  == [checkpoint : Serials, index : 1..N, steps : SUBSET Patches,
            patch : Patches, before : Image, after : Image]
Receipt == [by : {"apply", "recover"}, serial : Serials, effects : SUBSET Effect,
            images : [Patches -> Saved]]

Stages == {"idle", "loaded", "matching", "matched", "prepared", "verifying",
           "fenced", "written", "rolledback", "signing", "restoring", "blocking", "saving",
           "checking", "attesting", "rechecking", "comparing", "advancing",
           "aborting"}

\* What a call has in memory: its cursor, checkpoint and lease, the patch it is
\* at and the image it computed for it, the effects it has signed or means to
\* recover, the rows it read from the ledger, and the images it is to restore.
Call == [at : Stages, cur : Cursor, serial : 0..MaxCalls, lease : 0..MaxCalls,
         patch : 0..N + 1, after : Saved, effects : SUBSET Effect,
         rows : SUBSET Receipt, targets : [Patches -> Saved]]
Idle == [at |-> "idle", cur |-> NoCursor, serial |-> 0, lease |-> 0, patch |-> 0,
         after |-> NoImage, effects |-> {}, rows |-> {},
         targets |-> [i \in Patches |-> NoImage]]

----------------------------------------------------------------------------
(* Plans and chunks *)

\* _build_chunks: the patches kept, in the order of the log, by ChunkSize.
Rank(P, i)    == Cardinality({j \in P : j <= i})
ChunkOf(P, i) == ((Rank(P, i) - 1) \div ChunkSize) + 1
Chunk(cur)    == {i \in cur.plan : ChunkOf(cur.plan, i) = cur.index}
Last(cur)     == \A i \in cur.plan : ChunkOf(cur.plan, i) <= cur.index

InProgress(cur) == cur # NoCursor /\ Chunk(cur) # {}

\* The first patch of a chunk after the i-th, N + 1 when there is none.
After(cur, i) ==
    LET rest == {j \in Chunk(cur) : j > i}
    IN IF rest = {} THEN N + 1 ELSE CHOOSE j \in rest : \A k \in rest : j <= k

Matches(i)   == ~file[i].patched
Patched(img) == [img EXCEPT !.patched = TRUE]

Written(c) == {e.patch : e \in call[c].effects}
WrittenAs(c, i) == (CHOOSE e \in call[c].effects : e.patch = i).after

Fault == faults < MaxFaults /\ faults' = faults + 1

CallsLeft == serial + aborts < MaxCalls

\* A call ends; what it held in memory is gone.
Ends(c) == call' = [call EXCEPT ![c] = Idle]

\* acquire_lease for the same session: extended in place by whoever asks.
LeaseId(n) == IF lease = NoLease THEN n ELSE lease.id

\* release_lease by id, or of whatever the session holds when no id is known.
Released(id) == IF id \in {0, lease.id} THEN NoLease ELSE lease

\* The fence of a write: this very lease, held for this process.
Fenced(c) == lease # NoLease /\ lease.id = call[c].lease /\ lease.pid = c

\* A call in the fence holds the locks of the lease registry: until it is out,
\* no lease is taken or given up, and no other call gets in.
Unfenced == \A c \in Calls : call[c].at # "fenced"

----------------------------------------------------------------------------
(* Apply: admission *)

\* A cursor is made when there is none, or when the caller asks for a reset.
Plan(c) ==
    LET P == {i \in Patches : Matches(i)} IN
    /\ call[c].at = "idle"
    /\ P # {}
    /\ cursor' = [NoCursor EXCEPT !.index = 1, !.plan = P]
    /\ call' = [call EXCEPT ![c].at = "loaded", ![c].cur = cursor']
    /\ UNCHANGED <<file, lease, intents, receipts, backup, locked, landed, aborts, serial, faults>>

\* A blocked cursor is answered from; so is a complete one.
Load(c) ==
    /\ call[c].at = "idle"
    /\ InProgress(cursor) /\ ~cursor.blocked
    /\ call' = [call EXCEPT ![c].at = "loaded", ![c].cur = cursor]
    /\ UNCHANGED <<file, cursor, lease, intents, receipts, backup, locked, landed, aborts, serial, faults>>

\* A complete session gives up its lease.
LoadComplete(c) ==
    /\ call[c].at = "idle"
    /\ cursor # NoCursor /\ ~InProgress(cursor) /\ ~cursor.blocked
    /\ Unfenced
    /\ lease' = Released(cursor.lease)
    /\ UNCHANGED <<file, cursor, intents, receipts, backup, call, locked, landed, aborts, serial, faults>>

\* The lease is taken and the cursor stored as it was loaded, with the lease.
Admit(c) ==
    LET id == LeaseId(serial + 1) IN
    /\ call[c].at = "loaded" /\ Unfenced
    /\ CallsLeft
    /\ serial' = serial + 1
    /\ lease' = [id |-> id, pid |-> c]
    /\ cursor' = [call[c].cur EXCEPT !.lease = id]
    /\ call' = [call EXCEPT ![c].at = "matching", ![c].cur = cursor',
                            ![c].serial = serial + 1, ![c].lease = id,
                            ![c].patch = After(call[c].cur, 0)]
    /\ UNCHANGED <<file, intents, receipts, backup, locked, landed, aborts, faults>>

\* abort: the last checkpoint is restored, whatever its files hold by now,
Abort(c) ==
    /\ call[c].at = "idle"
    /\ CallsLeft /\ aborts' = aborts + 1
    /\ file' = [i \in Patches |->
          IF cursor.checkpoint # 0 /\ backup[cursor.checkpoint][i] # NoImage
          THEN backup[cursor.checkpoint][i] ELSE file[i]]
    /\ backup' = [k \in Serials |->
          IF k = cursor.checkpoint THEN [i \in Patches |-> NoImage] ELSE backup[k]]
    /\ call' = [call EXCEPT ![c] = [Idle EXCEPT !.at = "aborting", !.lease = cursor.lease]]
    /\ UNCHANGED <<cursor, lease, intents, receipts, locked, landed, serial, faults>>

\* the lease released and the cursor removed.
Aborted(c) ==
    /\ call[c].at = "aborting" /\ Unfenced
    /\ lease' = Released(call[c].lease)
    /\ cursor' = NoCursor
    /\ Ends(c)
    /\ UNCHANGED <<file, intents, receipts, backup, locked, landed, aborts, serial, faults>>

----------------------------------------------------------------------------
(* Apply: one patch *)

At(c, stage) == call[c].at = stage

\* Fault: a file that cannot be saved is written to all the same.
BackUpFault(n, i) == backup

BackUp(n, i) == [backup EXCEPT ![n][i] = file[i]]

\* The anchors are found, the new content is computed, the old file saved.
MatchPatch(c) ==
    LET i == call[c].patch  n == call[c].serial IN
    /\ At(c, "matching") /\ i \in Patches
    /\ Matches(i)
    /\ backup' = BackUp(n, i)
    /\ call' = [call EXCEPT ![c].at = "matched", ![c].after = Patched(file[i])]
    /\ UNCHANGED <<file, cursor, lease, intents, receipts, locked, landed, aborts, serial, faults>>

NextPatch(c) == [call[c] EXCEPT !.at = "matching", !.after = NoImage,
                                !.patch = After(call[c].cur, call[c].patch)]

\* The anchors are not found: the patch counts as failed and is left out.
SkipPatch(c) ==
    /\ At(c, "matching") /\ call[c].patch \in Patches
    /\ ~Matches(call[c].patch)
    /\ call' = [call EXCEPT ![c] = NextPatch(c)]
    /\ UNCHANGED <<file, cursor, lease, intents, receipts, backup, locked, landed, aborts, serial, faults>>

\* The intent names the chunk of the cursor on disk, not of the call's copy.
Intent(c) ==
    [checkpoint |-> call[c].serial, index |-> cursor.index, steps |-> Chunk(cursor),
     patch |-> call[c].patch, before |-> file[call[c].patch], after |-> call[c].after]

SameChunk(c) == InProgress(cursor) /\ Chunk(cursor) = Chunk(call[c].cur)

Prepare(c) ==
    /\ At(c, "matched")
    /\ SameChunk(c)
    /\ intents' = intents \cup {Intent(c)}
    /\ call' = [call EXCEPT ![c].at = "prepared", ![c].effects = @ \cup {Intent(c)}]
    /\ UNCHANGED <<file, cursor, lease, receipts, backup, locked, landed, aborts, serial, faults>>

\* Without a cursor nothing is signed, and the write is not checked.
PrepareNothing(c) ==
    /\ At(c, "matched")
    /\ cursor = NoCursor
    /\ call' = [call EXCEPT ![c].at = "prepared"]
    /\ UNCHANGED <<file, cursor, lease, intents, receipts, backup, locked, landed, aborts, serial, faults>>

\* The cursor is elsewhere: the call fails and leaves its lease.  (A cursor past
\* its last chunk is an index error, which only skips the patch.)
PrepareRefused(c) ==
    /\ At(c, "matched")
    /\ cursor # NoCursor /\ ~SameChunk(c)
    /\ IF InProgress(cursor) THEN Ends(c)
       ELSE call' = [call EXCEPT ![c] = NextPatch(c)]
    /\ UNCHANGED <<file, cursor, lease, intents, receipts, backup, locked, landed, aborts, serial, faults>>

Mine(c) == {e \in call[c].effects : e.patch = call[c].patch}

\* assert_effect_preimage
PreimageHolds(c) == \A e \in Mine(c) : file[e.patch] = e.before

\* Under the fence, which keeps out the writers that ask for a lease, the bytes
\* are compared with the ones signed,
EnterFence(c) ==
    /\ At(c, "prepared") /\ Unfenced
    /\ Fenced(c) /\ PreimageHolds(c)
    /\ call' = [call EXCEPT ![c].at = "fenced"]
    /\ UNCHANGED <<file, cursor, lease, intents, receipts, backup, locked, landed, aborts, serial, faults>>

\* and replaced, whatever they are by now.
Write(c) ==
    LET i == call[c].patch IN
    /\ At(c, "fenced")
    /\ file' = [file EXCEPT ![i] = call[c].after]
    /\ landed' = landed \cup {<<i, call[c].after>>}
    /\ call' = [call EXCEPT ![c].at = "written"]
    /\ UNCHANGED <<cursor, lease, intents, receipts, backup, locked, aborts, serial, faults>>

\* Fault: a write that is refused is left out like a patch that fails.
WriteSkipped(c) ==
    /\ At(c, "prepared") /\ Unfenced
    /\ ~Fenced(c) \/ ~PreimageHolds(c)
    /\ call' = [call EXCEPT ![c] = NextPatch(c)]
    /\ UNCHANGED <<file, cursor, lease, intents, receipts, backup, locked, landed, aborts, serial, faults>>

\* The call fails; cursor and lease stay as they are.
WriteRefused(c) ==
    /\ At(c, "prepared") /\ Unfenced
    /\ ~Fenced(c) \/ ~PreimageHolds(c)
    /\ Ends(c)
    /\ UNCHANGED <<file, cursor, lease, intents, receipts, backup, locked, landed, aborts, serial, faults>>

\* written_effect, out of the fence again: the file holds what was signed, or
\* the call fails.
WrittenEffect(c) ==
    /\ At(c, "written")
    /\ IF \A e \in Mine(c) : file[e.patch] = e.after
       THEN call' = [call EXCEPT ![c] = NextPatch(c)]
       ELSE Ends(c)
    /\ UNCHANGED <<file, cursor, lease, intents, receipts, backup, locked, landed, aborts, serial, faults>>

----------------------------------------------------------------------------
(* Apply: the end of a chunk *)

\* Nothing applied: there is nothing to verify or to sign, and the chunk counts
\* as done.  A verify command is for the session's last chunk.
ChunkApplied(c) ==
    /\ At(c, "matching") /\ call[c].patch = N + 1
    /\ \E stage \in {"verifying", "signing", "saving"} :
        /\ stage = "saving" <=> Written(c) = {}
        /\ stage = "verifying" => Last(call[c].cur)
        /\ call' = [call EXCEPT ![c].at = stage]
    /\ UNCHANGED <<file, cursor, lease, intents, receipts, backup, locked, landed, aborts, serial, faults>>

VerifyPasses(c) ==
    /\ At(c, "verifying")
    /\ call' = [call EXCEPT ![c].at = "signing"]
    /\ UNCHANGED <<file, cursor, lease, intents, receipts, backup, locked, landed, aborts, serial, faults>>

\* rollback_session: every backup is put back, whatever the file holds by now,
\* and the folder of the checkpoint goes.
VerifyFails(c) ==
    LET n == call[c].serial IN
    /\ At(c, "verifying")
    /\ file' = [i \in Patches |-> IF backup[n][i] # NoImage THEN backup[n][i] ELSE file[i]]
    /\ backup' = [backup EXCEPT ![n] = [i \in Patches |-> NoImage]]
    /\ call' = [call EXCEPT ![c].at = "rolledback"]
    /\ UNCHANGED <<cursor, lease, intents, receipts, locked, landed, aborts, serial, faults>>

ClearCursor(c) ==
    /\ At(c, "rolledback") /\ Unfenced
    /\ lease' = Released(call[c].lease)
    /\ cursor' = NoCursor
    /\ Ends(c)
    /\ UNCHANGED <<file, intents, receipts, backup, locked, landed, aborts, serial, faults>>

\* The row carries what the files hold when it is signed.
ChunkReceipt(c) ==
    [by |-> "apply", serial |-> call[c].serial, effects |-> call[c].effects,
     images |-> [i \in Patches |-> IF i \in Written(c) THEN file[i] ELSE NoImage]]

SignChunk(c) ==
    /\ At(c, "signing")
    /\ receipts' = receipts \cup {ChunkReceipt(c)}
    /\ call' = [call EXCEPT ![c].at = "saving"]
    /\ UNCHANGED <<file, cursor, lease, intents, backup, locked, landed, aborts, serial, faults>>

Capture(c) == [i \in Patches |-> IF i \in Written(c) THEN file[i] ELSE NoImage]

\* The signer raises, for an intent or for the chunk; the row may be there.
SignFails(c) ==
    /\ At(c, "signing") \/ (At(c, "matched") /\ SameChunk(c))
    /\ Fault
    /\ IF At(c, "signing")
       THEN receipts' \in {receipts, receipts \cup {ChunkReceipt(c)}} /\ UNCHANGED intents
       ELSE intents' \in {intents, intents \cup {Intent(c)}} /\ UNCHANGED receipts
    /\ call' = [call EXCEPT ![c].at = "restoring", ![c].targets = Capture(c)]
    /\ UNCHANGED <<file, cursor, lease, backup, locked, landed, aborts, serial>>

\* A file goes back if it is as it was when the signer was called; none does if
\* one has no backup, or one that was only backed up has changed.  Each file is
\* compared and put back in the fence; the files are one step here.
Restorable(c, i) ==
    LET kept == backup[call[c].serial]  targets == call[c].targets IN
    /\ Fenced(c)
    /\ targets[i] # NoImage /\ file[i] = targets[i]
    /\ \A j \in Patches :
        IF targets[j] = NoImage THEN kept[j] \in {NoImage, file[j]} ELSE kept[j] # NoImage

RestoreOwn(c) ==
    /\ At(c, "restoring") /\ Unfenced
    /\ file' = [i \in Patches |->
          IF Restorable(c, i) THEN backup[call[c].serial][i] ELSE file[i]]
    /\ call' = [call EXCEPT ![c].at = "blocking"]
    /\ UNCHANGED <<cursor, lease, intents, receipts, backup, locked, landed, aborts, serial, faults>>

\* The chunk stays where it is, never to be tried again of itself.
Block(c) ==
    /\ At(c, "blocking") /\ Unfenced
    /\ cursor' = [call[c].cur EXCEPT !.blocked = TRUE, !.checkpoint = call[c].serial]
    /\ lease' = Released(call[c].lease)
    /\ Ends(c)
    /\ UNCHANGED <<file, intents, receipts, backup, locked, landed, aborts, serial, faults>>

\* The call's copy of the cursor is stored, one chunk on, however many patches
\* of the chunk have failed.
Save(c) ==
    /\ At(c, "saving")
    /\ cursor' = [call[c].cur EXCEPT !.index = @ + 1, !.checkpoint = call[c].serial]
    /\ Ends(c)
    /\ UNCHANGED <<file, lease, intents, receipts, backup, locked, landed, aborts, serial, faults>>

----------------------------------------------------------------------------
(* Recovery *)

\* The intents signed for the chunk that the cursor is at.
Interrupted == {e \in intents : e.index = cursor.index}

\* Fault: some of the chunk's intents are enough.
CompleteFault(E) == \E e \in E : \A f \in E :
    f.checkpoint = e.checkpoint /\ f.steps = e.steps

\* They are of one apply call, for this very chunk, and none is missing.
Complete(E) ==
    \E e \in E :
        /\ \A f \in E : f.checkpoint = e.checkpoint /\ f.steps = e.steps
        /\ e.steps = Chunk(cursor)
        /\ {f.patch : f \in E} = e.steps

CheckpointOf(E) == (CHOOSE e \in E : TRUE).checkpoint
HasBackup(n)    == \E i \in Patches : backup[n][i] # NoImage

\* Recovery of one session is serialised by a lock.  The rest is refused, and
\* changes nothing.
StartRecovery(c) ==
    LET id == LeaseId(serial + 1) IN
    /\ call[c].at = "idle" /\ locked = Nobody /\ Unfenced
    /\ CallsLeft
    /\ InProgress(cursor)
    /\ Complete(Interrupted)
    /\ HasBackup(CheckpointOf(Interrupted))
    /\ locked' = c
    /\ serial' = serial + 1
    /\ lease' = [id |-> id, pid |-> c]
    /\ call' = [call EXCEPT ![c] = [Idle EXCEPT !.at = "checking", !.cur = cursor,
                    !.serial = serial + 1, !.lease = id,
                    !.effects = Interrupted, !.rows = receipts]]
    /\ UNCHANGED <<file, cursor, intents, receipts, backup, landed, aborts, faults>>

\* The lease is given up whatever happened.
Quit(c) ==
    /\ Unfenced
    /\ Ends(c)
    /\ locked' = Nobody
    /\ lease' = Released(call[c].lease)

PostimagesHold(c) == \A e \in call[c].effects : file[e.patch] = e.after

\* A row covers these effects with their images.
Covered(rows, E) ==
    \E r \in rows : E \subseteq r.effects /\ \A e \in E : r.images[e.patch] = e.after

\* Fault: rows signed before are not looked for.
SignedBeforeFault(c) == FALSE

\* The rows are the ones read at the start.
SignedBefore(c) == Covered(call[c].rows, call[c].effects)

CheckPostimages(c) ==
    /\ At(c, "checking")
    /\ PostimagesHold(c)
    /\ call' = [call EXCEPT ![c].at = IF SignedBefore(c) THEN "rechecking" ELSE "attesting"]
    /\ UNCHANGED <<file, cursor, lease, intents, receipts, backup, locked, landed, aborts, serial, faults>>

RecoveryReceipt(c) ==
    [by |-> "recover", serial |-> call[c].serial, effects |-> call[c].effects,
     images |-> [i \in Patches |->
        IF i \in Written(c) THEN WrittenAs(c, i) ELSE NoImage]]

SignRecovery(c) ==
    /\ At(c, "attesting")
    /\ receipts' = receipts \cup {RecoveryReceipt(c)}
    /\ call' = [call EXCEPT ![c].at = "rechecking"]
    /\ UNCHANGED <<file, cursor, lease, intents, backup, locked, landed, aborts, serial, faults>>

\* The signer fails, or its row is not found again: nobody knows.
SignRecoveryFails(c) ==
    /\ At(c, "attesting")
    /\ Fault
    /\ receipts' \in {receipts, receipts \cup {RecoveryReceipt(c)}}
    /\ Quit(c)
    /\ UNCHANGED <<file, cursor, intents, backup, landed, aborts, serial>>

RecheckPostimages(c) ==
    /\ At(c, "rechecking")
    /\ PostimagesHold(c)
    /\ call' = [call EXCEPT ![c].at = "comparing"]
    /\ UNCHANGED <<file, cursor, lease, intents, receipts, backup, locked, landed, aborts, serial, faults>>

\* The files are not as signed, before or after the signing.
PostimageChanged(c) ==
    /\ call[c].at \in {"checking", "rechecking"}
    /\ ~PostimagesHold(c)
    /\ Quit(c)
    /\ UNCHANGED <<file, cursor, intents, receipts, backup, landed, aborts, serial, faults>>

\* Under the cursor's own lock, which apply calls do not take.
CompareCursor(c) ==
    /\ At(c, "comparing")
    /\ IF cursor = call[c].cur
       THEN call' = [call EXCEPT ![c].at = "advancing"] /\ UNCHANGED <<lease, locked>>
       ELSE Quit(c)
    /\ UNCHANGED <<file, cursor, intents, receipts, backup, landed, aborts, serial, faults>>

Advance(c) ==
    /\ At(c, "advancing")
    /\ cursor' = [call[c].cur EXCEPT !.index = @ + 1,
                                     !.checkpoint = CheckpointOf(call[c].effects)]
    /\ Quit(c)
    /\ UNCHANGED <<file, intents, receipts, backup, landed, aborts, serial, faults>>

----------------------------------------------------------------------------
(* The environment *)

\* Somebody writes to a file: an editor, another tool, another session.
Edit(i) ==
    /\ Fault
    /\ \E b \in BOOLEAN : file' = [file EXCEPT ![i] = [patched |-> b, rev |-> faults + 1]]
    /\ UNCHANGED <<cursor, lease, intents, receipts, backup, call, locked, landed, aborts, serial>>

LeaseExpires ==
    /\ lease # NoLease
    /\ Fault
    /\ lease' = NoLease
    /\ UNCHANGED <<file, cursor, intents, receipts, backup, call, locked, landed, aborts, serial>>

\* A process dies, with a call or between two: its lease counts no more and its
\* lock is free.
Crash(c) ==
    /\ call[c] # Idle \/ lease.pid = c
    /\ Fault
    /\ Ends(c)
    /\ lease' = IF lease.pid = c THEN NoLease ELSE lease
    /\ locked' = IF locked = c THEN Nobody ELSE locked
    /\ UNCHANGED <<file, cursor, intents, receipts, backup, landed, aborts, serial>>

----------------------------------------------------------------------------

Init ==
    /\ file = [i \in Patches |-> [patched |-> FALSE, rev |-> 0]]
    /\ cursor = NoCursor /\ lease = NoLease
    /\ intents = {} /\ receipts = {}
    /\ backup = [k \in Serials |-> [i \in Patches |-> NoImage]]
    /\ call = [c \in Calls |-> Idle]
    /\ locked = Nobody /\ landed = {}
    /\ aborts = 0 /\ serial = 0 /\ faults = 0

ApplyStep(c) ==
    \/ Admit(c) \/ MatchPatch(c) \/ SkipPatch(c)
    \/ Prepare(c) \/ PrepareNothing(c) \/ PrepareRefused(c)
    \/ EnterFence(c) \/ Write(c) \/ WriteRefused(c) \/ WrittenEffect(c) \/ ChunkApplied(c)
    \/ VerifyPasses(c) \/ VerifyFails(c) \/ ClearCursor(c)
    \/ SignChunk(c) \/ SignFails(c) \/ RestoreOwn(c) \/ Block(c) \/ Save(c)

RecoverStep(c) ==
    \/ CheckPostimages(c) \/ SignRecovery(c) \/ SignRecoveryFails(c)
    \/ RecheckPostimages(c) \/ PostimageChanged(c) \/ CompareCursor(c) \/ Advance(c)

Next ==
    \/ \E c \in Calls : \/ Plan(c) \/ Load(c) \/ LoadComplete(c) \/ Abort(c) \/ Aborted(c)
                        \/ StartRecovery(c) \/ ApplyStep(c) \/ RecoverStep(c)
                        \/ Crash(c)
    \/ \E i \in Patches : Edit(i)
    \/ LeaseExpires

Spec == Init /\ [][Next]_vars

----------------------------------------------------------------------------
(* Properties *)

\* Every variable keeps its type.
TypeOK ==
    /\ file \in [Patches -> Image]
    /\ cursor \in Cursor /\ lease \in Lease
    /\ intents \subseteq Effect /\ receipts \subseteq Receipt
    /\ backup \in [Serials -> [Patches -> Saved]]
    /\ call \in [Calls -> Call]
    /\ locked \in Calls \cup {Nobody} /\ landed \subseteq Patches \X Image
    /\ aborts \in 0..MaxCalls /\ serial \in 0..MaxCalls /\ faults \in 0..MaxFaults

\* A row that is signed for a chunk, by its apply call or by a recovery of it,
\* stands for effects that were on disk, each with the image its intent names:
\* not for a write that was refused or that a crash forestalled, whatever came
\* in between of edits, aborts and other calls (prepare_effect,
\* written_effect, recover_source_effects).
ReceiptsLanded ==
    \A r \in receipts : \A e \in r.effects : <<e.patch, e.after>> \in landed

\* A recovery that is killed, or fails after signing, is not signed again.
RecoveredOnce ==
    \A r, s \in receipts :
        r.by = "recover" /\ s.by = "recover" /\ r.effects = s.effects => r = s

\* Recovery moves the cursor on by one chunk, with all of the chunk's effects
\* signed by one apply call and covered by one row with their images.
RecoveryCovered ==
    [][\A c \in Calls :
        At(c, "advancing") /\ cursor' # cursor /\ call'[c].at = "idle" =>
            /\ cursor'.index = call[c].cur.index + 1
            /\ \E r \in receipts, E \in SUBSET intents :
                /\ {e.patch : e \in E} = Chunk(call[c].cur)
                /\ \A e \in E : /\ e \in r.effects /\ r.images[e.patch] = e.after
                                /\ e.checkpoint = cursor'.checkpoint]_vars

\* Whatever a signed effect left on disk can still be rolled back: some backup
\* of the file, as it was before it was patched, is still there.
RollbackRoute ==
    \A e \in intents :
        file[e.patch] = e.after =>
            \E n \in Serials : backup[n][e.patch] # NoImage /\ ~backup[n][e.patch].patched

\* What a journaled write replaces are the bytes that its intent names: not
\* so, when somebody writes between the comparison and the replacement.
ExactPreimage ==
    [][\A c \in Calls :
        At(c, "fenced") /\ call'[c].at = "written" =>
            \A e \in Mine(c) : e.before = file[e.patch]]_vars

\* "Notarize only an authenticated complete interrupted chunk, exactly once."
NotarizedOnce ==
    \A r, s \in receipts : r # s => r.effects \cap s.effects = {}

=============================================================================
