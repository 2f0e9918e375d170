------------------------ MODULE SourceEffects_proofs ------------------------
(***************************************************************************)
(* For any patch log, any number of calls and any number of faults: a row  *)
(* stands for effects that were on disk, a recovery is signed once, it     *)
(* moves the cursor on only with every effect of the chunk signed and      *)
(* covered by a row with its images, and whatever a signed effect left on  *)
(* disk has a backup.                                                      *)
(***************************************************************************)
EXTENDS SourceEffects, FiniteSetTheorems, WellFoundedInduction, TLAPS

Recovering == {"checking", "attesting", "rechecking", "comparing", "advancing"}

\* What a call has in memory fits the stage it is in.
Fits(r) ==
    /\ r \in Call
    /\ r.at \notin {"idle", "aborting"} => r.cur.index \in 1..N
    /\ r.at \notin {"idle", "loaded", "aborting"} => r.serial \in Serials
    /\ r.at \in {"matched", "prepared", "fenced", "written"} =>
          r.patch \in Patches /\ r.after \in Image
    /\ r.at \in Recovering => r.effects # {}

Framed == \A c \in Calls : Fits(call[c])

\* What a call goes by was read from the ledger or signed by itself.
FromLedger ==
    \A c \in Calls : call[c].effects \subseteq intents /\ call[c].rows \subseteq receipts

\* An apply call signs its patches in the order of the chunk.
Ordered ==
    \A c \in Calls : \A e \in call[c].effects :
        /\ call[c].at \notin {"idle", "loaded", "aborting"}
        /\ call[c].at \in {"matching", "matched"} => e.patch < call[c].patch
        /\ call[c].at \in {"prepared", "fenced", "written"} =>
              /\ e.patch <= call[c].patch
              /\ e.patch = call[c].patch => e.after = call[c].after

\* One recovery at a time.
Serialised == \A c \in Calls : call[c].at \in Recovering => locked = c

\* A recovery has all the effects of the chunk, of one apply call.
OfChunk(E, cur) == {e.patch : e \in E} = Chunk(cur)
OfOneCall(E)    == \A e, f \in E : e.checkpoint = f.checkpoint

Whole ==
    \A c \in Calls :
        call[c].at \in Recovering =>
            OfChunk(call[c].effects, call[c].cur) /\ OfOneCall(call[c].effects)

\* Once the files have been looked at, the images it goes by are theirs.
OneImage(E) == \A e, f \in E : e.patch = f.patch => e.after = f.after

Agreed ==
    \A c \in Calls :
        call[c].at \in Recovering \ {"checking"} => OneImage(call[c].effects)

\* Until it signs, a recovery knows the rows of every other recovery.
Informed ==
    \A c \in Calls :
        /\ call[c].at \in {"checking", "attesting"} =>
              \A r \in receipts : r.by = "recover" => r \in call[c].rows
        /\ call[c].at = "attesting" => ~Covered(call[c].rows, call[c].effects)

\* A row signed by a recovery holds the images of its effects.
Imaged(r) == \A e \in r.effects : r.images[e.patch] = e.after
Truthful == \A r \in receipts : r.by = "recover" => Imaged(r)

\* What a recovery is about to move the cursor over is covered by a row.
Backed ==
    \A c \in Calls :
        call[c].at \in {"rechecking", "comparing", "advancing"} =>
            Covered(receipts, call[c].effects)

Typed == TypeOK /\ Framed
Rest == /\ FromLedger /\ Ordered /\ Serialised /\ Whole /\ Agreed
        /\ Informed /\ Truthful /\ Backed /\ RecoveredOnce
IInv == Typed /\ Rest

----------------------------------------------------------------------------
(* Chunks *)

LEMMA Least ==
    ASSUME NEW S \in SUBSET Nat, S # {}
    PROVE  \E m \in S : \A k \in S : m <= k
<1> DEFINE R == OpToRel(<, Nat)
<1>0. \A a, b \in Nat : ~ (b < a) => a <= b
  OBVIOUS
<1>1. \E x \in S : \A y \in S : ~ (<<y, x>> \in R)
  <2> HIDE DEF R
  <2> QED BY WFMin, NatLessThanWellFounded DEF R
<1>2. PICK x \in S : \A y \in S : ~ (<<y, x>> \in R)
  BY <1>1
<1>3. ASSUME NEW y \in S PROVE x <= y
  <2>1. ~ (<<y, x>> \in R) /\ x \in Nat /\ y \in Nat
    BY <1>2
  <2>2. ~ (y < x)
    BY <2>1, Zenon DEF OpToRel
  <2> QED BY <1>0, <2>1, <2>2, Zenon
<1> QED BY <1>3, Zenon

LEMMA Quotient ==
    ASSUME NEW a \in Nat, NEW b \in Nat \ {0}
    PROVE  a \div b \in 0..a
BY SMT

\* There are no more chunks than patches.
LEMMA ChunkBound ==
    ASSUME NEW P \in SUBSET Patches, NEW i \in P
    PROVE  ChunkOf(P, i) \in 1..N
<1> DEFINE S == {j \in P : j <= i}
<1>1. IsFiniteSet(Patches) /\ Cardinality(Patches) = N
  BY LogAssumption, FS_Interval, 1 \in Int, N \in Int DEF Patches
<1>2. IsFiniteSet(S) /\ Cardinality(S) <= N /\ Cardinality(S) \in Nat
  BY <1>1, FS_Subset, FS_CardinalityType, S \subseteq Patches
<1>3. i \in S
  BY DEF Patches
<1>4. Cardinality(S) # 0
  BY <1>2, <1>3, FS_EmptySet
<1>5. Rank(P, i) \in 1..N
  BY <1>2, <1>4, LogAssumption DEF Rank
<1>6. (Rank(P, i) - 1) \div ChunkSize \in 0..(Rank(P, i) - 1)
  BY <1>5, Quotient, LogAssumption, Rank(P, i) - 1 \in Nat
<1> QED BY <1>5, <1>6, LogAssumption DEF ChunkOf

LEMMA Pointed ==
    ASSUME NEW cur \in Cursor, Chunk(cur) # {}
    PROVE  cur.index \in 1..N /\ Chunk(cur) \subseteq Patches
BY ChunkBound DEF Chunk, Cursor

LEMMA AfterType ==
    ASSUME NEW cur \in Cursor, NEW i \in 0..N + 1
    PROVE  /\ After(cur, i) \in 1..N + 1
           /\ After(cur, i) > i \/ After(cur, i) = N + 1
<1> DEFINE S == {j \in Chunk(cur) : j > i}
<1>1. S \subseteq Patches
  BY DEF Chunk, Cursor
<1>2. ASSUME S # {} PROVE \E m \in S : \A k \in S : m <= k
  <2>1. S \in SUBSET Nat
    BY <1>1, LogAssumption DEF Patches
  <2> HIDE DEF S
  <2> QED BY <2>1, <1>2, Least
<1>3. CASE S = {}
  BY <1>3, LogAssumption DEF After
<1>4. CASE S # {}
  <2>1. After(cur, i) \in S
    BY <1>2, <1>4 DEF After
  <2> QED BY <2>1, <1>1, LogAssumption DEF Patches
<1> QED BY <1>3, <1>4

----------------------------------------------------------------------------
(* Types *)

THEOREM Initially == Init => IInv
<1> SUFFICES ASSUME Init PROVE IInv
  OBVIOUS
<1>1. TypeOK
  BY LogAssumption, NobodyAssumption DEF Init, TypeOK, Image, Cursor, NoCursor, Lease, NoLease,
     Saved, NoImage, Call, Idle, Stages, Serials, Patches
<1>2. Framed /\ Rest
  BY <1>1 DEF Init, Idle, NoImage, Framed, Rest, FromLedger, Ordered, Serialised, Whole, Agreed,
     Informed, Truthful, Backed, RecoveredOnce, Recovering, Fits, OneImage, TypeOK
<1> QED BY <1>1, <1>2 DEF IInv, Typed

LEMMA IntentType ==
    ASSUME Typed, NEW c \in Calls, At(c, "matched"), SameChunk(c)
    PROVE  Intent(c) \in Effect
<1>1. cursor.index \in 1..N /\ Chunk(cursor) \subseteq Patches /\ Chunk(cursor) # {}
  BY Pointed DEF Typed, TypeOK, SameChunk, InProgress
<1>2. /\ call[c].serial \in Serials /\ call[c].patch \in Patches /\ call[c].after \in Image
      /\ file[call[c].patch] \in Image
  BY DEF Typed, TypeOK, Framed, Fits, At
<1> QED BY <1>1, <1>2 DEF Intent, Effect

LEMMA ReceiptTypes ==
    ASSUME Typed, NEW c \in Calls, call[c].at \notin {"idle", "loaded", "aborting"}
    PROVE  /\ ChunkReceipt(c) \in Receipt
           /\ RecoveryReceipt(c) \in Receipt
           /\ Capture(c) \in [Patches -> Saved]
<1>1. call[c].serial \in Serials /\ call[c].effects \in SUBSET Effect
  BY DEF Typed, TypeOK, Framed, Fits, Call
<1>2. \A i \in Patches : file[i] \in Saved /\ NoImage \in Saved
  BY DEF Typed, TypeOK, Saved
<1>3. ASSUME NEW i \in Written(c) PROVE WrittenAs(c, i) \in Saved
  <2>1. \E e \in call[c].effects : e.patch = i
    BY DEF Written
  <2>2. \A e \in call[c].effects : e.after \in Saved
    BY <1>1 DEF Effect, Saved
  <2> QED BY <2>1, <2>2 DEF WrittenAs
<1> QED BY <1>1, <1>2, <1>3 DEF ChunkReceipt, RecoveryReceipt, Capture, Receipt

\* One stage further, in the same call.
LEMMA StageFits ==
    ASSUME NEW r, Fits(r), NEW stage \in Stages \ {"idle", "loaded", "aborting"},
           r.at \notin {"idle", "loaded", "aborting"},
           stage \in {"matched", "prepared", "fenced", "written"} =>
               r.patch \in Patches /\ r.after \in Image,
           stage \in Recovering => r.effects # {}
    PROVE  Fits([r EXCEPT !.at = stage])
<1>1. [r EXCEPT !.at = stage] \in Call
  BY Zenon DEF Fits, Call
<1>2. r \in Call
  BY DEF Fits
<1> QED BY <1>1, <1>2 DEF Fits, Call

LEMMA IdleFits == Fits(Idle)
BY LogAssumption DEF Fits, Call, Idle, Stages, Cursor, NoCursor, Saved, NoImage, Recovering

LEMMA NextFits ==
    ASSUME Typed, NEW c \in Calls, call[c].at \in {"matching", "matched", "written"}
    PROVE  /\ Fits(NextPatch(c)) /\ NextPatch(c).at = "matching"
           /\ NextPatch(c).effects = call[c].effects /\ NextPatch(c).rows = call[c].rows
           /\ NextPatch(c).patch = After(call[c].cur, call[c].patch)
<1>1. call[c] \in Call /\ Fits(call[c])
  BY DEF Typed, TypeOK, Framed
<1>2. After(call[c].cur, call[c].patch) \in 0..N + 1
  BY <1>1, AfterType, LogAssumption DEF Call
<1>3. NoImage \in Saved /\ "matching" \in Stages
  BY DEF Saved, Stages
<1>4. NextPatch(c) \in Call
  BY <1>1, <1>2, <1>3, Zenon DEF NextPatch, Call
<1>5. /\ NextPatch(c).at = "matching" /\ NextPatch(c).cur = call[c].cur
      /\ NextPatch(c).serial = call[c].serial /\ NextPatch(c).effects = call[c].effects
      /\ NextPatch(c).rows = call[c].rows
      /\ NextPatch(c).patch = After(call[c].cur, call[c].patch)
  BY <1>1, Zenon DEF NextPatch, Call
<1> QED BY <1>1, <1>4, <1>5 DEF Fits, Recovering

LEMMA RecoveryReceiptTrue ==
    ASSUME Typed, NEW c \in Calls, OneImage(call[c].effects)
    PROVE  /\ RecoveryReceipt(c).by = "recover"
           /\ RecoveryReceipt(c).effects = call[c].effects
           /\ Imaged(RecoveryReceipt(c))
<1>0. call[c].effects \in SUBSET Effect
  BY DEF Typed, TypeOK, Call
<1>1. ASSUME NEW e \in call[c].effects
      PROVE  RecoveryReceipt(c).images[e.patch] = e.after
  <2>1. e.patch \in Written(c) /\ e.patch \in Patches
    BY <1>0, <1>1 DEF Written, Effect
  <2>2. WrittenAs(c, e.patch) = e.after
    BY <1>1 DEF WrittenAs, OneImage
  <2> QED BY <2>1, <2>2 DEF RecoveryReceipt
<1> QED BY <1>1 DEF RecoveryReceipt, Imaged

LEMMA CallKept ==
    ASSUME Typed, NEW c \in Calls, NEW r, Fits(r), call' = [call EXCEPT ![c] = r]
    PROVE  call' \in [Calls -> Call] /\ Framed'
BY DEF Typed, TypeOK, Framed, Fits

LEMMA ReleasedType ==
    ASSUME Typed, NEW id PROVE Released(id) \in Lease
BY LogAssumption DEF Typed, TypeOK, Released, Lease, NoLease

LEMMA HeldType ==
    ASSUME Typed, CallsLeft, NEW c \in Calls
    PROVE  /\ LeaseId(serial + 1) \in 0..MaxCalls
           /\ [id |-> LeaseId(serial + 1), pid |-> c] \in Lease
           /\ serial + 1 \in Serials
BY LogAssumption DEF Typed, TypeOK, CallsLeft, LeaseId, Lease, Serials

\* The cursor that a call stores when it is done with the chunk.
LEMMA CursorType ==
    ASSUME Typed, NEW c \in Calls, call[c].at \notin {"idle", "loaded", "aborting"}, NEW n \in Serials
    PROVE  /\ [call[c].cur EXCEPT !.index = @ + 1, !.checkpoint = n] \in Cursor
           /\ [call[c].cur EXCEPT !.blocked = TRUE, !.checkpoint = n] \in Cursor
<1>1. call[c].cur \in Cursor /\ call[c].cur.index \in 1..N /\ n \in 0..MaxCalls
  BY LogAssumption DEF Typed, TypeOK, Framed, Fits, Call, Serials
<1>2. call[c].cur.index + 1 \in 0..N + 1
  BY <1>1, LogAssumption
<1> QED BY <1>1, <1>2, Zenon DEF Cursor

LEMMA TypeStep ==
    ASSUME Typed, [Next]_vars
    PROVE  Typed'
<1> USE LogAssumption, NobodyAssumption
<1>1. ASSUME NEW c \in Calls, Plan(c) PROVE Typed'
  <2> DEFINE P == {i \in Patches : Matches(i)}
             r == [call[c] EXCEPT !.at = "loaded", !.cur = cursor']
  <2>1. cursor' = [NoCursor EXCEPT !.index = 1, !.plan = P]
    BY <1>1 DEF Plan
  <2>2. /\ P \in SUBSET Patches /\ 1 \in 0..N + 1 /\ NoCursor \in Cursor
        /\ call[c] \in Call
    BY LogAssumption DEF Cursor, NoCursor, Typed, TypeOK
  <2>3. cursor' \in Cursor /\ cursor'.index = 1
    <3> HIDE DEF P
    <3> QED BY <2>2, <2>1, Zenon DEF Cursor
  <2>4. r \in Call /\ r.at = "loaded" /\ r.cur = cursor'
    BY <2>2, <2>3, Zenon DEF Call, Stages
  <2>5. Fits(r)
    BY <2>3, <2>4, LogAssumption DEF Fits, Recovering
  <2>6. call' = [call EXCEPT ![c] = r]
    BY <1>1, Zenon DEF Plan
  <2>7. call' \in [Calls -> Call] /\ Framed'
    BY <2>5, <2>6, CallKept
  <2> QED BY <1>1, <2>3, <2>7 DEF Plan, Typed, TypeOK
<1>2. ASSUME NEW c \in Calls, Load(c) PROVE Typed'
  <2> DEFINE r == [call[c] EXCEPT !.at = "loaded", !.cur = cursor]
  <2>1. cursor \in Cursor /\ cursor.index \in 1..N /\ call[c] \in Call
    BY <1>2, Pointed DEF Load, InProgress, Typed, TypeOK
  <2>2. r \in Call /\ r.at = "loaded" /\ r.cur = cursor
    BY <2>1, Zenon DEF Call, Stages
  <2>3. Fits(r)
    BY <2>1, <2>2 DEF Fits, Recovering
  <2>4. call' = [call EXCEPT ![c] = r]
    BY <1>2, Zenon DEF Load
  <2>5. call' \in [Calls -> Call] /\ Framed'
    BY <2>3, <2>4, CallKept
  <2> QED BY <1>2, <2>5 DEF Load, Typed, TypeOK
<1>3. ASSUME NEW c \in Calls, LoadComplete(c) PROVE Typed'
  <2>1. Released(cursor.lease) \in Lease
    BY ReleasedType
  <2> QED BY <1>3, <2>1 DEF LoadComplete, Typed, TypeOK, Framed
<1>4. ASSUME NEW c \in Calls, Abort(c) PROVE Typed'
  <2> DEFINE r == [Idle EXCEPT !.at = "aborting", !.lease = cursor.lease]
  <2>1. Idle \in Call /\ cursor.lease \in 0..MaxCalls
    BY IdleFits, LogAssumption DEF Fits, Typed, TypeOK, Cursor
  <2>2. r \in Call /\ r.at = "aborting"
    BY <2>1, Zenon DEF Call, Stages
  <2>3. Fits(r)
    BY <2>2 DEF Fits, Recovering
  <2>4. call' = [call EXCEPT ![c] = r]
    BY <1>4 DEF Abort
  <2>5. call' \in [Calls -> Call] /\ Framed'
    BY <2>3, <2>4, CallKept
  <2>6. cursor.checkpoint # 0 => cursor.checkpoint \in Serials
    BY LogAssumption DEF Typed, TypeOK, Cursor, Serials
  <2>7. file' \in [Patches -> Image]
    BY <1>4, <2>6 DEF Abort, Typed, TypeOK, Saved
  <2>8. backup' \in [Serials -> [Patches -> Saved]]
    BY <1>4 DEF Abort, Typed, TypeOK, Saved
  <2>9. aborts' \in 0..MaxCalls
    BY <1>4, LogAssumption DEF Abort, CallsLeft, Typed, TypeOK
  <2> QED BY <1>4, <2>5, <2>7, <2>8, <2>9 DEF Abort, Typed, TypeOK
<1>5. ASSUME NEW c \in Calls, StartRecovery(c) PROVE Typed'
  <2> DEFINE id == LeaseId(serial + 1)
             r == [Idle EXCEPT !.at = "checking", !.cur = cursor, !.serial = serial + 1,
                               !.lease = id, !.effects = Interrupted, !.rows = receipts]
  <2>1. /\ id \in 0..MaxCalls /\ lease' \in Lease /\ serial + 1 \in Serials
        /\ serial + 1 \in 0..MaxCalls
    BY <1>5, HeldType, LogAssumption DEF StartRecovery, Serials
  <2>2. cursor \in Cursor /\ cursor.index \in 1..N
    BY <1>5, Pointed DEF StartRecovery, InProgress, Typed, TypeOK
  <2>3. Interrupted \subseteq Effect /\ Interrupted # {} /\ receipts \subseteq Receipt
    BY <1>5 DEF StartRecovery, Interrupted, Complete, Typed, TypeOK
  <2>4. Idle \in Call
    BY IdleFits DEF Fits
  <2>5. /\ r \in Call /\ r.at = "checking" /\ r.cur = cursor /\ r.serial = serial + 1
        /\ r.effects = Interrupted
    BY <2>1, <2>2, <2>3, <2>4, Zenon DEF Call, Stages
  <2>6. Fits(r)
    BY <2>1, <2>2, <2>3, <2>5 DEF Fits, Recovering
  <2>7. call' = [call EXCEPT ![c] = r]
    BY <1>5 DEF StartRecovery
  <2>8. call' \in [Calls -> Call] /\ Framed'
    BY <2>6, <2>7, CallKept
  <2> QED BY <1>5, <2>1, <2>8 DEF StartRecovery, Typed, TypeOK
<1>6. ASSUME NEW c \in Calls, Admit(c) PROVE Typed'
  <2> DEFINE id == LeaseId(serial + 1)
             r == [call[c] EXCEPT !.at = "matching", !.cur = cursor', !.serial = serial + 1,
                                  !.lease = id, !.patch = After(call[c].cur, 0)]
  <2>1. /\ id \in 0..MaxCalls /\ lease' \in Lease /\ serial + 1 \in Serials
        /\ serial + 1 \in 0..MaxCalls
    BY <1>6, HeldType, LogAssumption DEF Admit, Serials
  <2>2. call[c] \in Call /\ call[c].cur \in Cursor /\ call[c].cur.index \in 1..N
    BY <1>6 DEF Admit, Typed, TypeOK, Framed, Fits, Call
  <2>3. cursor' = [call[c].cur EXCEPT !.lease = id]
    BY <1>6 DEF Admit
  <2>4. cursor' \in Cursor /\ cursor'.index = call[c].cur.index
    BY <2>1, <2>2, <2>3, Zenon DEF Cursor
  <2>5. After(call[c].cur, 0) \in 0..N + 1
    BY <2>2, AfterType, LogAssumption
  <2>6. r \in Call /\ r.at = "matching" /\ r.cur = cursor' /\ r.serial = serial + 1
    BY <2>1, <2>2, <2>4, <2>5, Zenon DEF Call, Stages
  <2>7. Fits(r)
    BY <2>1, <2>2, <2>4, <2>6 DEF Fits, Recovering
  <2>8. call' = [call EXCEPT ![c] = r]
    BY <1>6, Zenon DEF Admit
  <2>9. call' \in [Calls -> Call] /\ Framed'
    BY <2>7, <2>8, CallKept
  <2> QED BY <1>6, <2>1, <2>4, <2>9 DEF Admit, Typed, TypeOK
<1>7. ASSUME NEW c \in Calls, MatchPatch(c) PROVE Typed'
  <2> DEFINE i == call[c].patch
             r == [call[c] EXCEPT !.at = "matched", !.after = Patched(file[i])]
  <2>1. i \in Patches /\ call[c].at = "matching"
    BY <1>7 DEF MatchPatch, At
  <2>2. call[c] \in Call /\ Fits(call[c]) /\ file[i] \in Image /\ call[c].serial \in Serials
    BY <2>1 DEF Typed, TypeOK, Framed, Fits
  <2>3. Patched(file[i]) \in Image /\ Patched(file[i]) \in Saved /\ file[i] \in Saved
    BY <2>2 DEF Patched, Image, Saved
  <2>4. /\ r \in Call /\ r.at = "matched" /\ r.after = Patched(file[i]) /\ r.patch = i
        /\ r.cur = call[c].cur /\ r.serial = call[c].serial
    BY <2>2, <2>3, Zenon DEF Call, Stages
  <2>5. Fits(r)
    BY <2>1, <2>2, <2>3, <2>4 DEF Fits, Recovering
  <2>6. call' = [call EXCEPT ![c] = r]
    BY <1>7, Zenon DEF MatchPatch
  <2>7. call' \in [Calls -> Call] /\ Framed'
    BY <2>5, <2>6, CallKept
  <2>8. backup' \in [Serials -> [Patches -> Saved]]
    BY <1>7, <2>1, <2>2, <2>3 DEF MatchPatch, BackUp, Typed, TypeOK
  <2> QED BY <1>7, <2>7, <2>8 DEF MatchPatch, Typed, TypeOK
<1>8. ASSUME NEW c \in Calls, SkipPatch(c) PROVE Typed'
  <2>1. Fits(NextPatch(c))
    BY <1>8, NextFits DEF SkipPatch, At
  <2>2. call' = [call EXCEPT ![c] = NextPatch(c)]
    BY <1>8 DEF SkipPatch, At
  <2>3. call' \in [Calls -> Call] /\ Framed'
    BY <2>1, <2>2, CallKept
  <2> QED BY <1>8, <2>3 DEF SkipPatch, At, Typed, TypeOK
<1>9. ASSUME NEW c \in Calls, Prepare(c) PROVE Typed'
  <2> DEFINE r == [call[c] EXCEPT !.at = "prepared", !.effects = @ \cup {Intent(c)}]
  <2>1. Intent(c) \in Effect /\ call[c].at = "matched"
    BY <1>9, IntentType DEF Prepare, At
  <2>2. call[c] \in Call /\ Fits(call[c]) /\ call[c].effects \in SUBSET Effect
    BY DEF Typed, TypeOK, Framed, Call
  <2>3. call[c].effects \cup {Intent(c)} \in SUBSET Effect
    BY <2>1, <2>2
  <2>4. /\ r \in Call /\ r.at = "prepared" /\ r.after = call[c].after /\ r.patch = call[c].patch
        /\ r.cur = call[c].cur /\ r.serial = call[c].serial
    BY <2>2, <2>3, Zenon DEF Call, Stages
  <2>5. Fits(r)
    BY <2>1, <2>2, <2>4 DEF Fits, Recovering
  <2>6. call' = [call EXCEPT ![c] = r]
    BY <1>9, Zenon DEF Prepare
  <2>7. call' \in [Calls -> Call] /\ Framed'
    BY <2>5, <2>6, CallKept
  <2> QED BY <1>9, <2>1, <2>7 DEF Prepare, Typed, TypeOK
<1>10. ASSUME NEW c \in Calls, PrepareNothing(c) PROVE Typed'
  <2>1. Fits(call[c]) /\ call[c].at \notin {"idle", "loaded", "aborting"}
    BY <1>10 DEF PrepareNothing, At, Typed, Framed
  <2>2. Fits([call[c] EXCEPT !.at = "prepared"])
    BY <1>10, <2>1, StageFits DEF PrepareNothing, At, Stages, Recovering, Fits
  <2>3. call' = [call EXCEPT ![c] = [call[c] EXCEPT !.at = "prepared"]]
    BY <1>10, Zenon DEF PrepareNothing, At
  <2>4. call' \in [Calls -> Call] /\ Framed'
    BY <2>2, <2>3, CallKept
  <2> QED BY <1>10, <2>4 DEF PrepareNothing, At, Typed, TypeOK
<1>11. ASSUME NEW c \in Calls, PrepareRefused(c) PROVE Typed'
  <2>1. Fits(NextPatch(c)) /\ Fits(Idle)
    BY <1>11, NextFits, IdleFits DEF PrepareRefused, At
  <2>2. call' = [call EXCEPT ![c] = Idle] \/ call' = [call EXCEPT ![c] = NextPatch(c)]
    BY <1>11 DEF PrepareRefused, Ends
  <2>3. call' \in [Calls -> Call] /\ Framed'
    BY <2>1, <2>2, CallKept
  <2> QED BY <1>11, <2>3 DEF PrepareRefused, Typed, TypeOK
<1>12. ASSUME NEW c \in Calls, Write(c) PROVE Typed'
  <2>1. Fits(call[c]) /\ call[c].at = "fenced"
    BY <1>12 DEF Write, At, Typed, Framed
  <2>2. call[c].patch \in Patches /\ call[c].after \in Image
    BY <2>1 DEF Fits
  <2>3. Fits([call[c] EXCEPT !.at = "written"])
    BY <2>1, <2>2, StageFits DEF Stages, Recovering
  <2>4. call' = [call EXCEPT ![c] = [call[c] EXCEPT !.at = "written"]]
    BY <1>12, Zenon DEF Write
  <2>5. call' \in [Calls -> Call] /\ Framed'
    BY <2>3, <2>4, CallKept
  <2>6. file' \in [Patches -> Image] /\ landed' \subseteq Patches \X Image
    BY <1>12, <2>2 DEF Write, Typed, TypeOK
  <2> QED BY <1>12, <2>5, <2>6 DEF Write, Typed, TypeOK
<1>13. ASSUME NEW c \in Calls, WriteRefused(c) PROVE Typed'
  <2>1. call' = [call EXCEPT ![c] = Idle]
    BY <1>13 DEF WriteRefused, At, Ends
  <2>2. call' \in [Calls -> Call] /\ Framed'
    BY <2>1, IdleFits, CallKept
  <2> QED BY <1>13, <2>2 DEF WriteRefused, At, Ends, Typed, TypeOK
<1>14. ASSUME NEW c \in Calls, ChunkApplied(c) PROVE Typed'
  <2>1. PICK stage \in {"verifying", "signing", "saving"} : call' = [call EXCEPT ![c].at = stage]
    BY <1>14 DEF ChunkApplied
  <2>2. Fits(call[c]) /\ call[c].at \notin {"idle", "loaded", "aborting"}
    BY <1>14 DEF ChunkApplied, At, Typed, Framed
  <2>3. Fits([call[c] EXCEPT !.at = stage])
    BY <2>2, StageFits DEF Stages, Recovering
  <2>4. call' = [call EXCEPT ![c] = [call[c] EXCEPT !.at = stage]]
    BY <2>1, Zenon
  <2>5. call' \in [Calls -> Call] /\ Framed'
    BY <2>3, <2>4, CallKept
  <2> QED BY <1>14, <2>5 DEF ChunkApplied, Typed, TypeOK
<1>15. ASSUME NEW c \in Calls, VerifyPasses(c) PROVE Typed'
  <2>1. Fits(call[c]) /\ call[c].at \notin {"idle", "loaded", "aborting"}
    BY <1>15 DEF VerifyPasses, At, Typed, Framed
  <2>2. Fits([call[c] EXCEPT !.at = "signing"])
    BY <1>15, <2>1, StageFits DEF VerifyPasses, At, Stages, Recovering, Fits
  <2>3. call' = [call EXCEPT ![c] = [call[c] EXCEPT !.at = "signing"]]
    BY <1>15, Zenon DEF VerifyPasses, At
  <2>4. call' \in [Calls -> Call] /\ Framed'
    BY <2>2, <2>3, CallKept
  <2> QED BY <1>15, <2>4 DEF VerifyPasses, At, Typed, TypeOK
<1>16. ASSUME NEW c \in Calls, VerifyFails(c) PROVE Typed'
  <2>1. Fits(call[c]) /\ call[c].at \notin {"idle", "loaded", "aborting"}
    BY <1>16 DEF VerifyFails, At, Typed, Framed
  <2>2. Fits([call[c] EXCEPT !.at = "rolledback"])
    BY <1>16, <2>1, StageFits DEF VerifyFails, At, Stages, Recovering, Fits
  <2>3. call' = [call EXCEPT ![c] = [call[c] EXCEPT !.at = "rolledback"]]
    BY <1>16, Zenon DEF VerifyFails, At
  <2>4. call' \in [Calls -> Call] /\ Framed'
    BY <2>2, <2>3, CallKept
  <2>5. call[c].serial \in Serials
    BY <2>1 DEF Fits
  <2>6. file' \in [Patches -> Image]
    BY <1>16, <2>5 DEF VerifyFails, Typed, TypeOK, Saved
  <2>7. backup' \in [Serials -> [Patches -> Saved]]
    BY <1>16, <2>5 DEF VerifyFails, Typed, TypeOK, Saved
  <2> QED BY <1>16, <2>4, <2>6, <2>7 DEF VerifyFails, At, Typed, TypeOK
<1>17. ASSUME NEW c \in Calls, ClearCursor(c) PROVE Typed'
  <2>1. call' = [call EXCEPT ![c] = Idle]
    BY <1>17 DEF ClearCursor, At, Ends, Released
  <2>2. call' \in [Calls -> Call] /\ Framed'
    BY <2>1, IdleFits, CallKept
  <2>3. Released(call[c].lease) \in Lease /\ NoCursor \in Cursor
    BY ReleasedType, LogAssumption DEF Cursor, NoCursor
  <2> QED BY <1>17, <2>2, <2>3 DEF ClearCursor, At, Ends, Typed, TypeOK
<1>18. ASSUME NEW c \in Calls, SignChunk(c) PROVE Typed'
  <2>1. Fits(call[c]) /\ call[c].at \notin {"idle", "loaded", "aborting"}
    BY <1>18 DEF SignChunk, At, Typed, Framed
  <2>2. Fits([call[c] EXCEPT !.at = "saving"])
    BY <1>18, <2>1, StageFits DEF SignChunk, At, Stages, Recovering, Fits
  <2>3. call' = [call EXCEPT ![c] = [call[c] EXCEPT !.at = "saving"]]
    BY <1>18, Zenon DEF SignChunk, At
  <2>4. call' \in [Calls -> Call] /\ Framed'
    BY <2>2, <2>3, CallKept
  <2>5. ChunkReceipt(c) \in Receipt
    BY <2>1, ReceiptTypes
  <2> QED BY <1>18, <2>4, <2>5 DEF SignChunk, At, Typed, TypeOK
<1>19. ASSUME NEW c \in Calls, SignFails(c) PROVE Typed'
  <2> DEFINE r == [call[c] EXCEPT !.at = "restoring", !.targets = Capture(c)]
  <2>1. call[c] \in Call /\ Fits(call[c]) /\ call[c].at \in {"signing", "matched"}
    BY <1>19 DEF SignFails, At, Typed, TypeOK, Framed
  <2>2. ChunkReceipt(c) \in Receipt /\ Capture(c) \in [Patches -> Saved]
    BY <2>1, ReceiptTypes
  <2>3. ~At(c, "signing") => Intent(c) \in Effect
    BY <1>19, IntentType DEF SignFails
  <2>4. /\ r \in Call /\ r.at = "restoring" /\ r.cur = call[c].cur
        /\ r.serial = call[c].serial
    BY <2>1, <2>2, Zenon DEF Call, Stages
  <2>5. Fits(r)
    BY <2>1, <2>4 DEF Fits, Recovering
  <2>6. call' = [call EXCEPT ![c] = r]
    BY <1>19, Zenon DEF SignFails
  <2>7. call' \in [Calls -> Call] /\ Framed'
    BY <2>5, <2>6, CallKept
  <2>8. intents' \subseteq Effect /\ receipts' \subseteq Receipt
    BY <1>19, <2>2, <2>3 DEF SignFails, Typed, TypeOK
  <2>9. faults' \in 0..MaxFaults
    BY <1>19, LogAssumption DEF SignFails, Fault, Typed, TypeOK
  <2> QED BY <1>19, <2>7, <2>8, <2>9 DEF SignFails, Typed, TypeOK
<1>20. ASSUME NEW c \in Calls, RestoreOwn(c) PROVE Typed'
  <2>1. Fits(call[c]) /\ call[c].at \notin {"idle", "loaded", "aborting"}
    BY <1>20 DEF RestoreOwn, At, Typed, Framed
  <2>2. Fits([call[c] EXCEPT !.at = "blocking"])
    BY <1>20, <2>1, StageFits DEF RestoreOwn, At, Stages, Recovering, Fits
  <2>3. call' = [call EXCEPT ![c] = [call[c] EXCEPT !.at = "blocking"]]
    BY <1>20, Zenon DEF RestoreOwn, At
  <2>4. call' \in [Calls -> Call] /\ Framed'
    BY <2>2, <2>3, CallKept
  <2>5. call[c].serial \in Serials
    BY <2>1 DEF Fits
  <2>6. \A i \in Patches : Restorable(c, i) => backup[call[c].serial][i] # NoImage
    BY DEF Restorable
  <2>7. file' \in [Patches -> Image]
    BY <1>20, <2>5, <2>6 DEF RestoreOwn, Typed, TypeOK, Saved
  <2> QED BY <1>20, <2>4, <2>7 DEF RestoreOwn, At, Typed, TypeOK
<1>21. ASSUME NEW c \in Calls, Block(c) PROVE Typed'
  <2>1. call' = [call EXCEPT ![c] = Idle]
    BY <1>21 DEF Block, At, Ends, Released
  <2>2. call' \in [Calls -> Call] /\ Framed'
    BY <2>1, IdleFits, CallKept
  <2>3. cursor' \in Cursor
    BY <1>21, CursorType DEF Block, At, Typed, Framed, Fits
  <2>4. Released(call[c].lease) \in Lease
    BY ReleasedType
  <2> QED BY <1>21, <2>2, <2>3, <2>4 DEF Block, At, Ends, Typed, TypeOK
<1>22. ASSUME NEW c \in Calls, Save(c) PROVE Typed'
  <2>1. call' = [call EXCEPT ![c] = Idle]
    BY <1>22 DEF Save, At, Ends
  <2>2. call' \in [Calls -> Call] /\ Framed'
    BY <2>1, IdleFits, CallKept
  <2>3. cursor' \in Cursor
    BY <1>22, CursorType DEF Save, At, Typed, Framed, Fits
  <2> QED BY <1>22, <2>2, <2>3 DEF Save, At, Ends, Typed, TypeOK
<1>23. ASSUME NEW c \in Calls, CheckPostimages(c) PROVE Typed'
  <2> DEFINE stage == IF SignedBefore(c) THEN "rechecking" ELSE "attesting"
  <2>1. Fits(call[c]) /\ call[c].at = "checking" /\ call[c].effects # {}
    BY <1>23 DEF CheckPostimages, At, Typed, Framed, Fits, Recovering
  <2>2. Fits([call[c] EXCEPT !.at = stage])
    BY <2>1, StageFits DEF Stages
  <2>3. call' = [call EXCEPT ![c] = [call[c] EXCEPT !.at = stage]]
    BY <1>23, Zenon DEF CheckPostimages
  <2>4. call' \in [Calls -> Call] /\ Framed'
    BY <2>2, <2>3, CallKept
  <2> QED BY <1>23, <2>4 DEF CheckPostimages, Typed, TypeOK
<1>24. ASSUME NEW c \in Calls, SignRecovery(c) PROVE Typed'
  <2>1. Fits(call[c]) /\ call[c].at \notin {"idle", "loaded", "aborting"}
    BY <1>24 DEF SignRecovery, At, Typed, Framed
  <2>2. Fits([call[c] EXCEPT !.at = "rechecking"])
    BY <1>24, <2>1, StageFits DEF SignRecovery, At, Stages, Recovering, Fits
  <2>3. call' = [call EXCEPT ![c] = [call[c] EXCEPT !.at = "rechecking"]]
    BY <1>24, Zenon DEF SignRecovery, At
  <2>4. call' \in [Calls -> Call] /\ Framed'
    BY <2>2, <2>3, CallKept
  <2>5. RecoveryReceipt(c) \in Receipt
    BY <2>1, ReceiptTypes
  <2> QED BY <1>24, <2>4, <2>5 DEF SignRecovery, At, Typed, TypeOK
<1>25. ASSUME NEW c \in Calls, SignRecoveryFails(c) PROVE Typed'
  <2>1. call' = [call EXCEPT ![c] = Idle]
    BY <1>25 DEF SignRecoveryFails, At, Fault, Quit, Ends, Released
  <2>2. call' \in [Calls -> Call] /\ Framed'
    BY <2>1, IdleFits, CallKept
  <2>3. lease' \in Lease /\ locked' \in Calls \cup {Nobody}
    BY <1>25, ReleasedType DEF SignRecoveryFails, Quit
  <2>4. RecoveryReceipt(c) \in Receipt
    BY <1>25, ReceiptTypes DEF SignRecoveryFails, At
  <2>5. receipts' \subseteq Receipt
    BY <1>25, <2>4 DEF SignRecoveryFails, Typed, TypeOK
  <2>6. faults' \in 0..MaxFaults
    BY <1>25, LogAssumption DEF SignRecoveryFails, Fault, Typed, TypeOK
  <2> QED BY <1>25, <2>2, <2>3, <2>5, <2>6 DEF SignRecoveryFails, At, Typed, TypeOK
<1>26. ASSUME NEW c \in Calls, RecheckPostimages(c) PROVE Typed'
  <2>1. Fits(call[c]) /\ call[c].at \notin {"idle", "loaded", "aborting"}
    BY <1>26 DEF RecheckPostimages, At, Typed, Framed
  <2>2. Fits([call[c] EXCEPT !.at = "comparing"])
    BY <1>26, <2>1, StageFits DEF RecheckPostimages, At, Stages, Recovering, Fits
  <2>3. call' = [call EXCEPT ![c] = [call[c] EXCEPT !.at = "comparing"]]
    BY <1>26, Zenon DEF RecheckPostimages, At
  <2>4. call' \in [Calls -> Call] /\ Framed'
    BY <2>2, <2>3, CallKept
  <2> QED BY <1>26, <2>4 DEF RecheckPostimages, At, Typed, TypeOK
<1>27. ASSUME NEW c \in Calls, PostimageChanged(c) PROVE Typed'
  <2>1. call' = [call EXCEPT ![c] = Idle]
    BY <1>27 DEF PostimageChanged, At, Quit, Ends, Released
  <2>2. call' \in [Calls -> Call] /\ Framed'
    BY <2>1, IdleFits, CallKept
  <2>3. lease' \in Lease /\ locked' \in Calls \cup {Nobody}
    BY <1>27, ReleasedType DEF PostimageChanged, Quit
  <2> QED BY <1>27, <2>2, <2>3 DEF PostimageChanged, Typed, TypeOK
<1>28. ASSUME NEW c \in Calls, CompareCursor(c) PROVE Typed'
  <2>1. CASE cursor = call[c].cur
    <3>1. Fits(call[c]) /\ call[c].at = "comparing" /\ call[c].effects # {}
      BY <1>28 DEF CompareCursor, At, Typed, Framed, Fits, Recovering
    <3>2. Fits([call[c] EXCEPT !.at = "advancing"])
      BY <3>1, StageFits DEF Stages
    <3>3. call' = [call EXCEPT ![c] = [call[c] EXCEPT !.at = "advancing"]]
      BY <1>28, <2>1, Zenon DEF CompareCursor
    <3>4. call' \in [Calls -> Call] /\ Framed'
      BY <3>2, <3>3, CallKept
    <3> QED BY <1>28, <2>1, <3>4 DEF CompareCursor, Typed, TypeOK
  <2>2. CASE cursor # call[c].cur
    <3>1. call' = [call EXCEPT ![c] = Idle]
      BY <1>28, <2>2 DEF CompareCursor, Quit, Ends
    <3>2. call' \in [Calls -> Call] /\ Framed'
      BY <3>1, IdleFits, CallKept
    <3>3. lease' \in Lease /\ locked' \in Calls \cup {Nobody}
      BY <1>28, <2>2, ReleasedType DEF CompareCursor, Quit
    <3> QED BY <1>28, <3>2, <3>3 DEF CompareCursor, Typed, TypeOK
  <2> QED BY <2>1, <2>2
<1>29. ASSUME NEW c \in Calls, Advance(c) PROVE Typed'
  <2>1. call' = [call EXCEPT ![c] = Idle]
    BY <1>29 DEF Advance, At, Quit, Ends, Released
  <2>2. call' \in [Calls -> Call] /\ Framed'
    BY <2>1, IdleFits, CallKept
  <2>3. lease' \in Lease /\ locked' \in Calls \cup {Nobody}
    BY <1>29, ReleasedType DEF Advance, Quit
  <2>4. CheckpointOf(call[c].effects) \in Serials
    <3>1. call[c].effects # {} /\ call[c].effects \in SUBSET Effect
      BY <1>29 DEF Advance, At, Typed, TypeOK, Framed, Fits, Call, Recovering
    <3> QED BY <3>1 DEF CheckpointOf, Effect
  <2>5. cursor' \in Cursor
    BY <1>29, <2>4, CursorType DEF Advance, At
  <2> QED BY <1>29, <2>2, <2>3, <2>5 DEF Advance, Typed, TypeOK
<1>30. ASSUME NEW i \in Patches, Edit(i) PROVE Typed'
  <2>1. PICK b \in BOOLEAN : file' = [file EXCEPT ![i] = [patched |-> b, rev |-> faults + 1]]
    BY <1>30 DEF Edit
  <2>2. [patched |-> b, rev |-> faults + 1] \in Image
    BY <1>30 DEF Edit, Fault, Image, Typed, TypeOK
  <2> QED BY <1>30, <2>1, <2>2 DEF Edit, Fault, Typed, TypeOK, Framed
<1>31. CASE LeaseExpires
  <2>1. NoLease \in Lease
    BY LogAssumption DEF Lease, NoLease
  <2> QED BY <1>31, <2>1 DEF LeaseExpires, Fault, Typed, TypeOK, Framed
<1>32. ASSUME NEW c \in Calls, Crash(c) PROVE Typed'
  <2>1. call' = [call EXCEPT ![c] = Idle]
    BY <1>32 DEF Crash, Fault, Ends
  <2>2. call' \in [Calls -> Call] /\ Framed'
    BY <2>1, IdleFits, CallKept
  <2>3. lease' \in Lease
    BY <1>32, LogAssumption DEF Crash, Typed, TypeOK, Lease, NoLease
  <2> QED BY <1>32, <2>2, <2>3 DEF Crash, Fault, Ends, Typed, TypeOK
<1>33. CASE UNCHANGED vars
  BY <1>33 DEF vars, Typed, TypeOK, Framed
<1>34. ASSUME NEW c \in Calls, EnterFence(c) PROVE Typed'
  <2>1. Fits(call[c]) /\ call[c].at = "prepared"
    BY <1>34 DEF EnterFence, At, Typed, Framed
  <2>2. Fits([call[c] EXCEPT !.at = "fenced"])
    BY <2>1, StageFits DEF Fits, Stages, Recovering
  <2>3. call' = [call EXCEPT ![c] = [call[c] EXCEPT !.at = "fenced"]]
    BY <1>34, Zenon DEF EnterFence
  <2>4. call' \in [Calls -> Call] /\ Framed'
    BY <2>2, <2>3, CallKept
  <2> QED BY <1>34, <2>4 DEF EnterFence, Typed, TypeOK
<1>35. ASSUME NEW c \in Calls, WrittenEffect(c) PROVE Typed'
  <2>1. Fits(NextPatch(c)) /\ Fits(Idle)
    BY <1>35, NextFits, IdleFits DEF WrittenEffect, At
  <2>2. call' = [call EXCEPT ![c] = Idle] \/ call' = [call EXCEPT ![c] = NextPatch(c)]
    BY <1>35 DEF WrittenEffect, Ends
  <2>3. call' \in [Calls -> Call] /\ Framed'
    BY <2>1, <2>2, CallKept
  <2> QED BY <1>35, <2>3 DEF WrittenEffect, Typed, TypeOK
<1>36. ASSUME NEW c \in Calls, Aborted(c) PROVE Typed'
  <2>1. call' = [call EXCEPT ![c] = Idle]
    BY <1>36 DEF Aborted, Ends
  <2>2. call' \in [Calls -> Call] /\ Framed'
    BY <2>1, IdleFits, CallKept
  <2>3. Released(call[c].lease) \in Lease /\ NoCursor \in Cursor
    BY ReleasedType, LogAssumption DEF Cursor, NoCursor
  <2> QED BY <1>36, <2>2, <2>3 DEF Aborted, Typed, TypeOK
<1> QED
  BY <1>1, <1>2, <1>3, <1>4, <1>5, <1>6, <1>7, <1>8, <1>9, <1>10, <1>11,
     <1>12, <1>13, <1>14, <1>15, <1>16, <1>17, <1>18, <1>19, <1>20, <1>21,
     <1>22, <1>23, <1>24, <1>25, <1>26, <1>27, <1>28, <1>29, <1>30, <1>31,
     <1>32, <1>33, <1>34, <1>35, <1>36 DEF Next, ApplyStep, RecoverStep

LEMMA FromLedgerStep ==
    ASSUME Typed, FromLedger, [Next]_vars
    PROVE  FromLedger'
<1>0. call \in [Calls -> Call]
  BY DEF Typed, TypeOK
<1>1. ASSUME NEW c \in Calls, Plan(c) PROVE FromLedger'
  <2>1. /\ call[c].at = "idle" /\ call'[c].at = "loaded" /\ call'[c].rows = call[c].rows
        /\ call'[c].effects = call[c].effects
        /\ \A d \in Calls \ {c} : call'[d] = call[d]
    BY <1>0, <1>1 DEF Plan, Call
  <2>2. UNCHANGED <<intents, receipts>>
    BY <1>1 DEF Plan
  <2> QED BY <2>1, <2>2 DEF FromLedger, Recovering
<1>2. ASSUME NEW c \in Calls, Load(c) PROVE FromLedger'
  BY <1>2, <1>0 DEF Load, FromLedger, Idle, Call, Recovering
<1>3. ASSUME NEW c \in Calls, LoadComplete(c) PROVE FromLedger'
  BY <1>3, <1>0 DEF LoadComplete, Released, FromLedger, Idle, Call, Recovering
<1>4. ASSUME NEW c \in Calls, Abort(c) PROVE FromLedger'
  BY <1>4, <1>0 DEF Abort, Released, FromLedger, Idle, Call, Recovering
<1>5. ASSUME NEW c \in Calls, StartRecovery(c) PROVE FromLedger'
  <2>1. Interrupted \subseteq intents
    BY DEF Interrupted
  <2>2. /\ call'[c].effects = Interrupted /\ call'[c].rows = receipts
        /\ \A d \in Calls \ {c} : call'[d] = call[d]
    BY <1>0, <1>5 DEF StartRecovery, Idle
  <2>3. UNCHANGED <<intents, receipts>>
    BY <1>5 DEF StartRecovery
  <2> QED BY <2>1, <2>2, <2>3 DEF FromLedger
<1>6. ASSUME NEW c \in Calls, Admit(c) PROVE FromLedger'
  BY <1>6, <1>0 DEF Admit, LeaseId, FromLedger, Idle, Call, Recovering
<1>7. ASSUME NEW c \in Calls, MatchPatch(c) PROVE FromLedger'
  BY <1>7, <1>0 DEF MatchPatch, At, BackUp, Patched, FromLedger, Idle, Call,
     Recovering
<1>8. ASSUME NEW c \in Calls, SkipPatch(c) PROVE FromLedger'
  BY <1>8, <1>0 DEF SkipPatch, At, NextPatch, FromLedger, Idle, Call,
     Recovering
<1>9. ASSUME NEW c \in Calls, Prepare(c) PROVE FromLedger'
  BY <1>9, <1>0 DEF Prepare, At, FromLedger, Idle, Call, Recovering
<1>10. ASSUME NEW c \in Calls, PrepareNothing(c) PROVE FromLedger'
  BY <1>10, <1>0 DEF PrepareNothing, At, FromLedger, Idle, Call, Recovering
<1>11. ASSUME NEW c \in Calls, PrepareRefused(c) PROVE FromLedger'
  <2>1. call[c].at = "matched" /\ UNCHANGED <<intents, receipts, locked>>
    BY <1>11 DEF PrepareRefused, At
  <2>2. /\ NextPatch(c).at = "matching" /\ NextPatch(c).effects = call[c].effects
        /\ NextPatch(c).rows = call[c].rows
    BY <2>1, NextFits
  <2>3. /\ call'[c] = Idle \/ call'[c] = NextPatch(c)
        /\ \A d \in Calls \ {c} : call'[d] = call[d]
    BY <1>0, <1>11 DEF PrepareRefused, Ends
  <2> QED BY <2>1, <2>2, <2>3 DEF FromLedger, Idle, Recovering
<1>12. ASSUME NEW c \in Calls, Write(c) PROVE FromLedger'
  BY <1>12, <1>0 DEF Write, At, FromLedger, Idle, Call, Recovering
<1>13. ASSUME NEW c \in Calls, WriteRefused(c) PROVE FromLedger'
  BY <1>13, <1>0 DEF WriteRefused, At, Ends, FromLedger, Idle, Call,
     Recovering
<1>14. ASSUME NEW c \in Calls, ChunkApplied(c) PROVE FromLedger'
  BY <1>14, <1>0 DEF ChunkApplied, At, FromLedger, Idle, Call, Recovering
<1>15. ASSUME NEW c \in Calls, VerifyPasses(c) PROVE FromLedger'
  BY <1>15, <1>0 DEF VerifyPasses, At, FromLedger, Idle, Call, Recovering
<1>16. ASSUME NEW c \in Calls, VerifyFails(c) PROVE FromLedger'
  BY <1>16, <1>0 DEF VerifyFails, At, FromLedger, Idle, Call, Recovering
<1>17. ASSUME NEW c \in Calls, ClearCursor(c) PROVE FromLedger'
  BY <1>17, <1>0 DEF ClearCursor, At, Ends, Released, FromLedger, Idle, Call,
     Recovering
<1>18. ASSUME NEW c \in Calls, SignChunk(c) PROVE FromLedger'
  BY <1>18, <1>0 DEF SignChunk, At, FromLedger, Idle, Call, Recovering
<1>19. ASSUME NEW c \in Calls, SignFails(c) PROVE FromLedger'
  BY <1>19, <1>0 DEF SignFails, At, Fault, FromLedger, Idle, Call, Recovering
<1>20. ASSUME NEW c \in Calls, RestoreOwn(c) PROVE FromLedger'
  BY <1>20, <1>0 DEF RestoreOwn, At, FromLedger, Idle, Call, Recovering
<1>21. ASSUME NEW c \in Calls, Block(c) PROVE FromLedger'
  BY <1>21, <1>0 DEF Block, At, Ends, Released, FromLedger, Idle, Call,
     Recovering
<1>22. ASSUME NEW c \in Calls, Save(c) PROVE FromLedger'
  BY <1>22, <1>0 DEF Save, At, Ends, FromLedger, Idle, Call, Recovering
<1>23. ASSUME NEW c \in Calls, CheckPostimages(c) PROVE FromLedger'
  BY <1>23, <1>0 DEF CheckPostimages, At, FromLedger, Idle, Call, Recovering
<1>24. ASSUME NEW c \in Calls, SignRecovery(c) PROVE FromLedger'
  BY <1>24, <1>0 DEF SignRecovery, At, FromLedger, Idle, Call, Recovering
<1>25. ASSUME NEW c \in Calls, SignRecoveryFails(c) PROVE FromLedger'
  BY <1>25, <1>0 DEF SignRecoveryFails, At, Fault, Quit, Ends, Released,
     FromLedger, Idle, Call, Recovering
<1>26. ASSUME NEW c \in Calls, RecheckPostimages(c) PROVE FromLedger'
  BY <1>26, <1>0 DEF RecheckPostimages, At, FromLedger, Idle, Call, Recovering
<1>27. ASSUME NEW c \in Calls, PostimageChanged(c) PROVE FromLedger'
  BY <1>27, <1>0 DEF PostimageChanged, At, Quit, Ends, Released, FromLedger,
     Idle, Call, Recovering
<1>28. ASSUME NEW c \in Calls, CompareCursor(c) PROVE FromLedger'
  <2>1. CASE cursor = call[c].cur
    <3>1. /\ call[c].at = "comparing" /\ call'[c] = [call[c] EXCEPT !.at = "advancing"]
          /\ \A d \in Calls \ {c} : call'[d] = call[d]
      BY <1>0, <1>28, <2>1 DEF CompareCursor, At
    <3> QED BY <1>0, <1>28, <3>1 DEF CompareCursor, Call, FromLedger, Recovering
  <2>2. CASE cursor # call[c].cur
    BY <1>0, <1>28, <2>2 DEF CompareCursor, Quit, Ends, Idle, Call, FromLedger, Recovering
  <2> QED BY <2>1, <2>2
<1>29. ASSUME NEW c \in Calls, Advance(c) PROVE FromLedger'
  BY <1>29, <1>0 DEF Advance, At, Quit, Ends, Released, FromLedger, Idle,
     Call, Recovering
<1>30. ASSUME NEW i \in Patches, Edit(i) PROVE FromLedger'
  BY <1>30, <1>0 DEF Edit, Fault, FromLedger, Idle, Call, Recovering
<1>31. CASE LeaseExpires
  BY <1>31, <1>0 DEF LeaseExpires, Fault, FromLedger, Idle, Call, Recovering
<1>32. ASSUME NEW c \in Calls, Crash(c) PROVE FromLedger'
  BY <1>32, <1>0 DEF Crash, Fault, Ends, FromLedger, Idle, Call, Recovering
<1>33. CASE UNCHANGED vars
  BY <1>33, <1>0 DEF vars, FromLedger, Idle, Call, Recovering
<1>34. ASSUME NEW c \in Calls, EnterFence(c) PROVE FromLedger'
  BY <1>34, <1>0 DEF EnterFence, At, FromLedger, Idle, Call, Recovering
<1>35. ASSUME NEW c \in Calls, WrittenEffect(c) PROVE FromLedger'
  <2>1. call[c].at = "written" /\ UNCHANGED <<intents, receipts, locked>>
    BY <1>35 DEF WrittenEffect, At
  <2>2. /\ NextPatch(c).at = "matching" /\ NextPatch(c).effects = call[c].effects
        /\ NextPatch(c).rows = call[c].rows
    BY <2>1, NextFits
  <2>3. /\ call'[c] = Idle \/ call'[c] = NextPatch(c)
        /\ \A d \in Calls \ {c} : call'[d] = call[d]
    BY <1>0, <1>35 DEF WrittenEffect, Ends
  <2> QED BY <2>1, <2>2, <2>3 DEF FromLedger, Idle, Recovering
<1>36. ASSUME NEW c \in Calls, Aborted(c) PROVE FromLedger'
  BY <1>36, <1>0 DEF Aborted, Ends, Released, FromLedger, Idle, Call, Recovering
<1> QED
  BY <1>1, <1>2, <1>3, <1>4, <1>5, <1>6, <1>7, <1>8, <1>9, <1>10, <1>11,
     <1>12, <1>13, <1>14, <1>15, <1>16, <1>17, <1>18, <1>19, <1>20, <1>21,
     <1>22, <1>23, <1>24, <1>25, <1>26, <1>27, <1>28, <1>29, <1>30, <1>31,
     <1>32, <1>33, <1>34, <1>35, <1>36 DEF Next, ApplyStep, RecoverStep

LEMMA OrderedStep ==
    ASSUME Typed, Ordered, [Next]_vars
    PROVE  Ordered'
<1>0. call \in [Calls -> Call]
  BY DEF Typed, TypeOK
<1>1. ASSUME NEW c \in Calls, Plan(c) PROVE Ordered'
  <2>1. /\ call[c].at = "idle" /\ call'[c].at = "loaded" /\ call'[c].rows = call[c].rows
        /\ call'[c].effects = call[c].effects
        /\ \A d \in Calls \ {c} : call'[d] = call[d]
    BY <1>0, <1>1 DEF Plan, Call
  <2>2. UNCHANGED <<intents, receipts>>
    BY <1>1 DEF Plan
  <2> QED BY <2>1, <2>2 DEF Ordered, Recovering
<1>2. ASSUME NEW c \in Calls, Load(c) PROVE Ordered'
  BY <1>2, <1>0 DEF Load, Ordered, Idle, Call, Recovering
<1>3. ASSUME NEW c \in Calls, LoadComplete(c) PROVE Ordered'
  BY <1>3, <1>0 DEF LoadComplete, Released, Ordered, Idle, Call, Recovering
<1>4. ASSUME NEW c \in Calls, Abort(c) PROVE Ordered'
  BY <1>4, <1>0 DEF Abort, Released, Ordered, Idle, Call, Recovering
<1>5. ASSUME NEW c \in Calls, StartRecovery(c) PROVE Ordered'
  BY <1>5, <1>0 DEF StartRecovery, LeaseId, Ordered, Idle, Call, Recovering
<1>6. ASSUME NEW c \in Calls, Admit(c) PROVE Ordered'
  <2>1. call[c].at = "loaded" /\ call[c].effects = {}
    BY <1>6 DEF Admit, Ordered
  <2>2. call'[c].effects = {} /\ \A d \in Calls \ {c} : call'[d] = call[d]
    BY <1>0, <1>6, <2>1 DEF Admit, Call
  <2> QED BY <2>2 DEF Ordered
<1>7. ASSUME NEW c \in Calls, MatchPatch(c) PROVE Ordered'
  BY <1>7, <1>0 DEF MatchPatch, At, BackUp, Patched, Ordered, Idle, Call,
     Recovering
<1>8. ASSUME NEW c \in Calls, SkipPatch(c) PROVE Ordered'
  <2>1. /\ call[c].at \in {"matching", "matched", "written"} /\ call[c].cur \in Cursor
        /\ call[c].patch \in 1..N
    BY <1>0, <1>8, LogAssumption DEF SkipPatch, At, Call, Patches, Typed, Framed, Fits
  <2>2. /\ NextPatch(c).at = "matching" /\ NextPatch(c).effects = call[c].effects
        /\ NextPatch(c).patch = After(call[c].cur, call[c].patch)
    BY <2>1, NextFits
  <2>3. /\ call'[c] = NextPatch(c)
        /\ \A d \in Calls \ {c} : call'[d] = call[d]
    BY <1>0, <1>8 DEF SkipPatch
  <2>4. /\ After(call[c].cur, call[c].patch) \in 1..N + 1
        /\ \/ After(call[c].cur, call[c].patch) > call[c].patch
           \/ After(call[c].cur, call[c].patch) = N + 1
    BY <2>1, AfterType, LogAssumption
  <2>5. \A e \in call[c].effects : e.patch \in 1..N /\ e.patch <= call[c].patch
    BY <1>0, <2>1 DEF Ordered, Call, Effect, Patches
  <2>6. \A e \in NextPatch(c).effects : e.patch < NextPatch(c).patch
    BY <2>1, <2>2, <2>4, <2>5, LogAssumption
  <2> QED BY <2>2, <2>3, <2>6 DEF Ordered, Idle
<1>9. ASSUME NEW c \in Calls, Prepare(c) PROVE Ordered'
  <2>1. /\ call[c].at = "matched" /\ call'[c].at = "prepared"
        /\ call'[c].effects = call[c].effects \cup {Intent(c)}
        /\ call'[c].patch = call[c].patch /\ call'[c].after = call[c].after
        /\ \A d \in Calls \ {c} : call'[d] = call[d]
    BY <1>0, <1>9 DEF Prepare, At, Call
  <2>2. \A e \in call[c].effects : e.patch < call[c].patch /\ e.patch \in Int
    BY <1>0, <2>1, LogAssumption DEF Ordered, Call, Effect, Patches
  <2>3. /\ call[c].patch \in Int
        /\ Intent(c).patch = call[c].patch /\ Intent(c).after = call[c].after
    BY <1>0, LogAssumption DEF Intent, Call
  <2>4. \A e \in call'[c].effects : /\ e.patch <= call[c].patch
                                    /\ e.patch = call[c].patch => e.after = call[c].after
    BY <2>1, <2>2, <2>3
  <2> QED BY <2>1, <2>4 DEF Ordered
<1>10. ASSUME NEW c \in Calls, PrepareNothing(c) PROVE Ordered'
  <2>1. /\ call[c].at = "matched" /\ call'[c].at = "prepared"
        /\ call'[c].effects = call[c].effects /\ call'[c].patch = call[c].patch
        /\ \A d \in Calls \ {c} : call'[d] = call[d]
    BY <1>0, <1>10 DEF PrepareNothing, At, Call
  <2>2. \A e \in call[c].effects : e.patch < call[c].patch /\ e.patch \in Int
    BY <1>0, <2>1, LogAssumption DEF Ordered, Call, Effect, Patches
  <2>3. call[c].patch \in Int
    BY <1>0, LogAssumption DEF Call
  <2>4. \A e \in call[c].effects : e.patch <= call[c].patch /\ e.patch # call[c].patch
    BY <2>2, <2>3
  <2> QED BY <2>1, <2>4 DEF Ordered
<1>11. ASSUME NEW c \in Calls, PrepareRefused(c) PROVE Ordered'
  <2>1. /\ call[c].at \in {"matching", "matched", "written"} /\ call[c].cur \in Cursor
        /\ call[c].patch \in 1..N
    BY <1>0, <1>11, LogAssumption DEF PrepareRefused, At, Call, Patches, Typed, Framed, Fits
  <2>2. /\ NextPatch(c).at = "matching" /\ NextPatch(c).effects = call[c].effects
        /\ NextPatch(c).patch = After(call[c].cur, call[c].patch)
    BY <2>1, NextFits
  <2>3. /\ call'[c] = Idle \/ call'[c] = NextPatch(c)
        /\ \A d \in Calls \ {c} : call'[d] = call[d]
    BY <1>0, <1>11 DEF PrepareRefused, Ends
  <2>4. /\ After(call[c].cur, call[c].patch) \in 1..N + 1
        /\ \/ After(call[c].cur, call[c].patch) > call[c].patch
           \/ After(call[c].cur, call[c].patch) = N + 1
    BY <2>1, AfterType, LogAssumption
  <2>5. \A e \in call[c].effects : e.patch \in 1..N /\ e.patch <= call[c].patch
    BY <1>0, <2>1 DEF Ordered, Call, Effect, Patches
  <2>6. \A e \in NextPatch(c).effects : e.patch < NextPatch(c).patch
    BY <2>1, <2>2, <2>4, <2>5, LogAssumption
  <2> QED BY <2>2, <2>3, <2>6 DEF Ordered, Idle
<1>12. ASSUME NEW c \in Calls, Write(c) PROVE Ordered'
  BY <1>12, <1>0 DEF Write, At, Ordered, Idle, Call, Recovering
<1>13. ASSUME NEW c \in Calls, WriteRefused(c) PROVE Ordered'
  BY <1>13, <1>0 DEF WriteRefused, At, Ends, Ordered, Idle, Call, Recovering
<1>14. ASSUME NEW c \in Calls, ChunkApplied(c) PROVE Ordered'
  BY <1>14, <1>0 DEF ChunkApplied, At, Ordered, Idle, Call, Recovering
<1>15. ASSUME NEW c \in Calls, VerifyPasses(c) PROVE Ordered'
  BY <1>15, <1>0 DEF VerifyPasses, At, Ordered, Idle, Call, Recovering
<1>16. ASSUME NEW c \in Calls, VerifyFails(c) PROVE Ordered'
  BY <1>16, <1>0 DEF VerifyFails, At, Ordered, Idle, Call, Recovering
<1>17. ASSUME NEW c \in Calls, ClearCursor(c) PROVE Ordered'
  BY <1>17, <1>0 DEF ClearCursor, At, Ends, Released, Ordered, Idle, Call,
     Recovering
<1>18. ASSUME NEW c \in Calls, SignChunk(c) PROVE Ordered'
  BY <1>18, <1>0 DEF SignChunk, At, Ordered, Idle, Call, Recovering
<1>19. ASSUME NEW c \in Calls, SignFails(c) PROVE Ordered'
  BY <1>19, <1>0 DEF SignFails, At, Fault, Ordered, Idle, Call, Recovering
<1>20. ASSUME NEW c \in Calls, RestoreOwn(c) PROVE Ordered'
  BY <1>20, <1>0 DEF RestoreOwn, At, Ordered, Idle, Call, Recovering
<1>21. ASSUME NEW c \in Calls, Block(c) PROVE Ordered'
  BY <1>21, <1>0 DEF Block, At, Ends, Released, Ordered, Idle, Call,
     Recovering
<1>22. ASSUME NEW c \in Calls, Save(c) PROVE Ordered'
  BY <1>22, <1>0 DEF Save, At, Ends, Ordered, Idle, Call, Recovering
<1>23. ASSUME NEW c \in Calls, CheckPostimages(c) PROVE Ordered'
  BY <1>23, <1>0 DEF CheckPostimages, At, Ordered, Idle, Call, Recovering
<1>24. ASSUME NEW c \in Calls, SignRecovery(c) PROVE Ordered'
  BY <1>24, <1>0 DEF SignRecovery, At, Ordered, Idle, Call, Recovering
<1>25. ASSUME NEW c \in Calls, SignRecoveryFails(c) PROVE Ordered'
  BY <1>25, <1>0 DEF SignRecoveryFails, At, Fault, Quit, Ends, Released,
     Ordered, Idle, Call, Recovering
<1>26. ASSUME NEW c \in Calls, RecheckPostimages(c) PROVE Ordered'
  BY <1>26, <1>0 DEF RecheckPostimages, At, Ordered, Idle, Call, Recovering
<1>27. ASSUME NEW c \in Calls, PostimageChanged(c) PROVE Ordered'
  BY <1>27, <1>0 DEF PostimageChanged, At, Quit, Ends, Released, Ordered,
     Idle, Call, Recovering
<1>28. ASSUME NEW c \in Calls, CompareCursor(c) PROVE Ordered'
  <2>1. CASE cursor = call[c].cur
    <3>1. /\ call[c].at = "comparing" /\ call'[c] = [call[c] EXCEPT !.at = "advancing"]
          /\ \A d \in Calls \ {c} : call'[d] = call[d]
      BY <1>0, <1>28, <2>1 DEF CompareCursor, At
    <3> QED BY <1>0, <1>28, <3>1 DEF CompareCursor, Call, Ordered, Recovering
  <2>2. CASE cursor # call[c].cur
    BY <1>0, <1>28, <2>2 DEF CompareCursor, Quit, Ends, Idle, Call, Ordered, Recovering
  <2> QED BY <2>1, <2>2
<1>29. ASSUME NEW c \in Calls, Advance(c) PROVE Ordered'
  BY <1>29, <1>0 DEF Advance, At, Quit, Ends, Released, Ordered, Idle, Call,
     Recovering
<1>30. ASSUME NEW i \in Patches, Edit(i) PROVE Ordered'
  BY <1>30, <1>0 DEF Edit, Fault, Ordered, Idle, Call, Recovering
<1>31. CASE LeaseExpires
  BY <1>31, <1>0 DEF LeaseExpires, Fault, Ordered, Idle, Call, Recovering
<1>32. ASSUME NEW c \in Calls, Crash(c) PROVE Ordered'
  BY <1>32, <1>0 DEF Crash, Fault, Ends, Ordered, Idle, Call, Recovering
<1>33. CASE UNCHANGED vars
  BY <1>33, <1>0 DEF vars, Ordered, Idle, Call, Recovering
<1>34. ASSUME NEW c \in Calls, EnterFence(c) PROVE Ordered'
  BY <1>34, <1>0 DEF EnterFence, At, Ordered, Idle, Call, Recovering
<1>35. ASSUME NEW c \in Calls, WrittenEffect(c) PROVE Ordered'
  <2>1. /\ call[c].at \in {"matching", "matched", "written"} /\ call[c].cur \in Cursor
        /\ call[c].patch \in 1..N
    BY <1>0, <1>35, LogAssumption DEF WrittenEffect, At, Call, Patches, Typed, Framed, Fits
  <2>2. /\ NextPatch(c).at = "matching" /\ NextPatch(c).effects = call[c].effects
        /\ NextPatch(c).patch = After(call[c].cur, call[c].patch)
    BY <2>1, NextFits
  <2>3. /\ call'[c] = Idle \/ call'[c] = NextPatch(c)
        /\ \A d \in Calls \ {c} : call'[d] = call[d]
    BY <1>0, <1>35 DEF WrittenEffect, Ends
  <2>4. /\ After(call[c].cur, call[c].patch) \in 1..N + 1
        /\ \/ After(call[c].cur, call[c].patch) > call[c].patch
           \/ After(call[c].cur, call[c].patch) = N + 1
    BY <2>1, AfterType, LogAssumption
  <2>5. \A e \in call[c].effects : e.patch \in 1..N /\ e.patch <= call[c].patch
    BY <1>0, <2>1 DEF Ordered, Call, Effect, Patches
  <2>6. \A e \in NextPatch(c).effects : e.patch < NextPatch(c).patch
    BY <2>1, <2>2, <2>4, <2>5, LogAssumption
  <2> QED BY <2>2, <2>3, <2>6 DEF Ordered, Idle
<1>36. ASSUME NEW c \in Calls, Aborted(c) PROVE Ordered'
  BY <1>36, <1>0 DEF Aborted, Ends, Released, Ordered, Idle, Call, Recovering
<1> QED
  BY <1>1, <1>2, <1>3, <1>4, <1>5, <1>6, <1>7, <1>8, <1>9, <1>10, <1>11,
     <1>12, <1>13, <1>14, <1>15, <1>16, <1>17, <1>18, <1>19, <1>20, <1>21,
     <1>22, <1>23, <1>24, <1>25, <1>26, <1>27, <1>28, <1>29, <1>30, <1>31,
     <1>32, <1>33, <1>34, <1>35, <1>36 DEF Next, ApplyStep, RecoverStep

LEMMA SerialisedStep ==
    ASSUME Typed, Serialised, [Next]_vars
    PROVE  Serialised'
<1>0. call \in [Calls -> Call]
  BY DEF Typed, TypeOK
<1>1. ASSUME NEW c \in Calls, Plan(c) PROVE Serialised'
  BY <1>1, <1>0 DEF Plan, Serialised, Idle, Call, Recovering
<1>2. ASSUME NEW c \in Calls, Load(c) PROVE Serialised'
  BY <1>2, <1>0 DEF Load, Serialised, Idle, Call, Recovering
<1>3. ASSUME NEW c \in Calls, LoadComplete(c) PROVE Serialised'
  BY <1>3, <1>0 DEF LoadComplete, Released, Serialised, Idle, Call, Recovering
<1>4. ASSUME NEW c \in Calls, Abort(c) PROVE Serialised'
  BY <1>4, <1>0 DEF Abort, Released, Serialised, Idle, Call, Recovering
<1>5. ASSUME NEW c \in Calls, StartRecovery(c) PROVE Serialised'
  <2>1. \A d \in Calls : call[d].at \notin Recovering
    BY <1>5, NobodyAssumption DEF StartRecovery, Serialised
  <2>2. locked' = c /\ \A d \in Calls \ {c} : call'[d] = call[d]
    BY <1>0, <1>5 DEF StartRecovery
  <2> QED BY <2>1, <2>2 DEF Serialised
<1>6. ASSUME NEW c \in Calls, Admit(c) PROVE Serialised'
  BY <1>6, <1>0 DEF Admit, LeaseId, Serialised, Idle, Call, Recovering
<1>7. ASSUME NEW c \in Calls, MatchPatch(c) PROVE Serialised'
  BY <1>7, <1>0 DEF MatchPatch, At, BackUp, Patched, Serialised, Idle, Call,
     Recovering
<1>8. ASSUME NEW c \in Calls, SkipPatch(c) PROVE Serialised'
  BY <1>8, <1>0 DEF SkipPatch, At, NextPatch, Serialised, Idle, Call,
     Recovering
<1>9. ASSUME NEW c \in Calls, Prepare(c) PROVE Serialised'
  BY <1>9, <1>0 DEF Prepare, At, Serialised, Idle, Call, Recovering
<1>10. ASSUME NEW c \in Calls, PrepareNothing(c) PROVE Serialised'
  BY <1>10, <1>0 DEF PrepareNothing, At, Serialised, Idle, Call, Recovering
<1>11. ASSUME NEW c \in Calls, PrepareRefused(c) PROVE Serialised'
  <2>1. call[c].at = "matched" /\ UNCHANGED <<intents, receipts, locked>>
    BY <1>11 DEF PrepareRefused, At
  <2>2. /\ NextPatch(c).at = "matching" /\ NextPatch(c).effects = call[c].effects
        /\ NextPatch(c).rows = call[c].rows
    BY <2>1, NextFits
  <2>3. /\ call'[c] = Idle \/ call'[c] = NextPatch(c)
        /\ \A d \in Calls \ {c} : call'[d] = call[d]
    BY <1>0, <1>11 DEF PrepareRefused, Ends
  <2> QED BY <2>1, <2>2, <2>3 DEF Serialised, Idle, Recovering
<1>12. ASSUME NEW c \in Calls, Write(c) PROVE Serialised'
  BY <1>12, <1>0 DEF Write, At, Serialised, Idle, Call, Recovering
<1>13. ASSUME NEW c \in Calls, WriteRefused(c) PROVE Serialised'
  BY <1>13, <1>0 DEF WriteRefused, At, Ends, Serialised, Idle, Call,
     Recovering
<1>14. ASSUME NEW c \in Calls, ChunkApplied(c) PROVE Serialised'
  BY <1>14, <1>0 DEF ChunkApplied, At, Serialised, Idle, Call, Recovering
<1>15. ASSUME NEW c \in Calls, VerifyPasses(c) PROVE Serialised'
  BY <1>15, <1>0 DEF VerifyPasses, At, Serialised, Idle, Call, Recovering
<1>16. ASSUME NEW c \in Calls, VerifyFails(c) PROVE Serialised'
  BY <1>16, <1>0 DEF VerifyFails, At, Serialised, Idle, Call, Recovering
<1>17. ASSUME NEW c \in Calls, ClearCursor(c) PROVE Serialised'
  BY <1>17, <1>0 DEF ClearCursor, At, Ends, Released, Serialised, Idle, Call,
     Recovering
<1>18. ASSUME NEW c \in Calls, SignChunk(c) PROVE Serialised'
  BY <1>18, <1>0 DEF SignChunk, At, Serialised, Idle, Call, Recovering
<1>19. ASSUME NEW c \in Calls, SignFails(c) PROVE Serialised'
  BY <1>19, <1>0 DEF SignFails, At, Fault, Serialised, Idle, Call, Recovering
<1>20. ASSUME NEW c \in Calls, RestoreOwn(c) PROVE Serialised'
  BY <1>20, <1>0 DEF RestoreOwn, At, Serialised, Idle, Call, Recovering
<1>21. ASSUME NEW c \in Calls, Block(c) PROVE Serialised'
  BY <1>21, <1>0 DEF Block, At, Ends, Released, Serialised, Idle, Call,
     Recovering
<1>22. ASSUME NEW c \in Calls, Save(c) PROVE Serialised'
  BY <1>22, <1>0 DEF Save, At, Ends, Serialised, Idle, Call, Recovering
<1>23. ASSUME NEW c \in Calls, CheckPostimages(c) PROVE Serialised'
  BY <1>23, <1>0 DEF CheckPostimages, At, Serialised, Idle, Call, Recovering
<1>24. ASSUME NEW c \in Calls, SignRecovery(c) PROVE Serialised'
  BY <1>24, <1>0 DEF SignRecovery, At, Serialised, Idle, Call, Recovering
<1>25. ASSUME NEW c \in Calls, SignRecoveryFails(c) PROVE Serialised'
  BY <1>25, <1>0 DEF SignRecoveryFails, At, Fault, Quit, Ends, Released,
     Serialised, Idle, Call, Recovering
<1>26. ASSUME NEW c \in Calls, RecheckPostimages(c) PROVE Serialised'
  BY <1>26, <1>0 DEF RecheckPostimages, At, Serialised, Idle, Call, Recovering
<1>27. ASSUME NEW c \in Calls, PostimageChanged(c) PROVE Serialised'
  BY <1>27, <1>0 DEF PostimageChanged, At, Quit, Ends, Released, Serialised,
     Idle, Call, Recovering
<1>28. ASSUME NEW c \in Calls, CompareCursor(c) PROVE Serialised'
  BY <1>28, <1>0 DEF CompareCursor, At, Quit, Ends, Released, Serialised,
     Idle, Call, Recovering
<1>29. ASSUME NEW c \in Calls, Advance(c) PROVE Serialised'
  BY <1>29, <1>0 DEF Advance, At, Quit, Ends, Released, Serialised, Idle,
     Call, Recovering
<1>30. ASSUME NEW i \in Patches, Edit(i) PROVE Serialised'
  BY <1>30, <1>0 DEF Edit, Fault, Serialised, Idle, Call, Recovering
<1>31. CASE LeaseExpires
  BY <1>31, <1>0 DEF LeaseExpires, Fault, Serialised, Idle, Call, Recovering
<1>32. ASSUME NEW c \in Calls, Crash(c) PROVE Serialised'
  BY <1>32, <1>0 DEF Crash, Fault, Ends, Serialised, Idle, Call, Recovering
<1>33. CASE UNCHANGED vars
  BY <1>33, <1>0 DEF vars, Serialised, Idle, Call, Recovering
<1>34. ASSUME NEW c \in Calls, EnterFence(c) PROVE Serialised'
  BY <1>34, <1>0 DEF EnterFence, At, Serialised, Idle, Call, Recovering
<1>35. ASSUME NEW c \in Calls, WrittenEffect(c) PROVE Serialised'
  <2>1. call[c].at = "written" /\ UNCHANGED <<intents, receipts, locked>>
    BY <1>35 DEF WrittenEffect, At
  <2>2. /\ NextPatch(c).at = "matching" /\ NextPatch(c).effects = call[c].effects
        /\ NextPatch(c).rows = call[c].rows
    BY <2>1, NextFits
  <2>3. /\ call'[c] = Idle \/ call'[c] = NextPatch(c)
        /\ \A d \in Calls \ {c} : call'[d] = call[d]
    BY <1>0, <1>35 DEF WrittenEffect, Ends
  <2> QED BY <2>1, <2>2, <2>3 DEF Serialised, Idle, Recovering
<1>36. ASSUME NEW c \in Calls, Aborted(c) PROVE Serialised'
  BY <1>36, <1>0 DEF Aborted, Ends, Released, Serialised, Idle, Call, Recovering
<1> QED
  BY <1>1, <1>2, <1>3, <1>4, <1>5, <1>6, <1>7, <1>8, <1>9, <1>10, <1>11,
     <1>12, <1>13, <1>14, <1>15, <1>16, <1>17, <1>18, <1>19, <1>20, <1>21,
     <1>22, <1>23, <1>24, <1>25, <1>26, <1>27, <1>28, <1>29, <1>30, <1>31,
     <1>32, <1>33, <1>34, <1>35, <1>36 DEF Next, ApplyStep, RecoverStep

LEMMA WholeStep ==
    ASSUME Typed, Whole, [Next]_vars
    PROVE  Whole'
<1>0. call \in [Calls -> Call]
  BY DEF Typed, TypeOK
<1>1. ASSUME NEW c \in Calls, Plan(c) PROVE Whole'
  <2>1. /\ call[c].at = "idle" /\ call'[c].at = "loaded" /\ call'[c].rows = call[c].rows
        /\ call'[c].effects = call[c].effects
        /\ \A d \in Calls \ {c} : call'[d] = call[d]
    BY <1>0, <1>1 DEF Plan, Call
  <2>2. UNCHANGED <<intents, receipts>>
    BY <1>1 DEF Plan
  <2> QED BY <2>1, <2>2 DEF Whole, Recovering
<1>2. ASSUME NEW c \in Calls, Load(c) PROVE Whole'
  BY <1>2, <1>0 DEF Load, Whole, Idle, Call, Recovering
<1>3. ASSUME NEW c \in Calls, LoadComplete(c) PROVE Whole'
  BY <1>3, <1>0 DEF LoadComplete, Released, Whole, Idle, Call, Recovering
<1>4. ASSUME NEW c \in Calls, Abort(c) PROVE Whole'
  BY <1>4, <1>0 DEF Abort, Released, Whole, Idle, Call, Recovering
<1>5. ASSUME NEW c \in Calls, StartRecovery(c) PROVE Whole'
  <2>1. PICK e \in Interrupted : /\ \A f \in Interrupted : f.checkpoint = e.checkpoint
                                 /\ e.steps = Chunk(cursor)
                                 /\ {f.patch : f \in Interrupted} = e.steps
    BY <1>5 DEF StartRecovery, Complete
  <2>2. OfChunk(Interrupted, cursor) /\ OfOneCall(Interrupted)
    BY <2>1 DEF OfChunk, OfOneCall
  <2>3. /\ call'[c].effects = Interrupted /\ call'[c].cur = cursor
        /\ \A d \in Calls \ {c} : call'[d] = call[d]
    BY <1>0, <1>5 DEF StartRecovery, Idle
  <2> QED BY <2>2, <2>3 DEF Whole
<1>6. ASSUME NEW c \in Calls, Admit(c) PROVE Whole'
  BY <1>6, <1>0 DEF Admit, LeaseId, Whole, Idle, Call, Recovering
<1>7. ASSUME NEW c \in Calls, MatchPatch(c) PROVE Whole'
  BY <1>7, <1>0 DEF MatchPatch, At, BackUp, Patched, Whole, Idle, Call,
     Recovering
<1>8. ASSUME NEW c \in Calls, SkipPatch(c) PROVE Whole'
  BY <1>8, <1>0 DEF SkipPatch, At, NextPatch, Whole, Idle, Call, Recovering
<1>9. ASSUME NEW c \in Calls, Prepare(c) PROVE Whole'
  BY <1>9, <1>0 DEF Prepare, At, Whole, Idle, Call, Recovering
<1>10. ASSUME NEW c \in Calls, PrepareNothing(c) PROVE Whole'
  BY <1>10, <1>0 DEF PrepareNothing, At, Whole, Idle, Call, Recovering
<1>11. ASSUME NEW c \in Calls, PrepareRefused(c) PROVE Whole'
  <2>1. call[c].at = "matched" /\ UNCHANGED <<intents, receipts, locked>>
    BY <1>11 DEF PrepareRefused, At
  <2>2. /\ NextPatch(c).at = "matching" /\ NextPatch(c).effects = call[c].effects
        /\ NextPatch(c).rows = call[c].rows
    BY <2>1, NextFits
  <2>3. /\ call'[c] = Idle \/ call'[c] = NextPatch(c)
        /\ \A d \in Calls \ {c} : call'[d] = call[d]
    BY <1>0, <1>11 DEF PrepareRefused, Ends
  <2> QED BY <2>1, <2>2, <2>3 DEF Whole, Idle, Recovering
<1>12. ASSUME NEW c \in Calls, Write(c) PROVE Whole'
  BY <1>12, <1>0 DEF Write, At, Whole, Idle, Call, Recovering
<1>13. ASSUME NEW c \in Calls, WriteRefused(c) PROVE Whole'
  BY <1>13, <1>0 DEF WriteRefused, At, Ends, Whole, Idle, Call, Recovering
<1>14. ASSUME NEW c \in Calls, ChunkApplied(c) PROVE Whole'
  BY <1>14, <1>0 DEF ChunkApplied, At, Whole, Idle, Call, Recovering
<1>15. ASSUME NEW c \in Calls, VerifyPasses(c) PROVE Whole'
  BY <1>15, <1>0 DEF VerifyPasses, At, Whole, Idle, Call, Recovering
<1>16. ASSUME NEW c \in Calls, VerifyFails(c) PROVE Whole'
  BY <1>16, <1>0 DEF VerifyFails, At, Whole, Idle, Call, Recovering
<1>17. ASSUME NEW c \in Calls, ClearCursor(c) PROVE Whole'
  BY <1>17, <1>0 DEF ClearCursor, At, Ends, Released, Whole, Idle, Call,
     Recovering
<1>18. ASSUME NEW c \in Calls, SignChunk(c) PROVE Whole'
  BY <1>18, <1>0 DEF SignChunk, At, Whole, Idle, Call, Recovering
<1>19. ASSUME NEW c \in Calls, SignFails(c) PROVE Whole'
  BY <1>19, <1>0 DEF SignFails, At, Fault, Whole, Idle, Call, Recovering
<1>20. ASSUME NEW c \in Calls, RestoreOwn(c) PROVE Whole'
  BY <1>20, <1>0 DEF RestoreOwn, At, Whole, Idle, Call, Recovering
<1>21. ASSUME NEW c \in Calls, Block(c) PROVE Whole'
  BY <1>21, <1>0 DEF Block, At, Ends, Released, Whole, Idle, Call, Recovering
<1>22. ASSUME NEW c \in Calls, Save(c) PROVE Whole'
  BY <1>22, <1>0 DEF Save, At, Ends, Whole, Idle, Call, Recovering
<1>23. ASSUME NEW c \in Calls, CheckPostimages(c) PROVE Whole'
  BY <1>23, <1>0 DEF CheckPostimages, At, Whole, Idle, Call, Recovering
<1>24. ASSUME NEW c \in Calls, SignRecovery(c) PROVE Whole'
  BY <1>24, <1>0 DEF SignRecovery, At, Whole, Idle, Call, Recovering
<1>25. ASSUME NEW c \in Calls, SignRecoveryFails(c) PROVE Whole'
  BY <1>25, <1>0 DEF SignRecoveryFails, At, Fault, Quit, Ends, Released,
     Whole, Idle, Call, Recovering
<1>26. ASSUME NEW c \in Calls, RecheckPostimages(c) PROVE Whole'
  BY <1>26, <1>0 DEF RecheckPostimages, At, Whole, Idle, Call, Recovering
<1>27. ASSUME NEW c \in Calls, PostimageChanged(c) PROVE Whole'
  BY <1>27, <1>0 DEF PostimageChanged, At, Quit, Ends, Released, Whole, Idle,
     Call, Recovering
<1>28. ASSUME NEW c \in Calls, CompareCursor(c) PROVE Whole'
  <2>1. CASE cursor = call[c].cur
    <3>1. /\ call[c].at = "comparing" /\ call'[c] = [call[c] EXCEPT !.at = "advancing"]
          /\ \A d \in Calls \ {c} : call'[d] = call[d]
      BY <1>0, <1>28, <2>1 DEF CompareCursor, At
    <3> QED BY <1>0, <1>28, <3>1 DEF CompareCursor, Call, Whole, Recovering
  <2>2. CASE cursor # call[c].cur
    BY <1>0, <1>28, <2>2 DEF CompareCursor, Quit, Ends, Idle, Call, Whole, Recovering
  <2> QED BY <2>1, <2>2
<1>29. ASSUME NEW c \in Calls, Advance(c) PROVE Whole'
  BY <1>29, <1>0 DEF Advance, At, Quit, Ends, Released, Whole, Idle, Call,
     Recovering
<1>30. ASSUME NEW i \in Patches, Edit(i) PROVE Whole'
  BY <1>30, <1>0 DEF Edit, Fault, Whole, Idle, Call, Recovering
<1>31. CASE LeaseExpires
  BY <1>31, <1>0 DEF LeaseExpires, Fault, Whole, Idle, Call, Recovering
<1>32. ASSUME NEW c \in Calls, Crash(c) PROVE Whole'
  BY <1>32, <1>0 DEF Crash, Fault, Ends, Whole, Idle, Call, Recovering
<1>33. CASE UNCHANGED vars
  BY <1>33, <1>0 DEF vars, Whole, Idle, Call, Recovering
<1>34. ASSUME NEW c \in Calls, EnterFence(c) PROVE Whole'
  BY <1>34, <1>0 DEF EnterFence, At, Whole, Idle, Call, Recovering
<1>35. ASSUME NEW c \in Calls, WrittenEffect(c) PROVE Whole'
  <2>1. call[c].at = "written" /\ UNCHANGED <<intents, receipts, locked>>
    BY <1>35 DEF WrittenEffect, At
  <2>2. /\ NextPatch(c).at = "matching" /\ NextPatch(c).effects = call[c].effects
        /\ NextPatch(c).rows = call[c].rows
    BY <2>1, NextFits
  <2>3. /\ call'[c] = Idle \/ call'[c] = NextPatch(c)
        /\ \A d \in Calls \ {c} : call'[d] = call[d]
    BY <1>0, <1>35 DEF WrittenEffect, Ends
  <2> QED BY <2>1, <2>2, <2>3 DEF Whole, Idle, Recovering
<1>36. ASSUME NEW c \in Calls, Aborted(c) PROVE Whole'
  BY <1>36, <1>0 DEF Aborted, Ends, Released, Whole, Idle, Call, Recovering
<1> QED
  BY <1>1, <1>2, <1>3, <1>4, <1>5, <1>6, <1>7, <1>8, <1>9, <1>10, <1>11,
     <1>12, <1>13, <1>14, <1>15, <1>16, <1>17, <1>18, <1>19, <1>20, <1>21,
     <1>22, <1>23, <1>24, <1>25, <1>26, <1>27, <1>28, <1>29, <1>30, <1>31,
     <1>32, <1>33, <1>34, <1>35, <1>36 DEF Next, ApplyStep, RecoverStep

LEMMA AgreedStep ==
    ASSUME Typed, Agreed, [Next]_vars
    PROVE  Agreed'
<1>0. call \in [Calls -> Call]
  BY DEF Typed, TypeOK
<1>1. ASSUME NEW c \in Calls, Plan(c) PROVE Agreed'
  <2>1. /\ call[c].at = "idle" /\ call'[c].at = "loaded" /\ call'[c].rows = call[c].rows
        /\ call'[c].effects = call[c].effects
        /\ \A d \in Calls \ {c} : call'[d] = call[d]
    BY <1>0, <1>1 DEF Plan, Call
  <2>2. UNCHANGED <<intents, receipts>>
    BY <1>1 DEF Plan
  <2> QED BY <2>1, <2>2 DEF Agreed, Recovering
<1>2. ASSUME NEW c \in Calls, Load(c) PROVE Agreed'
  BY <1>2, <1>0 DEF Load, Agreed, Idle, Call, Recovering
<1>3. ASSUME NEW c \in Calls, LoadComplete(c) PROVE Agreed'
  BY <1>3, <1>0 DEF LoadComplete, Released, Agreed, Idle, Call, Recovering
<1>4. ASSUME NEW c \in Calls, Abort(c) PROVE Agreed'
  BY <1>4, <1>0 DEF Abort, Released, Agreed, Idle, Call, Recovering
<1>5. ASSUME NEW c \in Calls, StartRecovery(c) PROVE Agreed'
  BY <1>5, <1>0 DEF StartRecovery, LeaseId, Agreed, Idle, Call, Recovering
<1>6. ASSUME NEW c \in Calls, Admit(c) PROVE Agreed'
  BY <1>6, <1>0 DEF Admit, LeaseId, Agreed, Idle, Call, Recovering
<1>7. ASSUME NEW c \in Calls, MatchPatch(c) PROVE Agreed'
  BY <1>7, <1>0 DEF MatchPatch, At, BackUp, Patched, Agreed, Idle, Call,
     Recovering
<1>8. ASSUME NEW c \in Calls, SkipPatch(c) PROVE Agreed'
  BY <1>8, <1>0 DEF SkipPatch, At, NextPatch, Agreed, Idle, Call, Recovering
<1>9. ASSUME NEW c \in Calls, Prepare(c) PROVE Agreed'
  BY <1>9, <1>0 DEF Prepare, At, Agreed, Idle, Call, Recovering
<1>10. ASSUME NEW c \in Calls, PrepareNothing(c) PROVE Agreed'
  BY <1>10, <1>0 DEF PrepareNothing, At, Agreed, Idle, Call, Recovering
<1>11. ASSUME NEW c \in Calls, PrepareRefused(c) PROVE Agreed'
  <2>1. call[c].at = "matched" /\ UNCHANGED <<intents, receipts, locked>>
    BY <1>11 DEF PrepareRefused, At
  <2>2. /\ NextPatch(c).at = "matching" /\ NextPatch(c).effects = call[c].effects
        /\ NextPatch(c).rows = call[c].rows
    BY <2>1, NextFits
  <2>3. /\ call'[c] = Idle \/ call'[c] = NextPatch(c)
        /\ \A d \in Calls \ {c} : call'[d] = call[d]
    BY <1>0, <1>11 DEF PrepareRefused, Ends
  <2> QED BY <2>1, <2>2, <2>3 DEF Agreed, Idle, Recovering
<1>12. ASSUME NEW c \in Calls, Write(c) PROVE Agreed'
  BY <1>12, <1>0 DEF Write, At, Agreed, Idle, Call, Recovering
<1>13. ASSUME NEW c \in Calls, WriteRefused(c) PROVE Agreed'
  BY <1>13, <1>0 DEF WriteRefused, At, Ends, Agreed, Idle, Call, Recovering
<1>14. ASSUME NEW c \in Calls, ChunkApplied(c) PROVE Agreed'
  BY <1>14, <1>0 DEF ChunkApplied, At, Agreed, Idle, Call, Recovering
<1>15. ASSUME NEW c \in Calls, VerifyPasses(c) PROVE Agreed'
  BY <1>15, <1>0 DEF VerifyPasses, At, Agreed, Idle, Call, Recovering
<1>16. ASSUME NEW c \in Calls, VerifyFails(c) PROVE Agreed'
  BY <1>16, <1>0 DEF VerifyFails, At, Agreed, Idle, Call, Recovering
<1>17. ASSUME NEW c \in Calls, ClearCursor(c) PROVE Agreed'
  BY <1>17, <1>0 DEF ClearCursor, At, Ends, Released, Agreed, Idle, Call,
     Recovering
<1>18. ASSUME NEW c \in Calls, SignChunk(c) PROVE Agreed'
  BY <1>18, <1>0 DEF SignChunk, At, Agreed, Idle, Call, Recovering
<1>19. ASSUME NEW c \in Calls, SignFails(c) PROVE Agreed'
  BY <1>19, <1>0 DEF SignFails, At, Fault, Agreed, Idle, Call, Recovering
<1>20. ASSUME NEW c \in Calls, RestoreOwn(c) PROVE Agreed'
  BY <1>20, <1>0 DEF RestoreOwn, At, Agreed, Idle, Call, Recovering
<1>21. ASSUME NEW c \in Calls, Block(c) PROVE Agreed'
  BY <1>21, <1>0 DEF Block, At, Ends, Released, Agreed, Idle, Call, Recovering
<1>22. ASSUME NEW c \in Calls, Save(c) PROVE Agreed'
  BY <1>22, <1>0 DEF Save, At, Ends, Agreed, Idle, Call, Recovering
<1>23. ASSUME NEW c \in Calls, CheckPostimages(c) PROVE Agreed'
  <2>1. OneImage(call[c].effects)
    BY <1>23 DEF CheckPostimages, PostimagesHold, OneImage
  <2>2. /\ call'[c].effects = call[c].effects
        /\ \A d \in Calls \ {c} : call'[d] = call[d]
    BY <1>0, <1>23 DEF CheckPostimages, Call
  <2> QED BY <2>1, <2>2 DEF Agreed
<1>24. ASSUME NEW c \in Calls, SignRecovery(c) PROVE Agreed'
  BY <1>24, <1>0 DEF SignRecovery, At, Agreed, Idle, Call, Recovering
<1>25. ASSUME NEW c \in Calls, SignRecoveryFails(c) PROVE Agreed'
  BY <1>25, <1>0 DEF SignRecoveryFails, At, Fault, Quit, Ends, Released,
     Agreed, Idle, Call, Recovering
<1>26. ASSUME NEW c \in Calls, RecheckPostimages(c) PROVE Agreed'
  BY <1>26, <1>0 DEF RecheckPostimages, At, Agreed, Idle, Call, Recovering
<1>27. ASSUME NEW c \in Calls, PostimageChanged(c) PROVE Agreed'
  BY <1>27, <1>0 DEF PostimageChanged, At, Quit, Ends, Released, Agreed, Idle,
     Call, Recovering
<1>28. ASSUME NEW c \in Calls, CompareCursor(c) PROVE Agreed'
  <2>1. CASE cursor = call[c].cur
    <3>1. /\ call[c].at = "comparing" /\ call'[c].at = "advancing"
          /\ call'[c].effects = call[c].effects
          /\ \A d \in Calls \ {c} : call'[d] = call[d]
      BY <1>0, <1>28, <2>1 DEF CompareCursor, At, Call
    <3> QED BY <1>28, <3>1 DEF CompareCursor, Agreed, Recovering
  <2>2. CASE cursor # call[c].cur
    BY <1>0, <1>28, <2>2 DEF CompareCursor, Quit, Ends, Idle, Agreed, Recovering
  <2> QED BY <2>1, <2>2
<1>29. ASSUME NEW c \in Calls, Advance(c) PROVE Agreed'
  BY <1>29, <1>0 DEF Advance, At, Quit, Ends, Released, Agreed, Idle, Call,
     Recovering
<1>30. ASSUME NEW i \in Patches, Edit(i) PROVE Agreed'
  BY <1>30, <1>0 DEF Edit, Fault, Agreed, Idle, Call, Recovering
<1>31. CASE LeaseExpires
  BY <1>31, <1>0 DEF LeaseExpires, Fault, Agreed, Idle, Call, Recovering
<1>32. ASSUME NEW c \in Calls, Crash(c) PROVE Agreed'
  BY <1>32, <1>0 DEF Crash, Fault, Ends, Agreed, Idle, Call, Recovering
<1>33. CASE UNCHANGED vars
  BY <1>33, <1>0 DEF vars, Agreed, Idle, Call, Recovering
<1>34. ASSUME NEW c \in Calls, EnterFence(c) PROVE Agreed'
  BY <1>34, <1>0 DEF EnterFence, At, Agreed, Idle, Call, Recovering
<1>35. ASSUME NEW c \in Calls, WrittenEffect(c) PROVE Agreed'
  <2>1. call[c].at = "written" /\ UNCHANGED <<intents, receipts, locked>>
    BY <1>35 DEF WrittenEffect, At
  <2>2. /\ NextPatch(c).at = "matching" /\ NextPatch(c).effects = call[c].effects
        /\ NextPatch(c).rows = call[c].rows
    BY <2>1, NextFits
  <2>3. /\ call'[c] = Idle \/ call'[c] = NextPatch(c)
        /\ \A d \in Calls \ {c} : call'[d] = call[d]
    BY <1>0, <1>35 DEF WrittenEffect, Ends
  <2> QED BY <2>1, <2>2, <2>3 DEF Agreed, Idle, Recovering
<1>36. ASSUME NEW c \in Calls, Aborted(c) PROVE Agreed'
  BY <1>36, <1>0 DEF Aborted, Ends, Released, Agreed, Idle, Call, Recovering
<1> QED
  BY <1>1, <1>2, <1>3, <1>4, <1>5, <1>6, <1>7, <1>8, <1>9, <1>10, <1>11,
     <1>12, <1>13, <1>14, <1>15, <1>16, <1>17, <1>18, <1>19, <1>20, <1>21,
     <1>22, <1>23, <1>24, <1>25, <1>26, <1>27, <1>28, <1>29, <1>30, <1>31,
     <1>32, <1>33, <1>34, <1>35, <1>36 DEF Next, ApplyStep, RecoverStep

LEMMA InformedStep ==
    ASSUME Typed, Informed, Serialised, [Next]_vars
    PROVE  Informed'
<1>0. call \in [Calls -> Call]
  BY DEF Typed, TypeOK
<1>1. ASSUME NEW c \in Calls, Plan(c) PROVE Informed'
  <2>1. /\ call[c].at = "idle" /\ call'[c].at = "loaded" /\ call'[c].rows = call[c].rows
        /\ call'[c].effects = call[c].effects
        /\ \A d \in Calls \ {c} : call'[d] = call[d]
    BY <1>0, <1>1 DEF Plan, Call
  <2>2. UNCHANGED <<intents, receipts>>
    BY <1>1 DEF Plan
  <2> QED BY <2>1, <2>2 DEF Informed, Recovering
<1>2. ASSUME NEW c \in Calls, Load(c) PROVE Informed'
  BY <1>2, <1>0 DEF Load, Informed, Idle, Call, Recovering
<1>3. ASSUME NEW c \in Calls, LoadComplete(c) PROVE Informed'
  BY <1>3, <1>0 DEF LoadComplete, Released, Informed, Idle, Call, Recovering
<1>4. ASSUME NEW c \in Calls, Abort(c) PROVE Informed'
  BY <1>4, <1>0 DEF Abort, Released, Informed, Idle, Call, Recovering
<1>5. ASSUME NEW c \in Calls, StartRecovery(c) PROVE Informed'
  BY <1>5, <1>0 DEF StartRecovery, LeaseId, Informed, Idle, Call, Recovering
<1>6. ASSUME NEW c \in Calls, Admit(c) PROVE Informed'
  BY <1>6, <1>0 DEF Admit, LeaseId, Informed, Idle, Call, Recovering
<1>7. ASSUME NEW c \in Calls, MatchPatch(c) PROVE Informed'
  BY <1>7, <1>0 DEF MatchPatch, At, BackUp, Patched, Informed, Idle, Call,
     Recovering
<1>8. ASSUME NEW c \in Calls, SkipPatch(c) PROVE Informed'
  BY <1>8, <1>0 DEF SkipPatch, At, NextPatch, Informed, Idle, Call, Recovering
<1>9. ASSUME NEW c \in Calls, Prepare(c) PROVE Informed'
  BY <1>9, <1>0 DEF Prepare, At, Informed, Idle, Call, Recovering
<1>10. ASSUME NEW c \in Calls, PrepareNothing(c) PROVE Informed'
  BY <1>10, <1>0 DEF PrepareNothing, At, Informed, Idle, Call, Recovering
<1>11. ASSUME NEW c \in Calls, PrepareRefused(c) PROVE Informed'
  <2>1. call[c].at = "matched" /\ UNCHANGED <<intents, receipts, locked>>
    BY <1>11 DEF PrepareRefused, At
  <2>2. /\ NextPatch(c).at = "matching" /\ NextPatch(c).effects = call[c].effects
        /\ NextPatch(c).rows = call[c].rows
    BY <2>1, NextFits
  <2>3. /\ call'[c] = Idle \/ call'[c] = NextPatch(c)
        /\ \A d \in Calls \ {c} : call'[d] = call[d]
    BY <1>0, <1>11 DEF PrepareRefused, Ends
  <2> QED BY <2>1, <2>2, <2>3 DEF Informed, Idle, Recovering
<1>12. ASSUME NEW c \in Calls, Write(c) PROVE Informed'
  BY <1>12, <1>0 DEF Write, At, Informed, Idle, Call, Recovering
<1>13. ASSUME NEW c \in Calls, WriteRefused(c) PROVE Informed'
  BY <1>13, <1>0 DEF WriteRefused, At, Ends, Informed, Idle, Call, Recovering
<1>14. ASSUME NEW c \in Calls, ChunkApplied(c) PROVE Informed'
  BY <1>14, <1>0 DEF ChunkApplied, At, Informed, Idle, Call, Recovering
<1>15. ASSUME NEW c \in Calls, VerifyPasses(c) PROVE Informed'
  BY <1>15, <1>0 DEF VerifyPasses, At, Informed, Idle, Call, Recovering
<1>16. ASSUME NEW c \in Calls, VerifyFails(c) PROVE Informed'
  BY <1>16, <1>0 DEF VerifyFails, At, Informed, Idle, Call, Recovering
<1>17. ASSUME NEW c \in Calls, ClearCursor(c) PROVE Informed'
  BY <1>17, <1>0 DEF ClearCursor, At, Ends, Released, Informed, Idle, Call,
     Recovering
<1>18. ASSUME NEW c \in Calls, SignChunk(c) PROVE Informed'
  <2>1. /\ call[c].at \in {"matched", "prepared", "signing"}
        /\ call'[c].at \notin Recovering
        /\ \A d \in Calls \ {c} : call'[d] = call[d]
    BY <1>0, <1>18 DEF SignChunk, At, Recovering
  <2>2. \A r \in receipts' : r.by = "recover" => r \in receipts
    BY <1>18 DEF SignChunk, ChunkReceipt
  <2> QED BY <2>1, <2>2 DEF Informed, Recovering
<1>19. ASSUME NEW c \in Calls, SignFails(c) PROVE Informed'
  <2>1. /\ call[c].at \in {"matched", "prepared", "signing"}
        /\ call'[c].at \notin Recovering
        /\ \A d \in Calls \ {c} : call'[d] = call[d]
    BY <1>0, <1>19 DEF SignFails, At, Recovering
  <2>2. \A r \in receipts' : r.by = "recover" => r \in receipts
    BY <1>19 DEF SignFails, ChunkReceipt
  <2> QED BY <2>1, <2>2 DEF Informed, Recovering
<1>20. ASSUME NEW c \in Calls, RestoreOwn(c) PROVE Informed'
  BY <1>20, <1>0 DEF RestoreOwn, At, Informed, Idle, Call, Recovering
<1>21. ASSUME NEW c \in Calls, Block(c) PROVE Informed'
  BY <1>21, <1>0 DEF Block, At, Ends, Released, Informed, Idle, Call,
     Recovering
<1>22. ASSUME NEW c \in Calls, Save(c) PROVE Informed'
  BY <1>22, <1>0 DEF Save, At, Ends, Informed, Idle, Call, Recovering
<1>23. ASSUME NEW c \in Calls, CheckPostimages(c) PROVE Informed'
  <2>1. /\ call[c].at = "checking" /\ call'[c].rows = call[c].rows
        /\ call'[c].effects = call[c].effects /\ receipts' = receipts
        /\ call'[c].at = IF SignedBefore(c) THEN "rechecking" ELSE "attesting"
        /\ \A d \in Calls \ {c} : call'[d] = call[d]
    BY <1>0, <1>23 DEF CheckPostimages, At, Call
  <2> QED BY <2>1 DEF Informed, SignedBefore
<1>24. ASSUME NEW c \in Calls, SignRecovery(c) PROVE Informed'
  <2>1. call[c].at = "attesting" /\ \A d \in Calls \ {c} : call[d].at \notin Recovering
    BY <1>24 DEF SignRecovery, At, Serialised, Recovering
  <2>2. call'[c].at = "rechecking" /\ \A d \in Calls \ {c} : call'[d] = call[d]
    BY <1>0, <1>24 DEF SignRecovery, Call
  <2> QED BY <2>1, <2>2 DEF Informed, Recovering
<1>25. ASSUME NEW c \in Calls, SignRecoveryFails(c) PROVE Informed'
  <2>1. call[c].at = "attesting" /\ \A d \in Calls \ {c} : call[d].at \notin Recovering
    BY <1>25 DEF SignRecoveryFails, At, Serialised, Recovering
  <2>2. call'[c].at = "idle" /\ \A d \in Calls \ {c} : call'[d] = call[d]
    BY <1>0, <1>25 DEF SignRecoveryFails, Quit, Ends, Idle
  <2> QED BY <2>1, <2>2 DEF Informed, Recovering
<1>26. ASSUME NEW c \in Calls, RecheckPostimages(c) PROVE Informed'
  BY <1>26, <1>0 DEF RecheckPostimages, At, Informed, Idle, Call, Recovering
<1>27. ASSUME NEW c \in Calls, PostimageChanged(c) PROVE Informed'
  BY <1>27, <1>0 DEF PostimageChanged, At, Quit, Ends, Released, Informed,
     Idle, Call, Recovering
<1>28. ASSUME NEW c \in Calls, CompareCursor(c) PROVE Informed'
  <2>1. CASE cursor = call[c].cur
    <3>1. /\ call[c].at = "comparing" /\ call'[c].at = "advancing"
          /\ call'[c].effects = call[c].effects
          /\ \A d \in Calls \ {c} : call'[d] = call[d]
      BY <1>0, <1>28, <2>1 DEF CompareCursor, At, Call
    <3> QED BY <1>28, <3>1 DEF CompareCursor, Informed, Recovering
  <2>2. CASE cursor # call[c].cur
    BY <1>0, <1>28, <2>2 DEF CompareCursor, Quit, Ends, Idle, Informed, Recovering
  <2> QED BY <2>1, <2>2
<1>29. ASSUME NEW c \in Calls, Advance(c) PROVE Informed'
  BY <1>29, <1>0 DEF Advance, At, Quit, Ends, Released, Informed, Idle, Call,
     Recovering
<1>30. ASSUME NEW i \in Patches, Edit(i) PROVE Informed'
  BY <1>30, <1>0 DEF Edit, Fault, Informed, Idle, Call, Recovering
<1>31. CASE LeaseExpires
  BY <1>31, <1>0 DEF LeaseExpires, Fault, Informed, Idle, Call, Recovering
<1>32. ASSUME NEW c \in Calls, Crash(c) PROVE Informed'
  BY <1>32, <1>0 DEF Crash, Fault, Ends, Informed, Idle, Call, Recovering
<1>33. CASE UNCHANGED vars
  BY <1>33, <1>0 DEF vars, Informed, Idle, Call, Recovering
<1>34. ASSUME NEW c \in Calls, EnterFence(c) PROVE Informed'
  BY <1>34, <1>0 DEF EnterFence, At, Informed, Idle, Call, Recovering
<1>35. ASSUME NEW c \in Calls, WrittenEffect(c) PROVE Informed'
  <2>1. call[c].at = "written" /\ UNCHANGED <<intents, receipts, locked>>
    BY <1>35 DEF WrittenEffect, At
  <2>2. /\ NextPatch(c).at = "matching" /\ NextPatch(c).effects = call[c].effects
        /\ NextPatch(c).rows = call[c].rows
    BY <2>1, NextFits
  <2>3. /\ call'[c] = Idle \/ call'[c] = NextPatch(c)
        /\ \A d \in Calls \ {c} : call'[d] = call[d]
    BY <1>0, <1>35 DEF WrittenEffect, Ends
  <2> QED BY <2>1, <2>2, <2>3 DEF Informed, Idle, Recovering
<1>36. ASSUME NEW c \in Calls, Aborted(c) PROVE Informed'
  BY <1>36, <1>0 DEF Aborted, Ends, Released, Informed, Idle, Call, Recovering
<1> QED
  BY <1>1, <1>2, <1>3, <1>4, <1>5, <1>6, <1>7, <1>8, <1>9, <1>10, <1>11,
     <1>12, <1>13, <1>14, <1>15, <1>16, <1>17, <1>18, <1>19, <1>20, <1>21,
     <1>22, <1>23, <1>24, <1>25, <1>26, <1>27, <1>28, <1>29, <1>30, <1>31,
     <1>32, <1>33, <1>34, <1>35, <1>36 DEF Next, ApplyStep, RecoverStep

LEMMA TruthfulStep ==
    ASSUME Typed, Agreed, Truthful, [Next]_vars
    PROVE  Truthful'
<1>0. call \in [Calls -> Call]
  BY DEF Typed, TypeOK
<1>1. ASSUME NEW c \in Calls, Plan(c) PROVE Truthful'
  BY <1>1, <1>0 DEF Plan, Truthful, Idle, Call, Recovering
<1>2. ASSUME NEW c \in Calls, Load(c) PROVE Truthful'
  BY <1>2, <1>0 DEF Load, Truthful, Idle, Call, Recovering
<1>3. ASSUME NEW c \in Calls, LoadComplete(c) PROVE Truthful'
  BY <1>3, <1>0 DEF LoadComplete, Released, Truthful, Idle, Call, Recovering
<1>4. ASSUME NEW c \in Calls, Abort(c) PROVE Truthful'
  BY <1>4, <1>0 DEF Abort, Released, Truthful, Idle, Call, Recovering
<1>5. ASSUME NEW c \in Calls, StartRecovery(c) PROVE Truthful'
  BY <1>5, <1>0 DEF StartRecovery, LeaseId, Truthful, Idle, Call, Recovering
<1>6. ASSUME NEW c \in Calls, Admit(c) PROVE Truthful'
  BY <1>6, <1>0 DEF Admit, LeaseId, Truthful, Idle, Call, Recovering
<1>7. ASSUME NEW c \in Calls, MatchPatch(c) PROVE Truthful'
  BY <1>7, <1>0 DEF MatchPatch, At, BackUp, Patched, Truthful, Idle, Call,
     Recovering
<1>8. ASSUME NEW c \in Calls, SkipPatch(c) PROVE Truthful'
  BY <1>8, <1>0 DEF SkipPatch, At, NextPatch, Truthful, Idle, Call, Recovering
<1>9. ASSUME NEW c \in Calls, Prepare(c) PROVE Truthful'
  BY <1>9, <1>0 DEF Prepare, At, Truthful, Idle, Call, Recovering
<1>10. ASSUME NEW c \in Calls, PrepareNothing(c) PROVE Truthful'
  BY <1>10, <1>0 DEF PrepareNothing, At, Truthful, Idle, Call, Recovering
<1>11. ASSUME NEW c \in Calls, PrepareRefused(c) PROVE Truthful'
  BY <1>11, <1>0 DEF PrepareRefused, At, NextPatch, Ends, Truthful, Idle,
     Call, Recovering
<1>12. ASSUME NEW c \in Calls, Write(c) PROVE Truthful'
  BY <1>12, <1>0 DEF Write, At, Truthful, Idle, Call, Recovering
<1>13. ASSUME NEW c \in Calls, WriteRefused(c) PROVE Truthful'
  BY <1>13, <1>0 DEF WriteRefused, At, Ends, Truthful, Idle, Call, Recovering
<1>14. ASSUME NEW c \in Calls, ChunkApplied(c) PROVE Truthful'
  BY <1>14, <1>0 DEF ChunkApplied, At, Truthful, Idle, Call, Recovering
<1>15. ASSUME NEW c \in Calls, VerifyPasses(c) PROVE Truthful'
  BY <1>15, <1>0 DEF VerifyPasses, At, Truthful, Idle, Call, Recovering
<1>16. ASSUME NEW c \in Calls, VerifyFails(c) PROVE Truthful'
  BY <1>16, <1>0 DEF VerifyFails, At, Truthful, Idle, Call, Recovering
<1>17. ASSUME NEW c \in Calls, ClearCursor(c) PROVE Truthful'
  BY <1>17, <1>0 DEF ClearCursor, At, Ends, Released, Truthful, Idle, Call,
     Recovering
<1>18. ASSUME NEW c \in Calls, SignChunk(c) PROVE Truthful'
  <2>1. ChunkReceipt(c).by = "apply"
    BY DEF ChunkReceipt
  <2>2. receipts' \subseteq receipts \cup {ChunkReceipt(c)}
    BY <1>18 DEF SignChunk
  <2> QED BY <2>1, <2>2 DEF Truthful
<1>19. ASSUME NEW c \in Calls, SignFails(c) PROVE Truthful'
  <2>1. ChunkReceipt(c).by = "apply"
    BY DEF ChunkReceipt
  <2>2. receipts' \subseteq receipts \cup {ChunkReceipt(c)}
    BY <1>19 DEF SignFails
  <2> QED BY <2>1, <2>2 DEF Truthful
<1>20. ASSUME NEW c \in Calls, RestoreOwn(c) PROVE Truthful'
  BY <1>20, <1>0 DEF RestoreOwn, At, Truthful, Idle, Call, Recovering
<1>21. ASSUME NEW c \in Calls, Block(c) PROVE Truthful'
  BY <1>21, <1>0 DEF Block, At, Ends, Released, Truthful, Idle, Call,
     Recovering
<1>22. ASSUME NEW c \in Calls, Save(c) PROVE Truthful'
  BY <1>22, <1>0 DEF Save, At, Ends, Truthful, Idle, Call, Recovering
<1>23. ASSUME NEW c \in Calls, CheckPostimages(c) PROVE Truthful'
  BY <1>23, <1>0 DEF CheckPostimages, At, Truthful, Idle, Call, Recovering
<1>24. ASSUME NEW c \in Calls, SignRecovery(c) PROVE Truthful'
  <2>1. call[c].at = "attesting"
    BY <1>24 DEF SignRecovery, At
  <2>2. OneImage(call[c].effects)
    BY <2>1 DEF Agreed, Recovering
  <2>3. /\ RecoveryReceipt(c).by = "recover" /\ RecoveryReceipt(c).effects = call[c].effects
        /\ Imaged(RecoveryReceipt(c))
    BY <2>2, RecoveryReceiptTrue
  <2>4. receipts' \subseteq receipts \cup {RecoveryReceipt(c)}
    BY <1>24 DEF SignRecovery
  <2> QED BY <2>3, <2>4 DEF Truthful
<1>25. ASSUME NEW c \in Calls, SignRecoveryFails(c) PROVE Truthful'
  <2>1. call[c].at = "attesting"
    BY <1>25 DEF SignRecoveryFails, At
  <2>2. OneImage(call[c].effects)
    BY <2>1 DEF Agreed, Recovering
  <2>3. /\ RecoveryReceipt(c).by = "recover" /\ RecoveryReceipt(c).effects = call[c].effects
        /\ Imaged(RecoveryReceipt(c))
    BY <2>2, RecoveryReceiptTrue
  <2>4. receipts' \subseteq receipts \cup {RecoveryReceipt(c)}
    BY <1>25 DEF SignRecoveryFails
  <2> QED BY <2>3, <2>4 DEF Truthful
<1>26. ASSUME NEW c \in Calls, RecheckPostimages(c) PROVE Truthful'
  BY <1>26, <1>0 DEF RecheckPostimages, At, Truthful, Idle, Call, Recovering
<1>27. ASSUME NEW c \in Calls, PostimageChanged(c) PROVE Truthful'
  BY <1>27, <1>0 DEF PostimageChanged, At, Quit, Ends, Released, Truthful,
     Idle, Call, Recovering
<1>28. ASSUME NEW c \in Calls, CompareCursor(c) PROVE Truthful'
  <2>1. CASE cursor = call[c].cur
    <3>1. /\ call[c].at = "comparing" /\ call'[c] = [call[c] EXCEPT !.at = "advancing"]
          /\ \A d \in Calls \ {c} : call'[d] = call[d]
      BY <1>0, <1>28, <2>1 DEF CompareCursor, At
    <3> QED BY <1>0, <1>28, <3>1 DEF CompareCursor, Call, Truthful, Recovering
  <2>2. CASE cursor # call[c].cur
    BY <1>0, <1>28, <2>2 DEF CompareCursor, Quit, Ends, Idle, Call, Truthful, Recovering
  <2> QED BY <2>1, <2>2
<1>29. ASSUME NEW c \in Calls, Advance(c) PROVE Truthful'
  BY <1>29, <1>0 DEF Advance, At, Quit, Ends, Released, Truthful, Idle, Call,
     Recovering
<1>30. ASSUME NEW i \in Patches, Edit(i) PROVE Truthful'
  BY <1>30, <1>0 DEF Edit, Fault, Truthful, Idle, Call, Recovering
<1>31. CASE LeaseExpires
  BY <1>31, <1>0 DEF LeaseExpires, Fault, Truthful, Idle, Call, Recovering
<1>32. ASSUME NEW c \in Calls, Crash(c) PROVE Truthful'
  BY <1>32, <1>0 DEF Crash, Fault, Ends, Truthful, Idle, Call, Recovering
<1>33. CASE UNCHANGED vars
  BY <1>33, <1>0 DEF vars, Truthful, Idle, Call, Recovering
<1>34. ASSUME NEW c \in Calls, EnterFence(c) PROVE Truthful'
  BY <1>34, <1>0 DEF EnterFence, At, Truthful, Idle, Call, Recovering
<1>35. ASSUME NEW c \in Calls, WrittenEffect(c) PROVE Truthful'
  BY <1>35, <1>0 DEF WrittenEffect, At, NextPatch, Ends, Truthful, Idle,
     Call, Recovering
<1>36. ASSUME NEW c \in Calls, Aborted(c) PROVE Truthful'
  BY <1>36, <1>0 DEF Aborted, Ends, Released, Truthful, Idle, Call, Recovering
<1> QED
  BY <1>1, <1>2, <1>3, <1>4, <1>5, <1>6, <1>7, <1>8, <1>9, <1>10, <1>11,
     <1>12, <1>13, <1>14, <1>15, <1>16, <1>17, <1>18, <1>19, <1>20, <1>21,
     <1>22, <1>23, <1>24, <1>25, <1>26, <1>27, <1>28, <1>29, <1>30, <1>31,
     <1>32, <1>33, <1>34, <1>35, <1>36 DEF Next, ApplyStep, RecoverStep

LEMMA BackedStep ==
    ASSUME Typed, FromLedger, Agreed, Backed, [Next]_vars
    PROVE  Backed'
<1>0. call \in [Calls -> Call]
  BY DEF Typed, TypeOK
<1>1. ASSUME NEW c \in Calls, Plan(c) PROVE Backed'
  <2>1. /\ call[c].at = "idle" /\ call'[c].at = "loaded" /\ call'[c].rows = call[c].rows
        /\ call'[c].effects = call[c].effects
        /\ \A d \in Calls \ {c} : call'[d] = call[d]
    BY <1>0, <1>1 DEF Plan, Call
  <2>2. UNCHANGED <<intents, receipts>>
    BY <1>1 DEF Plan
  <2> QED BY <2>1, <2>2 DEF Backed, Recovering
<1>2. ASSUME NEW c \in Calls, Load(c) PROVE Backed'
  BY <1>2, <1>0 DEF Load, Backed, Idle, Call, Recovering
<1>3. ASSUME NEW c \in Calls, LoadComplete(c) PROVE Backed'
  BY <1>3, <1>0 DEF LoadComplete, Released, Backed, Idle, Call, Recovering
<1>4. ASSUME NEW c \in Calls, Abort(c) PROVE Backed'
  BY <1>4, <1>0 DEF Abort, Released, Backed, Idle, Call, Recovering
<1>5. ASSUME NEW c \in Calls, StartRecovery(c) PROVE Backed'
  BY <1>5, <1>0 DEF StartRecovery, LeaseId, Backed, Idle, Call, Recovering
<1>6. ASSUME NEW c \in Calls, Admit(c) PROVE Backed'
  BY <1>6, <1>0 DEF Admit, LeaseId, Backed, Idle, Call, Recovering
<1>7. ASSUME NEW c \in Calls, MatchPatch(c) PROVE Backed'
  BY <1>7, <1>0 DEF MatchPatch, At, BackUp, Patched, Backed, Idle, Call,
     Recovering
<1>8. ASSUME NEW c \in Calls, SkipPatch(c) PROVE Backed'
  BY <1>8, <1>0 DEF SkipPatch, At, NextPatch, Backed, Idle, Call, Recovering
<1>9. ASSUME NEW c \in Calls, Prepare(c) PROVE Backed'
  BY <1>9, <1>0 DEF Prepare, At, Backed, Idle, Call, Recovering
<1>10. ASSUME NEW c \in Calls, PrepareNothing(c) PROVE Backed'
  BY <1>10, <1>0 DEF PrepareNothing, At, Backed, Idle, Call, Recovering
<1>11. ASSUME NEW c \in Calls, PrepareRefused(c) PROVE Backed'
  <2>1. call[c].at = "matched" /\ UNCHANGED <<intents, receipts, locked>>
    BY <1>11 DEF PrepareRefused, At
  <2>2. /\ NextPatch(c).at = "matching" /\ NextPatch(c).effects = call[c].effects
        /\ NextPatch(c).rows = call[c].rows
    BY <2>1, NextFits
  <2>3. /\ call'[c] = Idle \/ call'[c] = NextPatch(c)
        /\ \A d \in Calls \ {c} : call'[d] = call[d]
    BY <1>0, <1>11 DEF PrepareRefused, Ends
  <2> QED BY <2>1, <2>2, <2>3 DEF Backed, Idle, Recovering
<1>12. ASSUME NEW c \in Calls, Write(c) PROVE Backed'
  BY <1>12, <1>0 DEF Write, At, Backed, Idle, Call, Recovering
<1>13. ASSUME NEW c \in Calls, WriteRefused(c) PROVE Backed'
  BY <1>13, <1>0 DEF WriteRefused, At, Ends, Backed, Idle, Call, Recovering
<1>14. ASSUME NEW c \in Calls, ChunkApplied(c) PROVE Backed'
  BY <1>14, <1>0 DEF ChunkApplied, At, Backed, Idle, Call, Recovering
<1>15. ASSUME NEW c \in Calls, VerifyPasses(c) PROVE Backed'
  BY <1>15, <1>0 DEF VerifyPasses, At, Backed, Idle, Call, Recovering
<1>16. ASSUME NEW c \in Calls, VerifyFails(c) PROVE Backed'
  BY <1>16, <1>0 DEF VerifyFails, At, Backed, Idle, Call, Recovering
<1>17. ASSUME NEW c \in Calls, ClearCursor(c) PROVE Backed'
  BY <1>17, <1>0 DEF ClearCursor, At, Ends, Released, Backed, Idle, Call,
     Recovering
<1>18. ASSUME NEW c \in Calls, SignChunk(c) PROVE Backed'
  <2>1. receipts \subseteq receipts'
    BY <1>18 DEF SignChunk
  <2>2. \A E : Covered(receipts, E) => Covered(receipts', E)
    BY <2>1 DEF Covered
  <2>3. /\ call'[c].at \notin {"rechecking", "comparing", "advancing"}
        /\ \A d \in Calls \ {c} : call'[d] = call[d]
    BY <1>0, <1>18 DEF SignChunk, At, Quit, Ends, Idle, Call
  <2> QED BY <2>2, <2>3 DEF Backed
<1>19. ASSUME NEW c \in Calls, SignFails(c) PROVE Backed'
  <2>1. receipts \subseteq receipts'
    BY <1>19 DEF SignFails
  <2>2. \A E : Covered(receipts, E) => Covered(receipts', E)
    BY <2>1 DEF Covered
  <2>3. /\ call'[c].at \notin {"rechecking", "comparing", "advancing"}
        /\ \A d \in Calls \ {c} : call'[d] = call[d]
    BY <1>0, <1>19 DEF SignFails, At, Quit, Ends, Idle, Call
  <2> QED BY <2>2, <2>3 DEF Backed
<1>20. ASSUME NEW c \in Calls, RestoreOwn(c) PROVE Backed'
  BY <1>20, <1>0 DEF RestoreOwn, At, Backed, Idle, Call, Recovering
<1>21. ASSUME NEW c \in Calls, Block(c) PROVE Backed'
  BY <1>21, <1>0 DEF Block, At, Ends, Released, Backed, Idle, Call, Recovering
<1>22. ASSUME NEW c \in Calls, Save(c) PROVE Backed'
  BY <1>22, <1>0 DEF Save, At, Ends, Backed, Idle, Call, Recovering
<1>23. ASSUME NEW c \in Calls, CheckPostimages(c) PROVE Backed'
  <2>1. /\ call'[c].effects = call[c].effects /\ receipts' = receipts
        /\ call'[c].at = IF SignedBefore(c) THEN "rechecking" ELSE "attesting"
        /\ \A d \in Calls \ {c} : call'[d] = call[d]
    BY <1>0, <1>23 DEF CheckPostimages, At, Call
  <2>2. SignedBefore(c) => Covered(receipts, call[c].effects)
    BY DEF SignedBefore, Covered, FromLedger
  <2> QED BY <2>1, <2>2 DEF Backed
<1>24. ASSUME NEW c \in Calls, SignRecovery(c) PROVE Backed'
  <2>1. receipts \subseteq receipts'
    BY <1>24 DEF SignRecovery
  <2>2. \A E : Covered(receipts, E) => Covered(receipts', E)
    BY <2>1 DEF Covered
  <2>3. /\ call'[c].at \in {"rechecking", "comparing", "advancing"} =>
              call[c].at = "attesting" /\ RecoveryReceipt(c) \in receipts'
              /\ call'[c].effects = call[c].effects
        /\ \A d \in Calls \ {c} : call'[d] = call[d]
    BY <1>0, <1>24 DEF SignRecovery, At, Quit, Ends, Idle, Call
  <2>4. call[c].at = "attesting" => Covered({RecoveryReceipt(c)}, call[c].effects)
    BY RecoveryReceiptTrue DEF Agreed, Recovering, Covered, Imaged
  <2>5. RecoveryReceipt(c) \in receipts' => \A E :
            Covered({RecoveryReceipt(c)}, E) => Covered(receipts', E)
    BY DEF Covered
  <2> QED BY <2>2, <2>3, <2>4, <2>5 DEF Backed
<1>25. ASSUME NEW c \in Calls, SignRecoveryFails(c) PROVE Backed'
  <2>1. receipts \subseteq receipts'
    BY <1>25 DEF SignRecoveryFails
  <2>2. \A E : Covered(receipts, E) => Covered(receipts', E)
    BY <2>1 DEF Covered
  <2>3. /\ call'[c].at \in {"rechecking", "comparing", "advancing"} =>
              call[c].at = "attesting" /\ RecoveryReceipt(c) \in receipts'
              /\ call'[c].effects = call[c].effects
        /\ \A d \in Calls \ {c} : call'[d] = call[d]
    BY <1>0, <1>25 DEF SignRecoveryFails, At, Quit, Ends, Idle, Call
  <2>4. call[c].at = "attesting" => Covered({RecoveryReceipt(c)}, call[c].effects)
    BY RecoveryReceiptTrue DEF Agreed, Recovering, Covered, Imaged
  <2>5. RecoveryReceipt(c) \in receipts' => \A E :
            Covered({RecoveryReceipt(c)}, E) => Covered(receipts', E)
    BY DEF Covered
  <2> QED BY <2>2, <2>3, <2>4, <2>5 DEF Backed
<1>26. ASSUME NEW c \in Calls, RecheckPostimages(c) PROVE Backed'
  BY <1>26, <1>0 DEF RecheckPostimages, At, Backed, Idle, Call, Recovering
<1>27. ASSUME NEW c \in Calls, PostimageChanged(c) PROVE Backed'
  BY <1>27, <1>0 DEF PostimageChanged, At, Quit, Ends, Released, Backed, Idle,
     Call, Recovering
<1>28. ASSUME NEW c \in Calls, CompareCursor(c) PROVE Backed'
  <2>1. CASE cursor = call[c].cur
    <3>1. /\ call[c].at = "comparing" /\ call'[c] = [call[c] EXCEPT !.at = "advancing"]
          /\ \A d \in Calls \ {c} : call'[d] = call[d]
      BY <1>0, <1>28, <2>1 DEF CompareCursor, At
    <3> QED BY <1>0, <1>28, <3>1 DEF CompareCursor, Call, Backed, Recovering
  <2>2. CASE cursor # call[c].cur
    BY <1>0, <1>28, <2>2 DEF CompareCursor, Quit, Ends, Idle, Call, Backed, Recovering
  <2> QED BY <2>1, <2>2
<1>29. ASSUME NEW c \in Calls, Advance(c) PROVE Backed'
  BY <1>29, <1>0 DEF Advance, At, Quit, Ends, Released, Backed, Idle, Call,
     Recovering
<1>30. ASSUME NEW i \in Patches, Edit(i) PROVE Backed'
  BY <1>30, <1>0 DEF Edit, Fault, Backed, Idle, Call, Recovering
<1>31. CASE LeaseExpires
  BY <1>31, <1>0 DEF LeaseExpires, Fault, Backed, Idle, Call, Recovering
<1>32. ASSUME NEW c \in Calls, Crash(c) PROVE Backed'
  BY <1>32, <1>0 DEF Crash, Fault, Ends, Backed, Idle, Call, Recovering
<1>33. CASE UNCHANGED vars
  BY <1>33, <1>0 DEF vars, Backed, Idle, Call, Recovering
<1>34. ASSUME NEW c \in Calls, EnterFence(c) PROVE Backed'
  BY <1>34, <1>0 DEF EnterFence, At, Backed, Idle, Call, Recovering
<1>35. ASSUME NEW c \in Calls, WrittenEffect(c) PROVE Backed'
  <2>1. call[c].at = "written" /\ UNCHANGED <<intents, receipts, locked>>
    BY <1>35 DEF WrittenEffect, At
  <2>2. /\ NextPatch(c).at = "matching" /\ NextPatch(c).effects = call[c].effects
        /\ NextPatch(c).rows = call[c].rows
    BY <2>1, NextFits
  <2>3. /\ call'[c] = Idle \/ call'[c] = NextPatch(c)
        /\ \A d \in Calls \ {c} : call'[d] = call[d]
    BY <1>0, <1>35 DEF WrittenEffect, Ends
  <2> QED BY <2>1, <2>2, <2>3 DEF Backed, Idle, Recovering
<1>36. ASSUME NEW c \in Calls, Aborted(c) PROVE Backed'
  BY <1>36, <1>0 DEF Aborted, Ends, Released, Backed, Idle, Call, Recovering
<1> QED
  BY <1>1, <1>2, <1>3, <1>4, <1>5, <1>6, <1>7, <1>8, <1>9, <1>10, <1>11,
     <1>12, <1>13, <1>14, <1>15, <1>16, <1>17, <1>18, <1>19, <1>20, <1>21,
     <1>22, <1>23, <1>24, <1>25, <1>26, <1>27, <1>28, <1>29, <1>30, <1>31,
     <1>32, <1>33, <1>34, <1>35, <1>36 DEF Next, ApplyStep, RecoverStep

LEMMA RecoveredOnceStep ==
    ASSUME Typed, Agreed, Informed, Truthful, RecoveredOnce, [Next]_vars
    PROVE  RecoveredOnce'
<1>0. call \in [Calls -> Call]
  BY DEF Typed, TypeOK
<1>1. ASSUME NEW c \in Calls, Plan(c) PROVE RecoveredOnce'
  BY <1>1, <1>0 DEF Plan, RecoveredOnce, Idle, Call, Recovering
<1>2. ASSUME NEW c \in Calls, Load(c) PROVE RecoveredOnce'
  BY <1>2, <1>0 DEF Load, RecoveredOnce, Idle, Call, Recovering
<1>3. ASSUME NEW c \in Calls, LoadComplete(c) PROVE RecoveredOnce'
  BY <1>3, <1>0 DEF LoadComplete, Released, RecoveredOnce, Idle, Call,
     Recovering
<1>4. ASSUME NEW c \in Calls, Abort(c) PROVE RecoveredOnce'
  BY <1>4, <1>0 DEF Abort, Released, RecoveredOnce, Idle, Call, Recovering
<1>5. ASSUME NEW c \in Calls, StartRecovery(c) PROVE RecoveredOnce'
  BY <1>5, <1>0 DEF StartRecovery, LeaseId, RecoveredOnce, Idle, Call,
     Recovering
<1>6. ASSUME NEW c \in Calls, Admit(c) PROVE RecoveredOnce'
  BY <1>6, <1>0 DEF Admit, LeaseId, RecoveredOnce, Idle, Call, Recovering
<1>7. ASSUME NEW c \in Calls, MatchPatch(c) PROVE RecoveredOnce'
  BY <1>7, <1>0 DEF MatchPatch, At, BackUp, Patched, RecoveredOnce, Idle,
     Call, Recovering
<1>8. ASSUME NEW c \in Calls, SkipPatch(c) PROVE RecoveredOnce'
  BY <1>8, <1>0 DEF SkipPatch, At, NextPatch, RecoveredOnce, Idle, Call,
     Recovering
<1>9. ASSUME NEW c \in Calls, Prepare(c) PROVE RecoveredOnce'
  BY <1>9, <1>0 DEF Prepare, At, RecoveredOnce, Idle, Call, Recovering
<1>10. ASSUME NEW c \in Calls, PrepareNothing(c) PROVE RecoveredOnce'
  BY <1>10, <1>0 DEF PrepareNothing, At, RecoveredOnce, Idle, Call, Recovering
<1>11. ASSUME NEW c \in Calls, PrepareRefused(c) PROVE RecoveredOnce'
  BY <1>11, <1>0 DEF PrepareRefused, At, NextPatch, Ends, RecoveredOnce, Idle,
     Call, Recovering
<1>12. ASSUME NEW c \in Calls, Write(c) PROVE RecoveredOnce'
  BY <1>12, <1>0 DEF Write, At, RecoveredOnce, Idle, Call, Recovering
<1>13. ASSUME NEW c \in Calls, WriteRefused(c) PROVE RecoveredOnce'
  BY <1>13, <1>0 DEF WriteRefused, At, Ends, RecoveredOnce, Idle, Call,
     Recovering
<1>14. ASSUME NEW c \in Calls, ChunkApplied(c) PROVE RecoveredOnce'
  BY <1>14, <1>0 DEF ChunkApplied, At, RecoveredOnce, Idle, Call, Recovering
<1>15. ASSUME NEW c \in Calls, VerifyPasses(c) PROVE RecoveredOnce'
  BY <1>15, <1>0 DEF VerifyPasses, At, RecoveredOnce, Idle, Call, Recovering
<1>16. ASSUME NEW c \in Calls, VerifyFails(c) PROVE RecoveredOnce'
  BY <1>16, <1>0 DEF VerifyFails, At, RecoveredOnce, Idle, Call, Recovering
<1>17. ASSUME NEW c \in Calls, ClearCursor(c) PROVE RecoveredOnce'
  BY <1>17, <1>0 DEF ClearCursor, At, Ends, Released, RecoveredOnce, Idle,
     Call, Recovering
<1>18. ASSUME NEW c \in Calls, SignChunk(c) PROVE RecoveredOnce'
  <2>1. ChunkReceipt(c).by = "apply"
    BY DEF ChunkReceipt
  <2>2. receipts' \subseteq receipts \cup {ChunkReceipt(c)}
    BY <1>18 DEF SignChunk
  <2> QED BY <2>1, <2>2 DEF RecoveredOnce
<1>19. ASSUME NEW c \in Calls, SignFails(c) PROVE RecoveredOnce'
  <2>1. ChunkReceipt(c).by = "apply"
    BY DEF ChunkReceipt
  <2>2. receipts' \subseteq receipts \cup {ChunkReceipt(c)}
    BY <1>19 DEF SignFails
  <2> QED BY <2>1, <2>2 DEF RecoveredOnce
<1>20. ASSUME NEW c \in Calls, RestoreOwn(c) PROVE RecoveredOnce'
  BY <1>20, <1>0 DEF RestoreOwn, At, RecoveredOnce, Idle, Call, Recovering
<1>21. ASSUME NEW c \in Calls, Block(c) PROVE RecoveredOnce'
  BY <1>21, <1>0 DEF Block, At, Ends, Released, RecoveredOnce, Idle, Call,
     Recovering
<1>22. ASSUME NEW c \in Calls, Save(c) PROVE RecoveredOnce'
  BY <1>22, <1>0 DEF Save, At, Ends, RecoveredOnce, Idle, Call, Recovering
<1>23. ASSUME NEW c \in Calls, CheckPostimages(c) PROVE RecoveredOnce'
  BY <1>23, <1>0 DEF CheckPostimages, At, RecoveredOnce, Idle, Call,
     Recovering
<1>24. ASSUME NEW c \in Calls, SignRecovery(c) PROVE RecoveredOnce'
  <2>1. call[c].at = "attesting"
    BY <1>24 DEF SignRecovery, At
  <2>2. OneImage(call[c].effects)
    BY <2>1 DEF Agreed, Recovering
  <2>3. /\ RecoveryReceipt(c).by = "recover" /\ RecoveryReceipt(c).effects = call[c].effects
        /\ Imaged(RecoveryReceipt(c))
    BY <2>2, RecoveryReceiptTrue
  <2>4. receipts' \subseteq receipts \cup {RecoveryReceipt(c)}
    BY <1>24 DEF SignRecovery
  <2>5. ASSUME NEW r \in receipts, r.by = "recover", r.effects = call[c].effects
        PROVE  FALSE
    <3>1. r \in call[c].rows /\ ~Covered(call[c].rows, call[c].effects)
      BY <2>1, <2>5 DEF Informed
    <3> QED BY <2>5, <3>1 DEF Covered, Truthful, Imaged
  <2> QED BY <2>3, <2>4, <2>5 DEF RecoveredOnce
<1>25. ASSUME NEW c \in Calls, SignRecoveryFails(c) PROVE RecoveredOnce'
  <2>1. call[c].at = "attesting"
    BY <1>25 DEF SignRecoveryFails, At
  <2>2. OneImage(call[c].effects)
    BY <2>1 DEF Agreed, Recovering
  <2>3. /\ RecoveryReceipt(c).by = "recover" /\ RecoveryReceipt(c).effects = call[c].effects
        /\ Imaged(RecoveryReceipt(c))
    BY <2>2, RecoveryReceiptTrue
  <2>4. receipts' \subseteq receipts \cup {RecoveryReceipt(c)}
    BY <1>25 DEF SignRecoveryFails
  <2>5. ASSUME NEW r \in receipts, r.by = "recover", r.effects = call[c].effects
        PROVE  FALSE
    <3>1. r \in call[c].rows /\ ~Covered(call[c].rows, call[c].effects)
      BY <2>1, <2>5 DEF Informed
    <3> QED BY <2>5, <3>1 DEF Covered, Truthful, Imaged
  <2> QED BY <2>3, <2>4, <2>5 DEF RecoveredOnce
<1>26. ASSUME NEW c \in Calls, RecheckPostimages(c) PROVE RecoveredOnce'
  BY <1>26, <1>0 DEF RecheckPostimages, At, RecoveredOnce, Idle, Call,
     Recovering
<1>27. ASSUME NEW c \in Calls, PostimageChanged(c) PROVE RecoveredOnce'
  BY <1>27, <1>0 DEF PostimageChanged, At, Quit, Ends, Released,
     RecoveredOnce, Idle, Call, Recovering
<1>28. ASSUME NEW c \in Calls, CompareCursor(c) PROVE RecoveredOnce'
  <2>1. CASE cursor = call[c].cur
    <3>1. /\ call[c].at = "comparing" /\ call'[c] = [call[c] EXCEPT !.at = "advancing"]
          /\ \A d \in Calls \ {c} : call'[d] = call[d]
      BY <1>0, <1>28, <2>1 DEF CompareCursor, At
    <3> QED BY <1>0, <1>28, <3>1 DEF CompareCursor, Call, RecoveredOnce, Recovering
  <2>2. CASE cursor # call[c].cur
    BY <1>0, <1>28, <2>2 DEF CompareCursor, Quit, Ends, Idle, Call, RecoveredOnce, Recovering
  <2> QED BY <2>1, <2>2
<1>29. ASSUME NEW c \in Calls, Advance(c) PROVE RecoveredOnce'
  BY <1>29, <1>0 DEF Advance, At, Quit, Ends, Released, RecoveredOnce, Idle,
     Call, Recovering
<1>30. ASSUME NEW i \in Patches, Edit(i) PROVE RecoveredOnce'
  BY <1>30, <1>0 DEF Edit, Fault, RecoveredOnce, Idle, Call, Recovering
<1>31. CASE LeaseExpires
  BY <1>31, <1>0 DEF LeaseExpires, Fault, RecoveredOnce, Idle, Call,
     Recovering
<1>32. ASSUME NEW c \in Calls, Crash(c) PROVE RecoveredOnce'
  BY <1>32, <1>0 DEF Crash, Fault, Ends, RecoveredOnce, Idle, Call, Recovering
<1>33. CASE UNCHANGED vars
  BY <1>33, <1>0 DEF vars, RecoveredOnce, Idle, Call, Recovering
<1>34. ASSUME NEW c \in Calls, EnterFence(c) PROVE RecoveredOnce'
  BY <1>34, <1>0 DEF EnterFence, At, RecoveredOnce, Idle, Call, Recovering
<1>35. ASSUME NEW c \in Calls, WrittenEffect(c) PROVE RecoveredOnce'
  BY <1>35, <1>0 DEF WrittenEffect, At, NextPatch, Ends, RecoveredOnce, Idle,
     Call, Recovering
<1>36. ASSUME NEW c \in Calls, Aborted(c) PROVE RecoveredOnce'
  BY <1>36, <1>0 DEF Aborted, Ends, Released, RecoveredOnce, Idle, Call, Recovering
<1> QED
  BY <1>1, <1>2, <1>3, <1>4, <1>5, <1>6, <1>7, <1>8, <1>9, <1>10, <1>11,
     <1>12, <1>13, <1>14, <1>15, <1>16, <1>17, <1>18, <1>19, <1>20, <1>21,
     <1>22, <1>23, <1>24, <1>25, <1>26, <1>27, <1>28, <1>29, <1>30, <1>31,
     <1>32, <1>33, <1>34, <1>35, <1>36 DEF Next, ApplyStep, RecoverStep

THEOREM Inductive == IInv /\ [Next]_vars => IInv'
BY TypeStep, FromLedgerStep, OrderedStep, SerialisedStep, WholeStep, AgreedStep, InformedStep,
   TruthfulStep, BackedStep, RecoveredOnceStep DEF IInv, Rest

THEOREM Invariance == Spec => []IInv
BY Initially, Inductive, PTL DEF Spec

----------------------------------------------------------------------------
(* What is proved *)

\* Every variable keeps its type, whatever crashes, fails or is written.
THEOREM TypeCorrect == Spec => []TypeOK
<1>1. IInv => TypeOK
  BY DEF IInv, Typed
<1> QED BY <1>1, Invariance, PTL

\* A recovery that is killed, or fails after signing, is not signed again.
THEOREM Once == Spec => []RecoveredOnce
<1>1. IInv => RecoveredOnce
  BY DEF IInv, Rest
<1> QED BY <1>1, Invariance, PTL

\* Recovery moves the cursor on by one chunk, with all of the chunk's effects
\* signed by one apply call and covered by one row with their images.
THEOREM Covers == Spec => RecoveryCovered
<1> DEFINE A == \A c \in Calls :
        At(c, "advancing") /\ cursor' # cursor /\ call'[c].at = "idle" =>
            /\ cursor'.index = call[c].cur.index + 1
            /\ \E r \in receipts, E \in SUBSET intents :
                /\ {e.patch : e \in E} = Chunk(call[c].cur)
                /\ \A e \in E : /\ e \in r.effects /\ r.images[e.patch] = e.after
                                /\ e.checkpoint = cursor'.checkpoint
<1>1. ASSUME IInv, [Next]_vars PROVE A
  <2>0. call \in [Calls -> Call]
    BY <1>1 DEF IInv, Typed, TypeOK
  <2> SUFFICES ASSUME NEW c \in Calls, call[c].at = "advancing", cursor' # cursor,
                      call'[c].at = "idle"
               PROVE  /\ cursor'.index = call[c].cur.index + 1
                      /\ \E r \in receipts, E \in SUBSET intents :
                          /\ {e.patch : e \in E} = Chunk(call[c].cur)
                          /\ \A e \in E : /\ e \in r.effects /\ r.images[e.patch] = e.after
                                          /\ e.checkpoint = cursor'.checkpoint
    BY DEF At
  <2>1. Advance(c)
    <3>1. ASSUME NEW d \in Calls, Plan(d) PROVE Advance(c)
      BY <2>0, <3>1 DEF Plan, Idle, Call
    <3>2. ASSUME NEW d \in Calls, Load(d) PROVE Advance(c)
      BY <2>0, <3>2 DEF Load, Idle, Call
    <3>3. ASSUME NEW d \in Calls, LoadComplete(d) PROVE Advance(c)
      BY <2>0, <3>3 DEF LoadComplete, Released, Idle, Call
    <3>4. ASSUME NEW d \in Calls, Abort(d) PROVE Advance(c)
      BY <2>0, <3>4 DEF Abort, Released, Idle, Call
    <3>5. ASSUME NEW d \in Calls, StartRecovery(d) PROVE Advance(c)
      BY <2>0, <3>5 DEF StartRecovery, LeaseId, Idle, Call
    <3>6. ASSUME NEW d \in Calls, Admit(d) PROVE Advance(c)
      BY <2>0, <3>6 DEF Admit, LeaseId, Idle, Call
    <3>7. ASSUME NEW d \in Calls, MatchPatch(d) PROVE Advance(c)
      BY <2>0, <3>7 DEF MatchPatch, At, BackUp, Patched, Idle, Call
    <3>8. ASSUME NEW d \in Calls, SkipPatch(d) PROVE Advance(c)
      BY <2>0, <3>8 DEF SkipPatch, At, NextPatch, Idle, Call
    <3>9. ASSUME NEW d \in Calls, Prepare(d) PROVE Advance(c)
      BY <2>0, <3>9 DEF Prepare, At, Idle, Call
    <3>10. ASSUME NEW d \in Calls, PrepareNothing(d) PROVE Advance(c)
      BY <2>0, <3>10 DEF PrepareNothing, At, Idle, Call
    <3>11. ASSUME NEW d \in Calls, PrepareRefused(d) PROVE Advance(c)
      BY <2>0, <3>11, NextFits, <1>1 DEF PrepareRefused, At, Ends, Idle, IInv
    <3>12. ASSUME NEW d \in Calls, Write(d) PROVE Advance(c)
      BY <2>0, <3>12 DEF Write, At, Idle, Call
    <3>34. ASSUME NEW d \in Calls, EnterFence(d) PROVE Advance(c)
      BY <2>0, <3>34 DEF EnterFence, At, Idle, Call
    <3>35. ASSUME NEW d \in Calls, WrittenEffect(d) PROVE Advance(c)
      BY <2>0, <3>35, NextFits, <1>1 DEF WrittenEffect, At, Ends, Idle, IInv
    <3>36. ASSUME NEW d \in Calls, Aborted(d) PROVE Advance(c)
      BY <2>0, <3>36 DEF Aborted, Ends, Released, Idle, Call
    <3>13. ASSUME NEW d \in Calls, WriteRefused(d) PROVE Advance(c)
      BY <2>0, <3>13 DEF WriteRefused, At, Ends, Idle, Call
    <3>14. ASSUME NEW d \in Calls, ChunkApplied(d) PROVE Advance(c)
      BY <2>0, <3>14 DEF ChunkApplied, At, Idle, Call
    <3>15. ASSUME NEW d \in Calls, VerifyPasses(d) PROVE Advance(c)
      BY <2>0, <3>15 DEF VerifyPasses, At, Idle, Call
    <3>16. ASSUME NEW d \in Calls, VerifyFails(d) PROVE Advance(c)
      BY <2>0, <3>16 DEF VerifyFails, At, Idle, Call
    <3>17. ASSUME NEW d \in Calls, ClearCursor(d) PROVE Advance(c)
      BY <2>0, <3>17 DEF ClearCursor, At, Ends, Released, Idle, Call
    <3>18. ASSUME NEW d \in Calls, SignChunk(d) PROVE Advance(c)
      BY <2>0, <3>18 DEF SignChunk, At, Idle, Call
    <3>19. ASSUME NEW d \in Calls, SignFails(d) PROVE Advance(c)
      BY <2>0, <3>19 DEF SignFails, At, Fault, Idle, Call
    <3>20. ASSUME NEW d \in Calls, RestoreOwn(d) PROVE Advance(c)
      BY <2>0, <3>20 DEF RestoreOwn, At, Idle, Call
    <3>21. ASSUME NEW d \in Calls, Block(d) PROVE Advance(c)
      BY <2>0, <3>21 DEF Block, At, Ends, Released, Idle, Call
    <3>22. ASSUME NEW d \in Calls, Save(d) PROVE Advance(c)
      BY <2>0, <3>22 DEF Save, At, Ends, Idle, Call
    <3>23. ASSUME NEW d \in Calls, CheckPostimages(d) PROVE Advance(c)
      BY <2>0, <3>23 DEF CheckPostimages, At, Idle, Call
    <3>24. ASSUME NEW d \in Calls, SignRecovery(d) PROVE Advance(c)
      BY <2>0, <3>24 DEF SignRecovery, At, Idle, Call
    <3>25. ASSUME NEW d \in Calls, SignRecoveryFails(d) PROVE Advance(c)
      BY <2>0, <3>25 DEF SignRecoveryFails, At, Fault, Quit, Ends, Released, Idle, Call
    <3>26. ASSUME NEW d \in Calls, RecheckPostimages(d) PROVE Advance(c)
      BY <2>0, <3>26 DEF RecheckPostimages, At, Idle, Call
    <3>27. ASSUME NEW d \in Calls, PostimageChanged(d) PROVE Advance(c)
      BY <2>0, <3>27 DEF PostimageChanged, At, Quit, Ends, Released, Idle, Call
    <3>28. ASSUME NEW d \in Calls, CompareCursor(d) PROVE Advance(c)
      BY <2>0, <3>28 DEF CompareCursor, At, Quit, Ends, Released, Idle, Call
    <3>29. ASSUME NEW d \in Calls, Advance(d) PROVE Advance(c)
      BY <2>0, <3>29 DEF Advance, At, Quit, Ends, Released, Idle, Call
    <3>30. ASSUME NEW i \in Patches, Edit(i) PROVE Advance(c)
      BY <2>0, <3>30 DEF Edit, Fault, Idle, Call
    <3>31. ASSUME LeaseExpires PROVE Advance(c)
      BY <2>0, <3>31 DEF LeaseExpires, Fault, Idle, Call
    <3>32. ASSUME NEW d \in Calls, Crash(d) PROVE Advance(c)
      BY <2>0, <3>32 DEF Crash, Fault, Ends, Idle, Call
    <3>33. CASE UNCHANGED vars
      BY <3>33 DEF vars
    <3> QED
      BY <1>1, <3>1, <3>2, <3>3, <3>4, <3>5, <3>6, <3>7, <3>8, <3>9, <3>10, <3>11, <3>12, <3>13, <3>14, <3>15, <3>16,
         <3>17, <3>18, <3>19, <3>20, <3>21, <3>22, <3>23, <3>24, <3>25, <3>26, <3>27, <3>28, <3>29, <3>30, <3>31, <3>32, <3>33, <3>34, <3>35,
         <3>36 DEF Next, ApplyStep, RecoverStep
  <2> DEFINE E == call[c].effects  k == CheckpointOf(E)
  <2>2. cursor' = [call[c].cur EXCEPT !.index = @ + 1, !.checkpoint = k]
    BY <2>1 DEF Advance
  <2>3. cursor'.index = call[c].cur.index + 1 /\ cursor'.checkpoint = k
    BY <2>0, <2>2 DEF Call, Cursor
  <2>4. E \in SUBSET intents /\ OfChunk(E, call[c].cur) /\ OfOneCall(E) /\ Covered(receipts, E)
    BY <1>1 DEF IInv, Rest, FromLedger, Whole, Backed, Recovering
  <2>5. \A e \in E : e.checkpoint = k
    BY <2>4 DEF OfOneCall, CheckpointOf
  <2>6. PICK r \in receipts : E \subseteq r.effects /\ \A e \in E : r.images[e.patch] = e.after
    BY <2>4 DEF Covered
  <2> QED BY <2>3, <2>4, <2>5, <2>6 DEF OfChunk
<1>2. IInv /\ [Next]_vars => [A]_vars
  BY <1>1
<1> QED BY <1>2, Initially, Inductive, PTL DEF Spec, RecoveryCovered

----------------------------------------------------------------------------
(* Every signed effect that is on disk has a backup *)

\* A call that was admitted.
Active(c) == call[c].at \notin {"idle", "loaded", "aborting"}

\* Serials number the admissions: each active call has its own, and whoever
\* holds the lease, or is in the fence, was admitted last.
Numbered ==
    /\ \A e \in intents : e.checkpoint <= serial
    /\ cursor.checkpoint <= serial
    /\ \A c \in Calls :
          /\ call[c].serial <= serial /\ call[c].cur.checkpoint <= serial
          /\ \A d \in Calls :
                Active(c) /\ Active(d) /\ call[c].serial = call[d].serial => c = d
          /\ Active(c) /\ (lease.pid = c \/ call[c].at = "fenced") => call[c].serial = serial

\* As long as an apply call is the last that was admitted, nobody knows of its
\* checkpoint: no cursor, and no recovery.
Newest ==
    \A c \in Calls :
        Active(c) /\ call[c].at \notin Recovering /\ call[c].serial = serial =>
            /\ cursor.checkpoint < serial
            /\ \A d \in Calls :
                  /\ call[d].cur.checkpoint < serial
                  /\ call[d].at \in Recovering =>
                        \A e \in call[d].effects : e.checkpoint < serial

----------------------------------------------------------------------------
(* What a step does to serials, checkpoints and the lease *)

\* A step of a call that stays the call it is, or ends.
Moved(c) ==
    /\ serial' = serial
    /\ \A d \in Calls \ {c} : call'[d] = call[d]
    /\ \/ call'[c] = Idle
       \/ /\ Active(c) /\ call'[c].at \notin {"idle", "loaded", "aborting"}
          /\ call'[c].serial = call[c].serial /\ call'[c].cur = call[c].cur
          /\ call'[c].at \in Recovering <=> call[c].at \in Recovering
          /\ call'[c].at = "fenced" => lease.pid = c
          /\ call[c].at \in Recovering => call'[c].effects = call[c].effects
    /\ lease' \in {lease, NoLease}
    /\ \/ cursor' \in {cursor, NoCursor}
       \/ /\ call'[c] = Idle /\ Active(c)
          /\ \/ call[c].at \notin Recovering /\ cursor'.checkpoint = call[c].serial
             \/ /\ call[c].at \in Recovering
                /\ \E e \in call[c].effects : cursor'.checkpoint = e.checkpoint
    /\ \A e \in intents' \ intents : Active(c) /\ e.checkpoint = call[c].serial

\* A step that no call takes.
Still ==
    /\ UNCHANGED <<call, serial, intents>>
    /\ cursor' \in {cursor, NoCursor} /\ lease' \in {lease, NoLease}

Numbering ==
    \/ \E c \in Calls : Plan(c) \/ Load(c) \/ Abort(c) \/ Admit(c) \/ StartRecovery(c) \/ Moved(c)
    \/ Still

LEMMA NumberingStep ==
    ASSUME Typed, [Next]_vars
    PROVE  Numbering
<1>0. call \in [Calls -> Call]
  BY DEF Typed, TypeOK
<1>1. ASSUME NEW c \in Calls, Plan(c) PROVE Numbering
  BY <1>1 DEF Numbering
<1>2. ASSUME NEW c \in Calls, Load(c) PROVE Numbering
  BY <1>2 DEF Numbering
<1>3. ASSUME NEW c \in Calls, LoadComplete(c) PROVE Numbering
  BY <1>3 DEF Numbering, Still, LoadComplete, Released
<1>4. ASSUME NEW c \in Calls, Abort(c) PROVE Numbering
  BY <1>4 DEF Numbering
<1>5. ASSUME NEW c \in Calls, StartRecovery(c) PROVE Numbering
  BY <1>5 DEF Numbering
<1>6. ASSUME NEW c \in Calls, Admit(c) PROVE Numbering
  BY <1>6 DEF Numbering
<1>7. ASSUME NEW c \in Calls, MatchPatch(c) PROVE Numbering
  <2>1. Moved(c)
    BY <1>0, <1>7 DEF MatchPatch, At, Moved, Active, Recovering, Call
  <2> QED BY <2>1 DEF Numbering
<1>8. ASSUME NEW c \in Calls, SkipPatch(c) PROVE Numbering
  <2>1. call[c].at \in {"matching", "matched", "written"}
    BY <1>8 DEF SkipPatch, At
  <2>2. NextPatch(c).at = "matching" /\ NextPatch(c).cur = call[c].cur
        /\ NextPatch(c).serial = call[c].serial
    BY <1>0, <2>1 DEF NextPatch, Call
  <2>3. Moved(c)
    BY <1>0, <1>8, <2>1, <2>2 DEF SkipPatch, At, Moved, Active, Recovering
  <2> QED BY <2>3 DEF Numbering
<1>9. ASSUME NEW c \in Calls, Prepare(c) PROVE Numbering
  <2>1. Moved(c)
    BY <1>0, <1>9 DEF Prepare, At, Intent, Moved, Active, Recovering, Call
  <2> QED BY <2>1 DEF Numbering
<1>10. ASSUME NEW c \in Calls, PrepareNothing(c) PROVE Numbering
  <2>1. Moved(c)
    BY <1>0, <1>10 DEF PrepareNothing, At, Moved, Active, Recovering, Call
  <2> QED BY <2>1 DEF Numbering
<1>11. ASSUME NEW c \in Calls, PrepareRefused(c) PROVE Numbering
  <2>1. call[c].at \in {"matching", "matched", "written"}
    BY <1>11 DEF PrepareRefused, At
  <2>2. NextPatch(c).at = "matching" /\ NextPatch(c).cur = call[c].cur
        /\ NextPatch(c).serial = call[c].serial
    BY <1>0, <2>1 DEF NextPatch, Call
  <2>3. Moved(c)
    BY <1>0, <1>11, <2>1, <2>2 DEF PrepareRefused, At, Ends, Moved, Active, Recovering
  <2> QED BY <2>3 DEF Numbering
<1>12. ASSUME NEW c \in Calls, Write(c) PROVE Numbering
  <2>1. Moved(c)
    BY <1>0, <1>12 DEF Write, At, Moved, Active, Recovering, Call
  <2> QED BY <2>1 DEF Numbering
<1>34. ASSUME NEW c \in Calls, EnterFence(c) PROVE Numbering
  <2>1. Moved(c)
    BY <1>0, <1>34 DEF EnterFence, At, Fenced, Moved, Active, Recovering, Call
  <2> QED BY <2>1 DEF Numbering
<1>35. ASSUME NEW c \in Calls, WrittenEffect(c) PROVE Numbering
  <2>1. call[c].at \in {"matching", "matched", "written"}
    BY <1>35 DEF WrittenEffect, At
  <2>2. NextPatch(c).at = "matching" /\ NextPatch(c).cur = call[c].cur
        /\ NextPatch(c).serial = call[c].serial
    BY <1>0, <2>1 DEF NextPatch, Call
  <2>3. Moved(c)
    BY <1>0, <1>35, <2>1, <2>2 DEF WrittenEffect, At, Ends, Moved, Active, Recovering
  <2> QED BY <2>3 DEF Numbering
<1>36. ASSUME NEW c \in Calls, Aborted(c) PROVE Numbering
  <2>1. Moved(c)
    BY <1>0, <1>36 DEF Aborted, Ends, Released, Moved, Active, Recovering, Call
  <2> QED BY <2>1 DEF Numbering
<1>13. ASSUME NEW c \in Calls, WriteRefused(c) PROVE Numbering
  <2>1. Moved(c)
    BY <1>0, <1>13 DEF WriteRefused, At, Ends, Moved, Active, Recovering, Call
  <2> QED BY <2>1 DEF Numbering
<1>14. ASSUME NEW c \in Calls, ChunkApplied(c) PROVE Numbering
  <2>1. Moved(c)
    BY <1>0, <1>14 DEF ChunkApplied, At, Moved, Active, Recovering, Call
  <2> QED BY <2>1 DEF Numbering
<1>15. ASSUME NEW c \in Calls, VerifyPasses(c) PROVE Numbering
  <2>1. Moved(c)
    BY <1>0, <1>15 DEF VerifyPasses, At, Moved, Active, Recovering, Call
  <2> QED BY <2>1 DEF Numbering
<1>16. ASSUME NEW c \in Calls, VerifyFails(c) PROVE Numbering
  <2>1. Moved(c)
    BY <1>0, <1>16 DEF VerifyFails, At, Moved, Active, Recovering, Call
  <2> QED BY <2>1 DEF Numbering
<1>17. ASSUME NEW c \in Calls, ClearCursor(c) PROVE Numbering
  <2>1. Moved(c)
    BY <1>0, <1>17 DEF ClearCursor, At, Ends, Released, Moved, Active, Recovering, Call
  <2> QED BY <2>1 DEF Numbering
<1>18. ASSUME NEW c \in Calls, SignChunk(c) PROVE Numbering
  <2>1. Moved(c)
    BY <1>0, <1>18 DEF SignChunk, At, Moved, Active, Recovering, Call
  <2> QED BY <2>1 DEF Numbering
<1>19. ASSUME NEW c \in Calls, SignFails(c) PROVE Numbering
  <2>1. Moved(c)
    BY <1>0, <1>19 DEF SignFails, At, Fault, Intent, Moved, Active, Recovering, Call
  <2> QED BY <2>1 DEF Numbering
<1>20. ASSUME NEW c \in Calls, RestoreOwn(c) PROVE Numbering
  <2>1. Moved(c)
    BY <1>0, <1>20 DEF RestoreOwn, At, Moved, Active, Recovering, Call
  <2> QED BY <2>1 DEF Numbering
<1>21. ASSUME NEW c \in Calls, Block(c) PROVE Numbering
  <2>1. Active(c) /\ call[c].at \notin Recovering /\ call[c].cur \in Cursor
    BY <1>0, <1>21 DEF Block, At, Active, Recovering, Call
  <2>2. cursor'.checkpoint = call[c].serial
    BY <2>1, <1>21 DEF Block, Cursor
  <2>3. Moved(c)
    BY <1>0, <1>21, <2>1, <2>2 DEF Block, At, Ends, Released, Moved
  <2> QED BY <2>3 DEF Numbering
<1>22. ASSUME NEW c \in Calls, Save(c) PROVE Numbering
  <2>1. Active(c) /\ call[c].at \notin Recovering /\ call[c].cur \in Cursor
    BY <1>0, <1>22 DEF Save, At, Active, Recovering, Call
  <2>2. cursor'.checkpoint = call[c].serial
    BY <2>1, <1>22 DEF Save, Cursor
  <2>3. Moved(c)
    BY <1>0, <1>22, <2>1, <2>2 DEF Save, At, Ends, Moved
  <2> QED BY <2>3 DEF Numbering
<1>23. ASSUME NEW c \in Calls, CheckPostimages(c) PROVE Numbering
  <2>1. Moved(c)
    BY <1>0, <1>23 DEF CheckPostimages, At, Moved, Active, Recovering, Call
  <2> QED BY <2>1 DEF Numbering
<1>24. ASSUME NEW c \in Calls, SignRecovery(c) PROVE Numbering
  <2>1. Moved(c)
    BY <1>0, <1>24 DEF SignRecovery, At, Moved, Active, Recovering, Call
  <2> QED BY <2>1 DEF Numbering
<1>25. ASSUME NEW c \in Calls, SignRecoveryFails(c) PROVE Numbering
  <2>1. Moved(c)
    BY <1>0, <1>25 DEF SignRecoveryFails, At, Fault, Quit, Ends, Released, Moved, Active,
       Recovering, Call
  <2> QED BY <2>1 DEF Numbering
<1>26. ASSUME NEW c \in Calls, RecheckPostimages(c) PROVE Numbering
  <2>1. Moved(c)
    BY <1>0, <1>26 DEF RecheckPostimages, At, Moved, Active, Recovering, Call
  <2> QED BY <2>1 DEF Numbering
<1>27. ASSUME NEW c \in Calls, PostimageChanged(c) PROVE Numbering
  <2>1. Moved(c)
    BY <1>0, <1>27 DEF PostimageChanged, At, Quit, Ends, Released, Moved, Active,
       Recovering, Call
  <2> QED BY <2>1 DEF Numbering
<1>28. ASSUME NEW c \in Calls, CompareCursor(c) PROVE Numbering
  <2>1. Moved(c)
    BY <1>0, <1>28 DEF CompareCursor, At, Quit, Ends, Released, Moved, Active, Recovering,
       Call
  <2> QED BY <2>1 DEF Numbering
<1>29. ASSUME NEW c \in Calls, Advance(c) PROVE Numbering
  <2>1. Active(c) /\ call[c].at \in Recovering /\ call[c].cur \in Cursor
    BY <1>0, <1>29 DEF Advance, At, Active, Recovering, Call
  <2>2. cursor'.checkpoint = CheckpointOf(call[c].effects)
    BY <2>1, <1>29 DEF Advance, Cursor
  <2>3. call[c].effects # {}
    BY <2>1 DEF Typed, Framed, Fits
  <2>4. \E e \in call[c].effects : cursor'.checkpoint = e.checkpoint
    BY <2>2, <2>3 DEF CheckpointOf
  <2>5. Moved(c)
    BY <1>0, <1>29, <2>1, <2>4 DEF Advance, At, Quit, Ends, Released, Moved
  <2> QED BY <2>5 DEF Numbering
<1>30. ASSUME NEW i \in Patches, Edit(i) PROVE Numbering
  BY <1>30 DEF Numbering, Still, Edit, Fault
<1>31. CASE LeaseExpires
  BY <1>31 DEF Numbering, Still, LeaseExpires, Fault
<1>32. ASSUME NEW c \in Calls, Crash(c) PROVE Numbering
  <2>1. Moved(c)
    BY <1>0, <1>32 DEF Crash, Fault, Ends, Moved, Active, Recovering, Call
  <2> QED BY <2>1 DEF Numbering
<1>33. CASE UNCHANGED vars
  BY <1>33 DEF Numbering, Still, vars
<1> QED
  BY <1>1, <1>2, <1>3, <1>4, <1>5, <1>6, <1>7, <1>8, <1>9, <1>10, <1>11, <1>12, <1>13,
     <1>14, <1>15, <1>16, <1>17, <1>18, <1>19, <1>20, <1>21, <1>22, <1>23, <1>24, <1>25,
     <1>26, <1>27, <1>28, <1>29, <1>30, <1>31, <1>32, <1>33, <1>34, <1>35, <1>36
     DEF Next, ApplyStep, RecoverStep

LEMMA SerialTypes ==
    ASSUME Typed
    PROVE  /\ serial \in Nat /\ cursor.checkpoint \in Nat
           /\ \A c \in Calls : /\ call[c].serial \in Nat /\ call[c].cur.checkpoint \in Nat
                               /\ Active(c) => call[c].serial \in Serials
           /\ \A e \in intents : e.checkpoint \in Nat
<1>1. serial \in Nat /\ cursor.checkpoint \in Nat
  BY LogAssumption DEF Typed, TypeOK, Cursor
<1>2. ASSUME NEW c \in Calls
      PROVE  /\ call[c].serial \in Nat /\ call[c].cur.checkpoint \in Nat
             /\ Active(c) => call[c].serial \in Serials
  <2>1. call[c].serial \in 0..MaxCalls /\ call[c].cur \in Cursor
    BY DEF Typed, TypeOK, Call
  <2> QED BY <2>1, LogAssumption DEF Typed, Framed, Fits, Active, Cursor
<1>3. \A e \in intents : e.checkpoint \in Nat
  BY LogAssumption DEF Typed, TypeOK, Effect, Serials
<1> QED BY <1>1, <1>2, <1>3

\* The first serial is 1.
LEMMA AdmittedPositive ==
    ASSUME Typed, Numbered, NEW c \in Calls, Active(c)
    PROVE  serial > 0
BY SerialTypes DEF Numbered, Serials

LEMMA BegunShape ==
    ASSUME Typed, NEW c \in Calls, Plan(c) \/ Load(c) \/ Abort(c)
    PROVE  /\ UNCHANGED <<serial, lease, intents>>
           /\ cursor' = cursor \/ cursor'.checkpoint = 0
           /\ \A d \in Calls \ {c} : call'[d] = call[d]
           /\ call[c].at = "idle" /\ call'[c].at \in {"loaded", "aborting"}
           /\ call'[c].serial \in {0, call[c].serial}
           /\ call'[c].cur.checkpoint \in {0, cursor'.checkpoint}
<1>1. call[c] \in Call /\ call \in [Calls -> Call]
  BY DEF Typed, TypeOK
<1>2. CASE Plan(c)
  <2>1. cursor'.checkpoint = 0
    BY <1>2 DEF Plan, NoCursor
  <2>2. call' = [call EXCEPT ![c] = [call[c] EXCEPT !.at = "loaded", !.cur = cursor']]
    BY <1>2, Zenon DEF Plan
  <2>3. call[c].at = "idle" /\ UNCHANGED <<serial, lease, intents>>
    BY <1>2 DEF Plan
  <2> QED BY <1>1, <2>1, <2>2, <2>3 DEF Call
<1>3. CASE Load(c)
  BY <1>1, <1>3 DEF Load, Call
<1>4. CASE Abort(c)
  BY <1>1, <1>4 DEF Abort, Idle, NoCursor
<1> QED BY <1>2, <1>3, <1>4

LEMMA AdmitShape ==
    ASSUME Typed, NEW c \in Calls, Admit(c) \/ StartRecovery(c)
    PROVE  /\ serial' = serial + 1 /\ lease'.pid = c /\ UNCHANGED intents
           /\ \A d \in Calls : call[d].at # "fenced"
           /\ \A d \in Calls \ {c} : call'[d] = call[d]
           /\ call'[c].serial = serial + 1
           /\ \/ /\ cursor'.checkpoint = call[c].cur.checkpoint
                 /\ call'[c].cur.checkpoint = call[c].cur.checkpoint
                 /\ call'[c].at = "matching"
              \/ /\ cursor' = cursor /\ call'[c].cur = cursor
                 /\ call'[c].at = "checking" /\ call'[c].effects \subseteq intents
<1>1. CASE Admit(c)
  <2>1. call[c] \in Call /\ call[c].cur \in Cursor
    BY DEF Typed, TypeOK, Call
  <2> QED BY <1>1, <2>1 DEF Admit, Unfenced, Typed, TypeOK, Call, Cursor
<1>2. CASE StartRecovery(c)
  <2> DEFINE r == [Idle EXCEPT !.at = "checking", !.cur = cursor, !.serial = serial + 1,
                       !.lease = LeaseId(serial + 1), !.effects = Interrupted,
                       !.rows = receipts]
  <2>1. /\ r.at = "checking" /\ r.cur = cursor /\ r.serial = serial + 1
        /\ r.effects = Interrupted
    BY DEF Idle
  <2>2. call' = [call EXCEPT ![c] = r]
    BY <1>2, Zenon DEF StartRecovery
  <2> HIDE DEF r
  <2>3. call'[c] = r /\ \A d \in Calls \ {c} : call'[d] = call[d]
    BY <2>2 DEF Typed, TypeOK
  <2>4. Interrupted \subseteq intents
    BY DEF Interrupted
  <2> QED BY <1>2, <2>1, <2>3, <2>4 DEF StartRecovery, Unfenced
<1> QED BY <1>1, <1>2

LEMMA IdleSerial == Idle.serial = 0 /\ Idle.cur.checkpoint = 0 /\ Idle.at = "idle"
BY DEF Idle, NoCursor

LEMMA NumberedStep ==
    ASSUME Typed, FromLedger, Numbered, [Next]_vars
    PROVE  Numbered'
<1> USE SerialTypes
<1>1. NoCursor.checkpoint = 0 /\ NoLease.pid \notin Calls
  BY NobodyAssumption DEF NoCursor, NoLease
<1>2. CASE Still
  BY <1>1, <1>2 DEF Still, Numbered, Active
<1>3. ASSUME NEW c \in Calls, Plan(c) \/ Load(c) \/ Abort(c) PROVE Numbered'
  BY <1>1, <1>3, BegunShape DEF Numbered, Active
<1>4. ASSUME NEW c \in Calls, Admit(c) \/ StartRecovery(c) PROVE Numbered'
  <2>1. \A d \in Calls \ {c} : call'[d].serial < serial + 1
    BY <1>4, AdmitShape DEF Numbered
  <2>2. \A d \in Calls : call'[d].serial <= serial' /\ call'[d].cur.checkpoint <= serial'
    BY <1>4, <2>1, AdmitShape DEF Numbered
  <2>3. cursor'.checkpoint <= serial' /\ \A e \in intents' : e.checkpoint <= serial'
    BY <1>4, AdmitShape DEF Numbered
  <2>4. \A d, e \in Calls :
           Active(d)' /\ Active(e)' /\ call'[d].serial = call'[e].serial => d = e
    BY <1>4, <2>1, AdmitShape DEF Numbered, Active
  <2> QED BY <1>4, <2>2, <2>3, <2>4, AdmitShape DEF Numbered, Active
<1>5. ASSUME NEW c \in Calls, Moved(c) PROVE Numbered'
  <2>1. \A e \in intents' : e.checkpoint <= serial'
    BY <1>5 DEF Moved, Numbered
  <2>2. cursor'.checkpoint <= serial'
    BY <1>1, <1>5 DEF Moved, Numbered, FromLedger
  <2>3. \A d \in Calls : call'[d].serial <= serial' /\ call'[d].cur.checkpoint <= serial'
    BY <1>5, IdleSerial DEF Moved, Numbered
  <2>4. \A d \in Calls : Active(d)' => Active(d) /\ call'[d].serial = call[d].serial
    BY <1>5, IdleSerial DEF Moved, Active
  <2>5. \A d \in Calls : call'[d].at = "fenced" => call[d].at = "fenced" \/ lease.pid = d
    BY <1>5, IdleSerial DEF Moved
  <2>6. serial' = serial /\ (lease' = lease \/ lease'.pid \notin Calls)
    BY <1>1, <1>5 DEF Moved
  <2>7. ASSUME NEW d \in Calls, Active(d)', lease'.pid = d \/ call'[d].at = "fenced"
        PROVE  call'[d].serial = serial'
    BY <2>4, <2>5, <2>6, <2>7 DEF Numbered
  <2>8. ASSUME NEW d \in Calls, NEW e \in Calls, Active(d)', Active(e)',
               call'[d].serial = call'[e].serial
        PROVE  d = e
    BY <2>4, <2>8 DEF Numbered
  <2> QED BY <2>1, <2>2, <2>3, <2>7, <2>8 DEF Numbered
<1> QED BY <1>2, <1>3, <1>4, <1>5, NumberingStep DEF Numbering

LEMMA NewestStep ==
    ASSUME Typed, FromLedger, Numbered, Newest, [Next]_vars
    PROVE  Newest'
<1> USE SerialTypes
<1>1. NoCursor.checkpoint = 0
  BY DEF NoCursor
<1>2. CASE Still
  BY <1>1, <1>2, AdmittedPositive DEF Still, Newest, Active
<1>3. ASSUME NEW c \in Calls, Plan(c) \/ Load(c) \/ Abort(c) PROVE Newest'
  <2>1. SUFFICES ASSUME NEW a \in Calls, Active(a)', call'[a].at \notin Recovering,
                        call'[a].serial = serial'
                 PROVE  /\ cursor'.checkpoint < serial'
                        /\ \A d \in Calls :
                              /\ call'[d].cur.checkpoint < serial'
                              /\ call'[d].at \in Recovering =>
                                    \A e \in call'[d].effects : e.checkpoint < serial'
    BY DEF Newest
  <2>2. a # c /\ call'[a] = call[a] /\ serial' = serial /\ Active(a)
    BY <1>3, <2>1, BegunShape DEF Active
  <2>3. cursor'.checkpoint < serial
    BY <1>3, <2>1, <2>2, BegunShape, AdmittedPositive DEF Newest
  <2> QED BY <1>3, <2>1, <2>2, <2>3, BegunShape DEF Newest, Recovering
<1>4. ASSUME NEW c \in Calls, Admit(c) \/ StartRecovery(c) PROVE Newest'
  <2>1. /\ cursor'.checkpoint < serial'
        /\ \A d \in Calls : call'[d].cur.checkpoint < serial'
    BY <1>4, AdmitShape DEF Numbered
  <2>2. \A d \in Calls : call'[d].at \in Recovering =>
           \A e \in call'[d].effects : e \in intents
    BY <1>4, AdmitShape DEF Recovering, FromLedger
  <2> QED BY <1>4, <2>1, <2>2, AdmitShape DEF Newest, Numbered
<1>5. ASSUME NEW c \in Calls, Moved(c) PROVE Newest'
  <2>1. SUFFICES ASSUME NEW a \in Calls, Active(a)', call'[a].at \notin Recovering,
                        call'[a].serial = serial'
                 PROVE  /\ cursor'.checkpoint < serial'
                        /\ \A d \in Calls :
                              /\ call'[d].cur.checkpoint < serial'
                              /\ call'[d].at \in Recovering =>
                                    \A e \in call'[d].effects : e.checkpoint < serial'
    BY DEF Newest
  <2>2. /\ serial' = serial /\ Active(a) /\ call[a].at \notin Recovering
        /\ call[a].serial = serial
    BY <1>5, <2>1, IdleSerial DEF Moved, Active
  <2>3. serial > 0
    BY <2>2, AdmittedPositive
  <2>4. cursor'.checkpoint < serial
    <3>1. CASE cursor' \in {cursor, NoCursor}
      BY <1>1, <2>2, <2>3, <3>1 DEF Newest
    <3>2. CASE call'[c] = Idle /\ Active(c) /\ call[c].at \notin Recovering
               /\ cursor'.checkpoint = call[c].serial
      <4>1. a # c
        BY <2>1, <3>2, IdleSerial DEF Active
      <4>2. call[c].serial # serial
        BY <2>2, <3>2, <4>1 DEF Numbered
      <4> QED BY <3>2, <4>2 DEF Numbered
    <3>3. CASE call[c].at \in Recovering
               /\ \E e \in call[c].effects : cursor'.checkpoint = e.checkpoint
      BY <2>2, <3>3 DEF Newest
    <3> QED BY <1>5, <3>1, <3>2, <3>3 DEF Moved
  <2>5. ASSUME NEW d \in Calls
        PROVE  /\ call'[d].cur.checkpoint < serial
               /\ call'[d].at \in Recovering =>
                     \A e \in call'[d].effects : e.checkpoint < serial
    <3>1. CASE call'[d] = Idle
      BY <2>3, <3>1, IdleSerial DEF Recovering
    <3>2. CASE call'[d] # Idle
      <4>1. /\ call'[d].cur = call[d].cur
            /\ call'[d].at \in Recovering =>
                  call[d].at \in Recovering /\ call'[d].effects = call[d].effects
        BY <1>5, <3>2 DEF Moved
      <4> QED BY <2>2, <4>1 DEF Newest
    <3> QED BY <3>1, <3>2
  <2> QED BY <2>2, <2>4, <2>5
<1> QED BY <1>2, <1>3, <1>4, <1>5, NumberingStep DEF Numbering

Computed == {"matched", "prepared", "fenced"}

\* The image is one that a patch was computed to give the file.
Tooled(i, img) ==
    \/ \E e \in intents : e.patch = i /\ e.after = img
    \/ \E c \in Calls : call[c].at \in Computed /\ call[c].patch = i /\ call[c].after = img

\* Backups hold files as they were before they were patched; what a patch was
\* computed to give is no content that others have written.
Images ==
    /\ \A i \in Patches : file[i].rev <= faults
    /\ \A n \in Serials, i \in Patches :
          backup[n][i] # NoImage => ~backup[n][i].patched /\ backup[n][i].rev <= faults
    /\ \A e \in intents : e.after.patched /\ e.after.rev <= faults
    /\ \A c \in Calls :
          call[c].at \in Computed => call[c].after.patched /\ call[c].after.rev <= faults

\* A call that may still write has its own backup, as long as it is the last
\* that was admitted; after that it does not pass the fence any more, and as
\* long as one is in it nobody is admitted.
KeptOwn ==
    \A c \in Calls :
        call[c].at \in Computed /\ call[c].serial = serial =>
            backup[serial][call[c].patch] # NoImage

\* Whatever a patch was computed to give a file, signed or not, has a backup
\* once it is there.
Routed ==
    \A i \in Patches :
        Tooled(i, file[i]) => \E n \in Serials : backup[n][i] # NoImage

----------------------------------------------------------------------------
(* What a step does to files and backups *)

\* No patch is computed; what is signed was computed before.
Shrinks ==
    /\ \A d \in Calls :
          call'[d].at \in Computed =>
              /\ call[d].at \in Computed
              /\ call'[d].patch = call[d].patch /\ call'[d].after = call[d].after
              /\ call'[d].serial = call[d].serial
    /\ \A e \in intents' \ intents : \E c \in Calls :
          call[c].at \in Computed /\ call[c].patch = e.patch /\ call[c].after = e.after
    /\ faults' \in {faults, faults + 1}
    /\ serial' \in {serial, serial + 1}
    /\ landed \subseteq landed'

\* The backups of a checkpoint are put back, and gone.
Wiped(k) ==
    /\ \A i \in Patches : file'[i] = IF backup[k][i] # NoImage THEN backup[k][i] ELSE file[i]
    /\ \A n \in Serials \ {k} : backup'[n] = backup[n]
    /\ \A i \in Patches : backup'[k][i] = NoImage

\* Some files are as in a backup again.
Restored ==
    /\ UNCHANGED backup
    /\ \A i \in Patches :
          \/ file'[i] = file[i]
          \/ \E n \in Serials : backup[n][i] # NoImage /\ file'[i] = backup[n][i]

Imaging ==
    \/ \E c \in Calls : MatchPatch(c)
    \/ /\ Shrinks
       /\ \/ UNCHANGED <<file, backup>>
          \/ \E c \in Calls : Write(c)
          \/ cursor.checkpoint \in Serials /\ Wiped(cursor.checkpoint)
          \/ \E c \in Calls : /\ call[c].at = "verifying" /\ call[c].serial \in Serials
                              /\ Wiped(call[c].serial)
          \/ Restored
          \/ \E i \in Patches : Edit(i)

LEMMA ImagingStep ==
    ASSUME Typed, [Next]_vars
    PROVE  Imaging
<1>0. /\ call \in [Calls -> Call] /\ file \in [Patches -> Image]
      /\ backup \in [Serials -> [Patches -> Saved]]
  BY DEF Typed, TypeOK
<1>1. ASSUME NEW c \in Calls, Plan(c) PROVE Imaging
  <2>1. call'[c].at \in {"loaded", "aborting"} /\ \A d \in Calls \ {c} : call'[d] = call[d]
    BY <1>1, BegunShape
  <2>2. UNCHANGED <<file, intents, backup, landed, serial, faults>>
    BY <1>1 DEF Plan
  <2>3. Shrinks
    BY <2>1, <2>2 DEF Shrinks, Computed
  <2> QED BY <2>2, <2>3 DEF Imaging
<1>2. ASSUME NEW c \in Calls, Load(c) PROVE Imaging
  <2>1. Shrinks
    BY <1>0, <1>2 DEF Load, Shrinks, Computed, Idle, Call
  <2> QED BY <1>2, <2>1 DEF Imaging, Load
<1>3. ASSUME NEW c \in Calls, LoadComplete(c) PROVE Imaging
  <2>1. Shrinks
    BY <1>0, <1>3 DEF LoadComplete, Released, Shrinks, Computed, Idle, Call
  <2> QED BY <1>3, <2>1 DEF Imaging, LoadComplete
<1>4. ASSUME NEW c \in Calls, Abort(c) PROVE Imaging
  <2>0. call'[c].at \in {"loaded", "aborting"} /\ \A d \in Calls \ {c} : call'[d] = call[d]
    BY <1>4, BegunShape
  <2>1. Shrinks
    BY <1>4, <2>0 DEF Abort, Shrinks, Computed
  <2>2. CASE cursor.checkpoint = 0
    BY <1>0, <1>4, <2>1, <2>2, LogAssumption DEF Abort, Serials, Imaging
  <2>3. CASE cursor.checkpoint # 0
    <3>1. cursor.checkpoint \in Serials
      BY <2>3, LogAssumption DEF Typed, TypeOK, Cursor, Serials
    <3>2. Wiped(cursor.checkpoint)
      BY <1>0, <1>4, <2>3, <3>1 DEF Abort, Wiped
    <3> QED BY <2>1, <3>1, <3>2 DEF Imaging
  <2> QED BY <2>2, <2>3
<1>5. ASSUME NEW c \in Calls, StartRecovery(c) PROVE Imaging
  <2>1. call'[c].at = "checking" /\ \A d \in Calls \ {c} : call'[d] = call[d]
    BY <1>0, <1>5, AdmitShape DEF StartRecovery, Idle
  <2>2. Shrinks
    BY <1>0, <1>5, <2>1 DEF StartRecovery, Shrinks, Computed, Idle, Call
  <2> QED BY <1>5, <2>2 DEF Imaging, StartRecovery
<1>6. ASSUME NEW c \in Calls, Admit(c) PROVE Imaging
  <2>1. Shrinks
    BY <1>0, <1>6 DEF Admit, Shrinks, Computed, Idle, Call
  <2> QED BY <1>6, <2>1 DEF Imaging, Admit
<1>7. ASSUME NEW c \in Calls, MatchPatch(c) PROVE Imaging
  BY <1>7 DEF Imaging
<1>8. ASSUME NEW c \in Calls, SkipPatch(c) PROVE Imaging
  <2>1. call[c].at \in {"matching", "matched", "written"}
    BY <1>8 DEF SkipPatch, At
  <2>2. NextPatch(c).at = "matching"
    BY <1>0, <2>1 DEF NextPatch, Call
  <2>3. Shrinks
    BY <1>0, <1>8, <2>1, <2>2 DEF SkipPatch, At, Shrinks, Computed, Idle, Call
  <2> QED BY <1>8, <2>3 DEF Imaging, SkipPatch
<1>9. ASSUME NEW c \in Calls, Prepare(c) PROVE Imaging
  <2>1. /\ call[c].at = "matched" /\ call'[c].at = "prepared"
        /\ call'[c].patch = call[c].patch /\ call'[c].after = call[c].after
        /\ call'[c].serial = call[c].serial
        /\ \A d \in Calls \ {c} : call'[d] = call[d]
    BY <1>0, <1>9 DEF Prepare, At, Call
  <2>2. \A e \in intents' \ intents : e.patch = call[c].patch /\ e.after = call[c].after
    BY <1>9 DEF Prepare, Intent
  <2>3. Shrinks
    BY <1>9, <2>1, <2>2 DEF Prepare, Shrinks, Computed
  <2> QED BY <1>9, <2>3 DEF Imaging, Prepare
<1>10. ASSUME NEW c \in Calls, PrepareNothing(c) PROVE Imaging
  <2>1. Shrinks
    BY <1>0, <1>10 DEF PrepareNothing, At, Shrinks, Computed, Idle, Call
  <2> QED BY <1>10, <2>1 DEF Imaging, PrepareNothing
<1>11. ASSUME NEW c \in Calls, PrepareRefused(c) PROVE Imaging
  <2>1. call[c].at \in {"matching", "matched", "written"}
    BY <1>11 DEF PrepareRefused, At
  <2>2. NextPatch(c).at = "matching"
    BY <1>0, <2>1 DEF NextPatch, Call
  <2>3. Shrinks
    BY <1>0, <1>11, <2>1, <2>2 DEF PrepareRefused, At, Ends, Shrinks, Computed, Idle, Call
  <2> QED BY <1>11, <2>3 DEF Imaging, PrepareRefused
<1>12. ASSUME NEW c \in Calls, Write(c) PROVE Imaging
  <2>1. call'[c].at = "written" /\ \A d \in Calls \ {c} : call'[d] = call[d]
    BY <1>0, <1>12 DEF Write, Call
  <2>2. Shrinks
    BY <1>12, <2>1 DEF Write, Shrinks, Computed
  <2> QED BY <1>12, <2>2 DEF Imaging
<1>34. ASSUME NEW c \in Calls, EnterFence(c) PROVE Imaging
  <2>1. Shrinks
    BY <1>0, <1>34 DEF EnterFence, At, Shrinks, Computed, Idle, Call
  <2> QED BY <1>34, <2>1 DEF Imaging, EnterFence
<1>35. ASSUME NEW c \in Calls, WrittenEffect(c) PROVE Imaging
  <2>1. call[c].at \in {"matching", "matched", "written"}
    BY <1>35 DEF WrittenEffect, At
  <2>2. NextPatch(c).at = "matching"
    BY <1>0, <2>1 DEF NextPatch, Call
  <2>3. Shrinks
    BY <1>0, <1>35, <2>1, <2>2 DEF WrittenEffect, At, Ends, Shrinks, Computed, Idle, Call
  <2> QED BY <1>35, <2>3 DEF Imaging, WrittenEffect
<1>36. ASSUME NEW c \in Calls, Aborted(c) PROVE Imaging
  <2>1. Shrinks
    BY <1>0, <1>36 DEF Aborted, Ends, Released, Shrinks, Computed, Idle, Call
  <2> QED BY <1>36, <2>1 DEF Imaging, Aborted
<1>13. ASSUME NEW c \in Calls, WriteRefused(c) PROVE Imaging
  <2>1. Shrinks
    BY <1>0, <1>13 DEF WriteRefused, At, Ends, Shrinks, Computed, Idle, Call
  <2> QED BY <1>13, <2>1 DEF Imaging, WriteRefused
<1>14. ASSUME NEW c \in Calls, ChunkApplied(c) PROVE Imaging
  <2>1. Shrinks
    BY <1>0, <1>14 DEF ChunkApplied, At, Shrinks, Computed, Idle, Call
  <2> QED BY <1>14, <2>1 DEF Imaging, ChunkApplied
<1>15. ASSUME NEW c \in Calls, VerifyPasses(c) PROVE Imaging
  <2>1. Shrinks
    BY <1>0, <1>15 DEF VerifyPasses, At, Shrinks, Computed, Idle, Call
  <2> QED BY <1>15, <2>1 DEF Imaging, VerifyPasses
<1>16. ASSUME NEW c \in Calls, VerifyFails(c) PROVE Imaging
  <2>1. Shrinks
    BY <1>0, <1>16 DEF VerifyFails, At, Shrinks, Computed, Idle, Call
  <2>2. call[c].serial \in Serials
    BY <1>16 DEF VerifyFails, At, Typed, Framed, Fits
  <2>3. Wiped(call[c].serial)
    BY <1>0, <1>16, <2>2 DEF VerifyFails, Wiped
  <2> QED BY <1>16, <2>1, <2>2, <2>3 DEF Imaging, VerifyFails, At
<1>17. ASSUME NEW c \in Calls, ClearCursor(c) PROVE Imaging
  <2>1. Shrinks
    BY <1>0, <1>17 DEF ClearCursor, At, Ends, Released, Shrinks, Computed, Idle, Call
  <2> QED BY <1>17, <2>1 DEF Imaging, ClearCursor
<1>18. ASSUME NEW c \in Calls, SignChunk(c) PROVE Imaging
  <2>1. Shrinks
    BY <1>0, <1>18 DEF SignChunk, At, Shrinks, Computed, Idle, Call
  <2> QED BY <1>18, <2>1 DEF Imaging, SignChunk
<1>19. ASSUME NEW c \in Calls, SignFails(c) PROVE Imaging
  <2>1. call'[c].at = "restoring" /\ \A d \in Calls \ {c} : call'[d] = call[d]
    BY <1>0, <1>19 DEF SignFails, Call
  <2>2. \A e \in intents' \ intents :
           call[c].at = "matched" /\ e.patch = call[c].patch /\ e.after = call[c].after
    BY <1>19 DEF SignFails, At, Intent
  <2>3. UNCHANGED <<file, backup, landed, serial>> /\ faults' = faults + 1
    BY <1>19 DEF SignFails, Fault
  <2>4. Shrinks
    BY <2>1, <2>2, <2>3 DEF Shrinks, Computed
  <2> QED BY <2>3, <2>4 DEF Imaging
<1>20. ASSUME NEW c \in Calls, RestoreOwn(c) PROVE Imaging
  <2>1. Shrinks
    BY <1>0, <1>20 DEF RestoreOwn, At, Shrinks, Computed, Idle, Call
  <2>2. call[c].serial \in Serials
    BY <1>20 DEF RestoreOwn, At, Typed, Framed, Fits
  <2>3. Restored
    BY <1>0, <1>20, <2>2 DEF RestoreOwn, Restored, Restorable
  <2> QED BY <2>1, <2>3 DEF Imaging
<1>21. ASSUME NEW c \in Calls, Block(c) PROVE Imaging
  <2>1. Shrinks
    BY <1>0, <1>21 DEF Block, At, Ends, Released, Shrinks, Computed, Idle, Call
  <2> QED BY <1>21, <2>1 DEF Imaging, Block
<1>22. ASSUME NEW c \in Calls, Save(c) PROVE Imaging
  <2>1. Shrinks
    BY <1>0, <1>22 DEF Save, At, Ends, Shrinks, Computed, Idle, Call
  <2> QED BY <1>22, <2>1 DEF Imaging, Save
<1>23. ASSUME NEW c \in Calls, CheckPostimages(c) PROVE Imaging
  <2>1. Shrinks
    BY <1>0, <1>23 DEF CheckPostimages, At, Shrinks, Computed, Idle, Call
  <2> QED BY <1>23, <2>1 DEF Imaging, CheckPostimages
<1>24. ASSUME NEW c \in Calls, SignRecovery(c) PROVE Imaging
  <2>1. Shrinks
    BY <1>0, <1>24 DEF SignRecovery, At, Shrinks, Computed, Idle, Call
  <2> QED BY <1>24, <2>1 DEF Imaging, SignRecovery
<1>25. ASSUME NEW c \in Calls, SignRecoveryFails(c) PROVE Imaging
  <2>1. Shrinks
    BY <1>0, <1>25 DEF SignRecoveryFails, At, Fault, Quit, Ends, Released, Shrinks,
       Computed, Idle, Call
  <2> QED BY <1>25, <2>1 DEF Imaging, SignRecoveryFails
<1>26. ASSUME NEW c \in Calls, RecheckPostimages(c) PROVE Imaging
  <2>1. Shrinks
    BY <1>0, <1>26 DEF RecheckPostimages, At, Shrinks, Computed, Idle, Call
  <2> QED BY <1>26, <2>1 DEF Imaging, RecheckPostimages
<1>27. ASSUME NEW c \in Calls, PostimageChanged(c) PROVE Imaging
  <2>1. Shrinks
    BY <1>0, <1>27 DEF PostimageChanged, At, Quit, Ends, Released, Shrinks, Computed, Idle,
       Call
  <2> QED BY <1>27, <2>1 DEF Imaging, PostimageChanged
<1>28. ASSUME NEW c \in Calls, CompareCursor(c) PROVE Imaging
  <2>1. call'[c].at \in {"advancing", "idle"} /\ \A d \in Calls \ {c} : call'[d] = call[d]
    BY <1>0, <1>28 DEF CompareCursor, Quit, Ends, Idle, Call
  <2>2. UNCHANGED <<intents, landed, faults, serial>>
    BY <1>28 DEF CompareCursor
  <2>3. Shrinks
    BY <2>1, <2>2 DEF Shrinks, Computed
  <2> QED BY <1>28, <2>3 DEF Imaging, CompareCursor
<1>29. ASSUME NEW c \in Calls, Advance(c) PROVE Imaging
  <2>1. Shrinks
    BY <1>0, <1>29 DEF Advance, At, Quit, Ends, Released, Shrinks, Computed, Idle, Call
  <2> QED BY <1>29, <2>1 DEF Imaging, Advance
<1>30. ASSUME NEW i \in Patches, Edit(i) PROVE Imaging
  <2>1. Shrinks
    BY <1>0, <1>30 DEF Edit, Fault, Shrinks, Computed, Idle, Call
  <2> QED BY <1>30, <2>1 DEF Imaging
<1>31. CASE LeaseExpires
  <2>1. Shrinks
    BY <1>0, <1>31 DEF LeaseExpires, Fault, Shrinks, Computed, Idle, Call
  <2> QED BY <1>31, <2>1 DEF Imaging, LeaseExpires
<1>32. ASSUME NEW c \in Calls, Crash(c) PROVE Imaging
  <2>1. Shrinks
    BY <1>0, <1>32 DEF Crash, Fault, Ends, Shrinks, Computed, Idle, Call
  <2> QED BY <1>32, <2>1 DEF Imaging, Crash
<1>33. CASE UNCHANGED vars
  <2>1. Shrinks
    BY <1>0, <1>33 DEF vars, Shrinks, Computed, Idle, Call
  <2> QED BY <1>33, <2>1 DEF Imaging, vars
<1> QED
  BY <1>1, <1>2, <1>3, <1>4, <1>5, <1>6, <1>7, <1>8, <1>9, <1>10, <1>11, <1>12, <1>13,
     <1>14, <1>15, <1>16, <1>17, <1>18, <1>19, <1>20, <1>21, <1>22, <1>23, <1>24, <1>25,
     <1>26, <1>27, <1>28, <1>29, <1>30, <1>31, <1>32, <1>33, <1>34, <1>35, <1>36
     DEF Next, ApplyStep, RecoverStep

LEMMA ImagesStep ==
    ASSUME Typed, Images, [Next]_vars
    PROVE  Images'
<1>0. /\ call \in [Calls -> Call] /\ file \in [Patches -> Image]
      /\ backup \in [Serials -> [Patches -> Saved]] /\ faults \in Nat
      /\ \A i \in Patches : file[i].rev \in Nat
  BY LogAssumption DEF Typed, TypeOK, Image
<1>1. /\ \A e \in intents : e.after \in Image /\ e.after.rev \in Nat
      /\ \A c \in Calls :
            call[c].at \in Computed =>
                /\ call[c].after \in Image /\ call[c].after.rev \in Nat
                /\ call[c].patch \in Patches /\ call[c].serial \in Serials
  BY LogAssumption DEF Typed, TypeOK, Framed, Fits, Effect, Image, Computed
<1>2. \A n \in Serials, i \in Patches :
         backup[n][i] # NoImage => backup[n][i] \in Image /\ backup[n][i].rev \in Nat
  BY <1>0, LogAssumption DEF Saved, Image
<1>3. ASSUME NEW c \in Calls, MatchPatch(c) PROVE Images'
  <2> DEFINE i == call[c].patch
             n == call[c].serial
  <2>1. i \in Patches /\ n \in Serials /\ ~file[i].patched
    BY <1>3 DEF MatchPatch, At, Matches, Typed, Framed, Fits
  <2>2. /\ backup' = [backup EXCEPT ![n][i] = file[i]]
        /\ UNCHANGED <<file, intents, faults>>
    BY <1>3 DEF MatchPatch, BackUp
  <2>3. \A m \in Serials, j \in Patches :
           backup'[m][j] = backup[m][j] \/ (j = i /\ backup'[m][j] = file[i])
    BY <1>0, <2>1, <2>2
  <2>4. /\ call'[c].at = "matched" /\ call'[c].after = Patched(file[i])
        /\ \A d \in Calls \ {c} : call'[d] = call[d]
    BY <1>0, <1>3 DEF MatchPatch, Call
  <2>5. Patched(file[i]).patched /\ Patched(file[i]).rev = file[i].rev
    BY <1>0, <2>1 DEF Patched, Image
  <2> QED BY <2>1, <2>2, <2>3, <2>4, <2>5 DEF Images
<1>4. ASSUME Shrinks PROVE /\ \A e \in intents' : e.after.patched /\ e.after.rev <= faults'
                           /\ \A c \in Calls : call'[c].at \in Computed =>
                                 call'[c].after.patched /\ call'[c].after.rev <= faults'
                           /\ faults <= faults'
  <2>1. \A e \in intents' : e.after.patched /\ e.after.rev <= faults /\ e.after.rev \in Nat
    BY <1>1, <1>4 DEF Shrinks, Images
  <2> QED BY <1>0, <1>1, <1>4, <2>1 DEF Shrinks, Images
<1>5. ASSUME Shrinks,
             \A i \in Patches : file'[i].rev \in Nat /\ file'[i].rev <= faults',
             \A n \in Serials, i \in Patches : backup'[n][i] \in {NoImage, backup[n][i]}
      PROVE  Images'
  <2>1. ASSUME NEW n \in Serials, NEW i \in Patches, backup'[n][i] # NoImage
        PROVE  ~backup'[n][i].patched /\ backup'[n][i].rev <= faults'
    BY <1>0, <1>2, <1>4, <1>5, <2>1 DEF Images, Shrinks
  <2> QED BY <1>4, <1>5, <2>1 DEF Images
<1>6. ASSUME Shrinks, UNCHANGED <<file, backup>> PROVE Images'
  BY <1>0, <1>4, <1>5, <1>6 DEF Images, Shrinks
<1>7. ASSUME Shrinks, NEW c \in Calls, Write(c) PROVE Images'
  <2>1. /\ call[c].at \in Computed /\ call[c].patch \in Patches
        /\ file' = [file EXCEPT ![call[c].patch] = call[c].after] /\ UNCHANGED backup
    BY <1>1, <1>7 DEF Write, At, Computed
  <2>2. \A i \in Patches : file'[i].rev \in Nat /\ file'[i].rev <= faults
    BY <1>0, <1>1, <2>1 DEF Images
  <2> QED BY <1>0, <1>4, <1>5, <1>7, <2>1, <2>2 DEF Shrinks
<1>8. ASSUME Shrinks, NEW k \in Serials, Wiped(k) PROVE Images'
  <2>1. \A i \in Patches : file'[i].rev \in Nat /\ file'[i].rev <= faults
    BY <1>0, <1>2, <1>8 DEF Images, Wiped
  <2>2. \A n \in Serials, i \in Patches : backup'[n][i] \in {NoImage, backup[n][i]}
    BY <1>8 DEF Wiped
  <2> QED BY <1>0, <1>5, <1>8, <2>1, <2>2 DEF Shrinks
<1>9. ASSUME Shrinks, Restored PROVE Images'
  <2>1. \A i \in Patches : file'[i].rev \in Nat /\ file'[i].rev <= faults
    BY <1>0, <1>2, <1>9 DEF Images, Restored
  <2> QED BY <1>0, <1>5, <1>9, <2>1 DEF Shrinks, Restored
<1>10. ASSUME Shrinks, NEW i \in Patches, Edit(i) PROVE Images'
  <2>1. faults' = faults + 1 /\ UNCHANGED backup
    BY <1>10 DEF Edit, Fault
  <2>2. PICK b \in BOOLEAN : file' = [file EXCEPT ![i] = [patched |-> b, rev |-> faults + 1]]
    BY <1>10 DEF Edit
  <2>3. \A j \in Patches : file'[j].rev \in Nat /\ file'[j].rev <= faults'
    BY <1>0, <2>1, <2>2 DEF Images
  <2> QED BY <1>5, <1>10, <2>1, <2>3
<1> QED BY <1>3, <1>6, <1>7, <1>8, <1>9, <1>10, ImagingStep DEF Imaging

\* The backups that are put back are never those of a call that may still write.
LEMMA KeptOwnStep ==
    ASSUME Typed, Numbered, Newest, KeptOwn, [Next]_vars
    PROVE  KeptOwn'
<1>0. /\ call \in [Calls -> Call] /\ file \in [Patches -> Image]
      /\ backup \in [Serials -> [Patches -> Saved]] /\ serial \in Nat
  BY LogAssumption DEF Typed, TypeOK
<1>1. \A c \in Calls :
         call[c].at \in Computed =>
             /\ Active(c) /\ call[c].at \notin Recovering
             /\ call[c].patch \in Patches /\ call[c].serial \in Serials
  BY DEF Typed, Framed, Fits, Computed, Active, Recovering
<1>2. ASSUME NEW c \in Calls, MatchPatch(c) PROVE KeptOwn'
  <2> DEFINE i == call[c].patch
             n == call[c].serial
  <2>1. i \in Patches /\ n \in Serials
    BY <1>2 DEF MatchPatch, At, Typed, Framed, Fits
  <2>2. backup' = [backup EXCEPT ![n][i] = file[i]] /\ serial' = serial
    BY <1>2 DEF MatchPatch, BackUp
  <2>3. file[i] # NoImage
    BY <1>0, <2>1 DEF Image, NoImage
  <2>4. \A m \in Serials, j \in Patches :
           backup'[m][j] = IF m = n /\ j = i THEN file[i] ELSE backup[m][j]
    BY <1>0, <2>1, <2>2
  <2>5. /\ call'[c].patch = i /\ call'[c].serial = n
        /\ \A d \in Calls \ {c} : call'[d] = call[d]
    BY <1>0, <1>2 DEF MatchPatch, Call
  <2>6. ASSUME NEW d \in Calls, call'[d].at \in Computed, call'[d].serial = serial'
        PROVE  backup'[serial'][call'[d].patch] # NoImage
    <3>1. CASE d = c
      BY <2>1, <2>2, <2>3, <2>4, <2>5, <2>6, <3>1
    <3>2. CASE d # c
      <4>1. /\ call[d].at \in Computed /\ call[d].serial = serial
            /\ call'[d].patch = call[d].patch
        BY <2>2, <2>5, <2>6, <3>2
      <4>2. call[d].patch \in Patches /\ serial \in Serials
        BY <1>1, <4>1
      <4>3. backup[serial][call[d].patch] # NoImage
        BY <4>1 DEF KeptOwn
      <4> QED BY <2>2, <2>3, <2>4, <4>1, <4>2, <4>3
    <3> QED BY <3>1, <3>2
  <2> QED BY <2>6 DEF KeptOwn
<1>3. ASSUME Shrinks,
             \A c \in Calls : call[c].at \in Computed /\ call[c].serial = serial =>
                 backup'[serial][call[c].patch] = backup[serial][call[c].patch]
      PROVE  KeptOwn'
  <2>1. ASSUME NEW d \in Calls, call'[d].at \in Computed, call'[d].serial = serial'
        PROVE  backup'[serial'][call'[d].patch] # NoImage
    <3>1. /\ call[d].at \in Computed /\ call'[d].patch = call[d].patch
          /\ call'[d].serial = call[d].serial /\ call[d].serial <= serial
      BY <1>3, <2>1 DEF Shrinks, Numbered
    <3>2. serial' = serial
      BY <1>0, <1>3, <2>1, <3>1 DEF Shrinks
    <3> QED BY <1>3, <2>1, <3>1, <3>2 DEF KeptOwn
  <2> QED BY <2>1 DEF KeptOwn
<1>4. ASSUME Shrinks, UNCHANGED backup PROVE KeptOwn'
  BY <1>3, <1>4
<1>5. ASSUME Shrinks, cursor.checkpoint \in Serials, Wiped(cursor.checkpoint) PROVE KeptOwn'
  <2>1. ASSUME NEW c \in Calls, call[c].at \in Computed, call[c].serial = serial
        PROVE  serial \in Serials \ {cursor.checkpoint}
    BY <1>1, <2>1, SerialTypes DEF Newest
  <2> QED BY <1>3, <1>5, <2>1 DEF Wiped
<1>6. ASSUME Shrinks, NEW d \in Calls, call[d].at = "verifying", call[d].serial \in Serials,
             Wiped(call[d].serial)
      PROVE  KeptOwn'
  <2>1. ASSUME NEW c \in Calls, call[c].at \in Computed, call[c].serial = serial
        PROVE  serial \in Serials \ {call[d].serial}
    <3>1. c # d /\ Active(c) /\ Active(d)
      BY <1>1, <1>6, <2>1 DEF Computed, Active
    <3> QED BY <1>1, <2>1, <3>1 DEF Numbered
  <2> QED BY <1>3, <1>6, <2>1 DEF Wiped
<1>7. ASSUME NEW c \in Calls, Write(c) PROVE UNCHANGED backup
  BY <1>7 DEF Write
<1>8. ASSUME NEW i \in Patches, Edit(i) PROVE UNCHANGED backup
  BY <1>8 DEF Edit
<1> QED BY <1>2, <1>4, <1>5, <1>6, <1>7, <1>8, ImagingStep DEF Imaging, Restored

LEMMA RoutedStep ==
    ASSUME Typed, Numbered, Images, KeptOwn, Routed, [Next]_vars
    PROVE  Routed'
<1>0. /\ call \in [Calls -> Call] /\ file \in [Patches -> Image]
      /\ backup \in [Serials -> [Patches -> Saved]] /\ faults \in Nat
  BY LogAssumption DEF Typed, TypeOK
<1>1. \A c \in Calls :
         call[c].at \in Computed =>
             /\ Active(c) /\ call[c].patch \in Patches /\ call[c].serial \in Serials
             /\ call[c].after.rev \in Nat
  BY LogAssumption DEF Typed, Framed, Fits, Computed, Active, Image
<1>2. \A e \in intents : e.after.rev \in Nat
  BY LogAssumption DEF Typed, TypeOK, Effect, Image
\* What is put back, or written by others, was computed by nobody.
<1>3. ASSUME NEW i, NEW img, Tooled(i, img) PROVE img.patched /\ img.rev <= faults
  BY <1>3 DEF Tooled, Images
<1>4. ASSUME Shrinks, NEW i, NEW img, Tooled(i, img)' PROVE Tooled(i, img)
  BY <1>4 DEF Shrinks, Tooled
<1>5. ASSUME NEW c \in Calls, MatchPatch(c) PROVE Routed'
  <2> DEFINE i == call[c].patch
             n == call[c].serial
  <2>1. i \in Patches /\ n \in Serials
    BY <1>5 DEF MatchPatch, At, Typed, Framed, Fits
  <2>2. backup' = [backup EXCEPT ![n][i] = file[i]] /\ UNCHANGED <<file, intents>>
    BY <1>5 DEF MatchPatch, BackUp
  <2>3. file[i] # NoImage
    BY <1>0, <2>1 DEF Image, NoImage
  <2>4. \A m \in Serials, j \in Patches :
           backup'[m][j] = IF m = n /\ j = i THEN file[i] ELSE backup[m][j]
    BY <1>0, <2>1, <2>2
  <2>5. call'[c].patch = i /\ \A d \in Calls \ {c} : call'[d] = call[d]
    BY <1>0, <1>5 DEF MatchPatch, Call
  <2>6. ASSUME NEW j \in Patches, Tooled(j, file[j])'
        PROVE  \E m \in Serials : backup'[m][j] # NoImage
    <3>1. CASE j = i
      BY <2>1, <2>3, <2>4, <3>1
    <3>2. CASE j # i
      <4>1. Tooled(j, file[j])
        BY <2>2, <2>5, <2>6, <3>2 DEF Tooled
      <4>2. PICK m \in Serials : backup[m][j] # NoImage
        BY <4>1 DEF Routed
      <4> QED BY <2>4, <3>2, <4>2
    <3> QED BY <3>1, <3>2
  <2> QED BY <2>6 DEF Routed
<1>6. ASSUME Shrinks, UNCHANGED backup,
             \A i \in Patches : file'[i] = file[i] \/ ~Tooled(i, file'[i])
      PROVE  Routed'
  <2>1. ASSUME NEW i \in Patches, Tooled(i, file[i])'
        PROVE  \E n \in Serials : backup'[n][i] # NoImage
    <3>1. Tooled(i, file'[i])
      BY <1>6, <2>1 DEF Shrinks, Tooled
    <3> QED BY <1>6, <3>1 DEF Routed
  <2> QED BY <2>1 DEF Routed
<1>7. ASSUME Shrinks, UNCHANGED <<file, backup>> PROVE Routed'
  BY <1>6, <1>7
<1>8. ASSUME Shrinks, NEW c \in Calls, Write(c) PROVE Routed'
  <2>1. /\ call[c].at \in Computed /\ call[c].at = "fenced"
        /\ file' = [file EXCEPT ![call[c].patch] = call[c].after] /\ UNCHANGED backup
    BY <1>8 DEF Write, At, Computed
  <2>2. call[c].serial = serial /\ call[c].patch \in Patches /\ serial \in Serials
    BY <1>1, <2>1 DEF Numbered
  <2>3. backup[serial][call[c].patch] # NoImage
    BY <2>1, <2>2 DEF KeptOwn
  <2>4. ASSUME NEW i \in Patches, Tooled(i, file[i])'
        PROVE  \E n \in Serials : backup'[n][i] # NoImage
    <3>1. CASE i = call[c].patch
      BY <2>1, <2>2, <2>3, <3>1
    <3>2. CASE i # call[c].patch
      <4>1. file'[i] = file[i]
        BY <1>0, <2>1, <3>2
      <4>2. Tooled(i, file[i])
        BY <1>8, <2>4, <4>1 DEF Shrinks, Tooled
      <4> QED BY <2>1, <4>2 DEF Routed
    <3> QED BY <3>1, <3>2
  <2> QED BY <2>4 DEF Routed
<1>9. ASSUME Shrinks, NEW k \in Serials, Wiped(k) PROVE Routed'
  <2>1. ASSUME NEW i \in Patches, Tooled(i, file[i])'
        PROVE  \E n \in Serials : backup'[n][i] # NoImage
    <3>1. Tooled(i, file'[i])
      BY <1>9, <2>1 DEF Shrinks, Tooled
    <3>2. backup[k][i] = NoImage /\ file'[i] = file[i]
      BY <1>3, <1>9, <3>1 DEF Wiped, Images
    <3>3. PICK n \in Serials : backup[n][i] # NoImage
      BY <3>1, <3>2 DEF Routed
    <3> QED BY <1>9, <3>2, <3>3 DEF Wiped
  <2> QED BY <2>1 DEF Routed
<1>10. ASSUME Shrinks, Restored PROVE Routed'
  <2>1. \A i \in Patches : file'[i] = file[i] \/ ~Tooled(i, file'[i])
    BY <1>3, <1>10 DEF Restored, Images
  <2> QED BY <1>6, <1>10, <2>1 DEF Restored
<1>11. ASSUME Shrinks, NEW i \in Patches, Edit(i) PROVE Routed'
  <2>1. PICK b \in BOOLEAN : file' = [file EXCEPT ![i] = [patched |-> b, rev |-> faults + 1]]
    BY <1>11 DEF Edit
  <2>2. ~Tooled(i, file'[i])
    <3>1. file'[i].rev = faults + 1
      BY <1>0, <2>1
    <3> QED BY <1>0, <1>3, <3>1
  <2>3. \A j \in Patches : file'[j] = file[j] \/ ~Tooled(j, file'[j])
    BY <1>0, <2>1, <2>2
  <2> QED BY <1>6, <1>11, <2>3 DEF Edit
<1> QED BY <1>5, <1>7, <1>8, <1>9, <1>10, <1>11, ImagingStep DEF Imaging

----------------------------------------------------------------------------

\* What RollbackRoute rests on, besides IInv.
RouteInv == Numbered /\ Newest /\ Images /\ KeptOwn /\ Routed

LEMMA RouteInductive ==
    /\ Init => RouteInv
    /\ IInv /\ RouteInv /\ [Next]_vars => RouteInv'
<1>1. ASSUME Init PROVE RouteInv
  BY <1>1, LogAssumption DEF Init, RouteInv, Numbered, Newest, Images, KeptOwn, Routed, Tooled,
     Active, Computed, Idle, NoCursor, NoImage
<1>2. ASSUME IInv, RouteInv, [Next]_vars PROVE RouteInv'
  BY <1>2, NumberedStep, NewestStep, ImagesStep, KeptOwnStep, RoutedStep
     DEF IInv, Rest, RouteInv
<1> QED BY <1>1, <1>2

\* Whatever a signed effect left on disk can still be rolled back.
THEOREM Route == Spec => []RollbackRoute
<1>1. RouteInv /\ TypeOK => RollbackRoute
  <2> SUFFICES ASSUME RouteInv, TypeOK, NEW e \in intents, file[e.patch] = e.after
               PROVE  \E n \in Serials :
                         backup[n][e.patch] # NoImage /\ ~backup[n][e.patch].patched
    BY DEF RollbackRoute
  <2>1. e.patch \in Patches
    BY DEF TypeOK, Effect
  <2>2. Tooled(e.patch, file[e.patch])
    BY DEF Tooled
  <2> QED BY <2>1, <2>2 DEF RouteInv, Routed, Images
<1>2. IInv => TypeOK
  BY DEF IInv, Typed
<1> QED BY <1>1, <1>2, RouteInductive, Invariance, PTL DEF Spec
----------------------------------------------------------------------------
(* A row that is signed stands for what was on disk *)

\* What a call has signed intents for is on disk, or was, but for the patch it
\* is at; a recovery has to look first.
Placed ==
    \A c \in Calls : \A e \in call[c].effects :
        \/ <<e.patch, e.after>> \in landed
        \/ call[c].at = "checking"
        \/ call[c].at \in {"prepared", "fenced"} /\ e.patch = call[c].patch

\* A file that holds what a patch was computed to give it holds it because an
\* apply call has put it there.
OnDisk ==
    \A i \in Patches : Tooled(i, file[i]) => <<i, file[i]>> \in landed

LEMMA PlacedStep ==
    ASSUME Typed, FromLedger, Ordered, OnDisk, Placed, [Next]_vars
    PROVE  Placed'
<1>0. call \in [Calls -> Call]
  BY DEF Typed, TypeOK
<1>a. ASSUME NEW c \in Calls, UNCHANGED landed, \A d \in Calls \ {c} : call'[d] = call[d],
              \/ call'[c].effects = {}
              \/ /\ call[c].at \notin {"checking", "prepared", "fenced"}
                 /\ call'[c].effects = call[c].effects
       PROVE  Placed'
  BY <1>a DEF Placed
<1>1. ASSUME NEW c \in Calls, Plan(c) PROVE Placed'
  <2>1. /\ call[c].at = "idle" /\ call'[c].at = "loaded"
        /\ call'[c].effects = call[c].effects
        /\ \A d \in Calls \ {c} : call'[d] = call[d]
    BY <1>0, <1>1 DEF Plan, Call
  <2>2. UNCHANGED landed
    BY <1>1 DEF Plan
  <2> QED BY <2>1, <2>2 DEF Placed
<1>2. ASSUME NEW c \in Calls, Load(c) PROVE Placed'
  <2>1. /\ call[c].at = "idle" /\ UNCHANGED landed
        /\ call'[c].effects = call[c].effects /\ \A d \in Calls \ {c} : call'[d] = call[d]
    BY <1>0, <1>2 DEF Load, At, Call
  <2> QED BY <1>a, <2>1
<1>3. ASSUME NEW c \in Calls, LoadComplete(c) PROVE Placed'
  BY <1>3, <1>0 DEF LoadComplete, Released, Placed, Idle, Call
<1>4. ASSUME NEW c \in Calls, Abort(c) PROVE Placed'
  BY <1>4, <1>0 DEF Abort, Released, Placed, Idle, Call
<1>5. ASSUME NEW c \in Calls, StartRecovery(c) PROVE Placed'
  <2>1. call'[c].at = "checking" /\ \A d \in Calls \ {c} : call'[d] = call[d]
    BY <1>0, <1>5 DEF StartRecovery, Idle
  <2> QED BY <1>5, <2>1 DEF StartRecovery, Placed
<1>6. ASSUME NEW c \in Calls, Admit(c) PROVE Placed'
  <2>1. call[c].effects = {}
    BY <1>6 DEF Admit, Ordered
  <2>2. call'[c].effects = {} /\ \A d \in Calls \ {c} : call'[d] = call[d]
    BY <1>0, <1>6, <2>1 DEF Admit, Call
  <2> QED BY <1>6, <2>2 DEF Admit, Placed
<1>7. ASSUME NEW c \in Calls, MatchPatch(c) PROVE Placed'
  <2>1. /\ call[c].at = "matching" /\ UNCHANGED landed
        /\ call'[c].effects = call[c].effects /\ \A d \in Calls \ {c} : call'[d] = call[d]
    BY <1>0, <1>7 DEF MatchPatch, At, Call
  <2> QED BY <1>a, <2>1
<1>8. ASSUME NEW c \in Calls, SkipPatch(c) PROVE Placed'
  <2>1. call[c].at = "matching" /\ UNCHANGED landed
    BY <1>8 DEF SkipPatch, At
  <2>2. NextPatch(c).at = "matching" /\ NextPatch(c).effects = call[c].effects
    BY <2>1, NextFits
  <2>3. call'[c] = NextPatch(c) /\ \A d \in Calls \ {c} : call'[d] = call[d]
    BY <1>0, <1>8 DEF SkipPatch
  <2> QED BY <2>1, <2>2, <2>3 DEF Placed
<1>9. ASSUME NEW c \in Calls, Prepare(c) PROVE Placed'
  <2>1. /\ call[c].at = "matched" /\ call'[c].at = "prepared"
        /\ call'[c].effects = call[c].effects \cup {Intent(c)}
        /\ call'[c].patch = call[c].patch
        /\ \A d \in Calls \ {c} : call'[d] = call[d]
    BY <1>0, <1>9 DEF Prepare, At, Call
  <2>2. Intent(c).patch = call[c].patch
    BY DEF Intent
  <2> QED BY <1>9, <2>1, <2>2 DEF Prepare, Placed
<1>10. ASSUME NEW c \in Calls, PrepareNothing(c) PROVE Placed'
  BY <1>10, <1>0 DEF PrepareNothing, At, Placed, Idle, Call
<1>11. ASSUME NEW c \in Calls, PrepareRefused(c) PROVE Placed'
  <2>1. call[c].at = "matched" /\ UNCHANGED landed
    BY <1>11 DEF PrepareRefused, At
  <2>2. NextPatch(c).effects = call[c].effects /\ Idle.effects = {}
    BY <2>1, NextFits DEF Idle
  <2>3. /\ call'[c] = Idle \/ call'[c] = NextPatch(c)
        /\ \A d \in Calls \ {c} : call'[d] = call[d]
    BY <1>0, <1>11 DEF PrepareRefused, Ends
  <2> QED BY <1>a, <2>1, <2>2, <2>3
<1>12. ASSUME NEW c \in Calls, Write(c) PROVE Placed'
  <2>1. /\ call[c].at = "fenced" /\ call'[c].at = "written"
        /\ call'[c].effects = call[c].effects
        /\ landed' = landed \cup {<<call[c].patch, call[c].after>>}
        /\ \A d \in Calls \ {c} : call'[d] = call[d]
    BY <1>0, <1>12 DEF Write, At, Call
  <2>2. \A e \in call[c].effects : e.patch = call[c].patch => e.after = call[c].after
    BY <2>1 DEF Ordered
  <2> QED BY <2>1, <2>2 DEF Placed
<1>13. ASSUME NEW c \in Calls, WriteRefused(c) PROVE Placed'
  BY <1>13, <1>0 DEF WriteRefused, At, Ends, Placed, Idle, Call
<1>14. ASSUME NEW c \in Calls, ChunkApplied(c) PROVE Placed'
  BY <1>14, <1>0 DEF ChunkApplied, At, Placed, Idle, Call
<1>15. ASSUME NEW c \in Calls, VerifyPasses(c) PROVE Placed'
  BY <1>15, <1>0 DEF VerifyPasses, At, Placed, Idle, Call
<1>16. ASSUME NEW c \in Calls, VerifyFails(c) PROVE Placed'
  BY <1>16, <1>0 DEF VerifyFails, At, Placed, Idle, Call
<1>17. ASSUME NEW c \in Calls, ClearCursor(c) PROVE Placed'
  BY <1>17, <1>0 DEF ClearCursor, At, Ends, Released, Placed, Idle, Call
<1>18. ASSUME NEW c \in Calls, SignChunk(c) PROVE Placed'
  BY <1>18, <1>0 DEF SignChunk, At, Placed, Idle, Call
<1>19. ASSUME NEW c \in Calls, SignFails(c) PROVE Placed'
  <2>1. /\ call[c].at \in {"signing", "matched"} /\ UNCHANGED landed
        /\ call'[c].effects = call[c].effects /\ \A d \in Calls \ {c} : call'[d] = call[d]
    BY <1>0, <1>19 DEF SignFails, At, Call
  <2> QED BY <1>a, <2>1
<1>20. ASSUME NEW c \in Calls, RestoreOwn(c) PROVE Placed'
  BY <1>20, <1>0 DEF RestoreOwn, At, Placed, Idle, Call
<1>21. ASSUME NEW c \in Calls, Block(c) PROVE Placed'
  BY <1>21, <1>0 DEF Block, At, Ends, Released, Placed, Idle, Call
<1>22. ASSUME NEW c \in Calls, Save(c) PROVE Placed'
  BY <1>22, <1>0 DEF Save, At, Ends, Placed, Idle, Call
<1>23. ASSUME NEW c \in Calls, CheckPostimages(c) PROVE Placed'
  <2>1. /\ call'[c].effects = call[c].effects /\ UNCHANGED landed
        /\ \A d \in Calls \ {c} : call'[d] = call[d]
    BY <1>0, <1>23 DEF CheckPostimages, Call
  <2>2. ASSUME NEW e \in call[c].effects PROVE <<e.patch, e.after>> \in landed
    <3>1. e \in intents /\ e.patch \in Patches /\ file[e.patch] = e.after
      BY <1>23 DEF CheckPostimages, PostimagesHold, FromLedger, Typed, TypeOK, Effect
    <3>2. Tooled(e.patch, file[e.patch])
      BY <3>1 DEF Tooled
    <3> QED BY <3>1, <3>2 DEF OnDisk
  <2> QED BY <2>1, <2>2 DEF Placed
<1>24. ASSUME NEW c \in Calls, SignRecovery(c) PROVE Placed'
  BY <1>24, <1>0 DEF SignRecovery, At, Placed, Idle, Call
<1>25. ASSUME NEW c \in Calls, SignRecoveryFails(c) PROVE Placed'
  BY <1>25, <1>0 DEF SignRecoveryFails, At, Fault, Quit, Ends, Released,
     Placed, Idle, Call
<1>26. ASSUME NEW c \in Calls, RecheckPostimages(c) PROVE Placed'
  BY <1>26, <1>0 DEF RecheckPostimages, At, Placed, Idle, Call
<1>27. ASSUME NEW c \in Calls, PostimageChanged(c) PROVE Placed'
  BY <1>27, <1>0 DEF PostimageChanged, At, Quit, Ends, Released, Placed,
     Idle, Call, Recovering
<1>28. ASSUME NEW c \in Calls, CompareCursor(c) PROVE Placed'
  <2>1. /\ call[c].at = "comparing" /\ UNCHANGED landed
        /\ \A d \in Calls \ {c} : call'[d] = call[d]
    BY <1>0, <1>28 DEF CompareCursor, At, Quit, Ends
  <2>2. call'[c].effects = call[c].effects \/ call'[c].effects = {}
    BY <1>0, <1>28 DEF CompareCursor, Quit, Ends, Idle, Call
  <2> QED BY <1>a, <2>1, <2>2
<1>29. ASSUME NEW c \in Calls, Advance(c) PROVE Placed'
  BY <1>29, <1>0 DEF Advance, At, Quit, Ends, Released, Placed, Idle,
     Call
<1>30. ASSUME NEW i \in Patches, Edit(i) PROVE Placed'
  BY <1>30, <1>0 DEF Edit, Fault, Placed, Idle, Call
<1>31. CASE LeaseExpires
  BY <1>31, <1>0 DEF LeaseExpires, Fault, Placed, Idle, Call
<1>32. ASSUME NEW c \in Calls, Crash(c) PROVE Placed'
  BY <1>32, <1>0 DEF Crash, Fault, Ends, Placed, Idle, Call
<1>33. CASE UNCHANGED vars
  BY <1>33, <1>0 DEF vars, Placed, Idle, Call
<1>34. ASSUME NEW c \in Calls, EnterFence(c) PROVE Placed'
  BY <1>34, <1>0 DEF EnterFence, At, Placed, Idle, Call
<1>35. ASSUME NEW c \in Calls, WrittenEffect(c) PROVE Placed'
  <2>1. call[c].at = "written" /\ UNCHANGED landed
    BY <1>35 DEF WrittenEffect, At
  <2>2. NextPatch(c).effects = call[c].effects /\ Idle.effects = {}
    BY <2>1, NextFits DEF Idle
  <2>3. /\ call'[c] = Idle \/ call'[c] = NextPatch(c)
        /\ \A d \in Calls \ {c} : call'[d] = call[d]
    BY <1>0, <1>35 DEF WrittenEffect, Ends
  <2> QED BY <1>a, <2>1, <2>2, <2>3
<1>36. ASSUME NEW c \in Calls, Aborted(c) PROVE Placed'
  BY <1>36, <1>0 DEF Aborted, Ends, Released, Placed, Idle, Call
<1> QED
  BY <1>1, <1>2, <1>3, <1>4, <1>5, <1>6, <1>7, <1>8, <1>9, <1>10, <1>11,
     <1>12, <1>13, <1>14, <1>15, <1>16, <1>17, <1>18, <1>19, <1>20, <1>21,
     <1>22, <1>23, <1>24, <1>25, <1>26, <1>27, <1>28, <1>29, <1>30, <1>31,
     <1>32, <1>33, <1>34, <1>35, <1>36 DEF Next, ApplyStep, RecoverStep

\* A row is signed by an apply call for what it has done, by a recovery for
\* what it has looked at.
LEMMA NewRows ==
    ASSUME [Next]_vars, NEW r \in receipts' \ receipts
    PROVE  \E c \in Calls : call[c].at \in {"signing", "attesting"} /\ r.effects = call[c].effects
<1>1. ASSUME NEW c \in Calls, SignChunk(c) \/ SignFails(c)
      PROVE  call[c].at = "signing" /\ r.effects = call[c].effects
  BY <1>1 DEF SignChunk, SignFails, At, ChunkReceipt
<1>2. ASSUME NEW c \in Calls, SignRecovery(c) \/ SignRecoveryFails(c)
      PROVE  call[c].at = "attesting" /\ r.effects = call[c].effects
  BY <1>2 DEF SignRecovery, SignRecoveryFails, At, RecoveryReceipt
<1>3. ASSUME NEW c \in Calls,
             \/ Plan(c) \/ Load(c) \/ LoadComplete(c) \/ Abort(c) \/ Aborted(c)
             \/ StartRecovery(c) \/ Admit(c) \/ MatchPatch(c) \/ SkipPatch(c)
      PROVE  FALSE
  BY <1>3 DEF Plan, Load, LoadComplete, Abort, Aborted, StartRecovery, Admit, MatchPatch,
     SkipPatch
<1>4. ASSUME NEW c \in Calls,
             \/ Prepare(c) \/ PrepareNothing(c) \/ PrepareRefused(c)
             \/ EnterFence(c) \/ Write(c) \/ WriteRefused(c) \/ WrittenEffect(c)
             \/ ChunkApplied(c) \/ VerifyPasses(c) \/ VerifyFails(c) \/ ClearCursor(c)
      PROVE  FALSE
  BY <1>4 DEF Prepare, PrepareNothing, PrepareRefused, EnterFence, Write, WriteRefused,
     WrittenEffect, ChunkApplied, VerifyPasses, VerifyFails, ClearCursor
<1>5. ASSUME NEW c \in Calls,
             \/ RestoreOwn(c) \/ Block(c) \/ Save(c) \/ CheckPostimages(c)
             \/ RecheckPostimages(c) \/ PostimageChanged(c) \/ CompareCursor(c)
             \/ Advance(c) \/ Crash(c)
      PROVE  FALSE
  BY <1>5 DEF RestoreOwn, Block, Save, CheckPostimages, RecheckPostimages, PostimageChanged,
     CompareCursor, Advance, Crash
<1>6. ASSUME LeaseExpires \/ (\E i \in Patches : Edit(i)) \/ UNCHANGED vars PROVE FALSE
  BY <1>6 DEF LeaseExpires, Edit, vars
<1> QED BY <1>1, <1>2, <1>3, <1>4, <1>5, <1>6 DEF Next, ApplyStep, RecoverStep

LEMMA OnDiskStep ==
    ASSUME Typed, Images, OnDisk, [Next]_vars
    PROVE  OnDisk' /\ landed \subseteq landed'
<1>0. /\ call \in [Calls -> Call] /\ file \in [Patches -> Image]
      /\ backup \in [Serials -> [Patches -> Saved]] /\ faults \in Nat
  BY LogAssumption DEF Typed, TypeOK
<1>1. \A c \in Calls :
         call[c].at \in Computed => call[c].patch \in Patches /\ call[c].after.rev \in Nat
  BY LogAssumption DEF Typed, Framed, Fits, Computed, Image
<1>2. \A e \in intents : e.after.rev \in Nat
  BY LogAssumption DEF Typed, TypeOK, Effect, Image
<1>3. ASSUME NEW i, NEW img, Tooled(i, img) PROVE img.patched /\ img.rev <= faults
  BY <1>3 DEF Tooled, Images
<1>4. ASSUME NEW c \in Calls, MatchPatch(c) PROVE OnDisk' /\ landed' = landed
  <2>1. /\ call[c].patch \in Patches /\ ~file[call[c].patch].patched
        /\ UNCHANGED <<file, intents, landed>>
    BY <1>4 DEF MatchPatch, Matches
  <2>2. /\ call'[c].patch = call[c].patch /\ call'[c].after = Patched(file[call[c].patch])
        /\ \A d \in Calls \ {c} : call'[d] = call[d]
    BY <1>0, <1>4 DEF MatchPatch, Call
  <2>3. Patched(file[call[c].patch]).patched
    BY <1>0, <2>1 DEF Patched, Image
  <2>4. ASSUME NEW i \in Patches, Tooled(i, file[i])' PROVE Tooled(i, file[i])
    BY <2>1, <2>2, <2>3, <2>4 DEF Tooled
  <2> QED BY <2>1, <2>4 DEF OnDisk
<1>5. ASSUME Shrinks, \A i \in Patches : file'[i] = file[i] \/ ~Tooled(i, file'[i])
      PROVE  OnDisk' /\ landed \subseteq landed'
  <2>1. ASSUME NEW i \in Patches, Tooled(i, file[i])' PROVE Tooled(i, file'[i])
    BY <1>5, <2>1 DEF Shrinks, Tooled
  <2> QED BY <1>5, <2>1 DEF Shrinks, OnDisk
<1>6. ASSUME Shrinks, UNCHANGED <<file, backup>> PROVE OnDisk' /\ landed \subseteq landed'
  BY <1>5, <1>6
<1>7. ASSUME Shrinks, NEW c \in Calls, Write(c) PROVE OnDisk' /\ landed \subseteq landed'
  <2>1. /\ file' = [file EXCEPT ![call[c].patch] = call[c].after]
        /\ landed' = landed \cup {<<call[c].patch, call[c].after>>}
    BY <1>7 DEF Write
  <2>2. ASSUME NEW i \in Patches, Tooled(i, file[i])' PROVE <<i, file'[i]>> \in landed'
    <3>1. CASE i = call[c].patch
      BY <1>0, <2>1, <3>1
    <3>2. CASE i # call[c].patch
      <4>1. file'[i] = file[i]
        BY <1>0, <2>1, <3>2
      <4>2. Tooled(i, file[i])
        BY <1>7, <2>2, <4>1 DEF Shrinks, Tooled
      <4> QED BY <2>1, <4>1, <4>2 DEF OnDisk
    <3> QED BY <3>1, <3>2
  <2> QED BY <2>1, <2>2 DEF OnDisk
<1>8. ASSUME Shrinks, NEW k \in Serials, Wiped(k) PROVE OnDisk' /\ landed \subseteq landed'
  <2>1. \A i \in Patches : file'[i] = file[i] \/ ~Tooled(i, file'[i])
    BY <1>3, <1>8 DEF Wiped, Images
  <2> QED BY <1>5, <1>8, <2>1
<1>9. ASSUME Shrinks, Restored PROVE OnDisk' /\ landed \subseteq landed'
  <2>1. \A i \in Patches : file'[i] = file[i] \/ ~Tooled(i, file'[i])
    BY <1>3, <1>9 DEF Restored, Images
  <2> QED BY <1>5, <1>9, <2>1
<1>10. ASSUME Shrinks, NEW i \in Patches, Edit(i) PROVE OnDisk' /\ landed \subseteq landed'
  <2>1. PICK b \in BOOLEAN : file' = [file EXCEPT ![i] = [patched |-> b, rev |-> faults + 1]]
    BY <1>10 DEF Edit
  <2>2. ~Tooled(i, file'[i])
    <3>1. file'[i].rev = faults + 1
      BY <1>0, <2>1
    <3> QED BY <1>0, <1>3, <3>1
  <2>3. \A j \in Patches : file'[j] = file[j] \/ ~Tooled(j, file'[j])
    BY <1>0, <2>1, <2>2
  <2> QED BY <1>5, <1>10, <2>3
<1> QED BY <1>4, <1>6, <1>7, <1>8, <1>9, <1>10, ImagingStep DEF Imaging

LEMMA ReceiptsLandedStep ==
    ASSUME Placed, ReceiptsLanded, landed \subseteq landed', [Next]_vars
    PROVE  ReceiptsLanded'
<1>1. ASSUME NEW r \in receipts', NEW e \in r.effects PROVE <<e.patch, e.after>> \in landed'
  <2>1. CASE r \in receipts
    BY <2>1 DEF ReceiptsLanded
  <2>2. CASE r \notin receipts
    BY <2>2, NewRows DEF Placed
  <2> QED BY <2>1, <2>2
<1> QED BY <1>1 DEF ReceiptsLanded

\* What ReceiptsLanded rests on, besides IInv and RouteInv.
LandedInv == Placed /\ OnDisk /\ ReceiptsLanded

LEMMA LandedInductive ==
    /\ Init => LandedInv
    /\ IInv /\ RouteInv /\ LandedInv /\ [Next]_vars => LandedInv'
<1>1. ASSUME Init PROVE LandedInv
  BY <1>1 DEF Init, LandedInv, Placed, OnDisk, ReceiptsLanded, Tooled, Computed, Idle
<1>2. ASSUME IInv, RouteInv, LandedInv, [Next]_vars PROVE LandedInv'
  BY <1>2, PlacedStep, OnDiskStep, ReceiptsLandedStep
     DEF IInv, Rest, RouteInv, LandedInv
<1> QED BY <1>1, <1>2

\* A row that is signed for a chunk stands for effects that were on disk, each
\* with the image its intent names.
THEOREM Landed == Spec => []ReceiptsLanded
<1>1. LandedInv => ReceiptsLanded
  BY DEF LandedInv
<1> QED BY <1>1, LandedInductive, RouteInductive, Invariance, PTL DEF Spec
=============================================================================
