---------------------------- MODULE ContractIntake ----------------------------
(***************************************************************************)
(* The intake of a prepared SDD package: an owner approves its exact       *)
(* snapshot, the approval is signed, the files are installed and the       *)
(* completion is signed (src/apatch/sdd_contract_intake.py); or the owner  *)
(* cancels a transaction that is demonstrably unapproved                   *)
(* (src/apatch/sdd_intake_recovery.py).  One file, the pending             *)
(* transaction, fences implementation meanwhile (sdd_integrity.py).        *)
(*                                                                         *)
(* Calls of several processes are made one after the other by the freeze   *)
(* lock, which the system frees when its holder dies; the checks made      *)
(* before it only refuse what the checks under it refuse again, and are    *)
(* one step with them.  Files may be edited by anybody between two steps.  *)
(* Every write is durable, and is one step: what a death between the link  *)
(* and the unlink of a temporary file leaves is refused by every later     *)
(* capture.  A review whose profile, judges or authority inputs drifted is *)
(* refused everywhere: that, a signer that fails, a governed session that  *)
(* is open and a death are all the fault after which a call goes no        *)
(* further.                                                                *)
(***************************************************************************)
EXTENDS Naturals, Sequences, FiniteSets, Functions

CONSTANTS
    Procs,       \* processes that serve calls
    Reviews,     \* sealed packages an owner may be asked to approve
    Paths,       \* the paths of their files
    Files,       \* Files[r]: the paths of review r in the order of installation
    None,        \* no pending transaction, no base, nobody
    MaxCalls,    \* bound on calls
    MaxStops,    \* bound on calls that stop half way
    MaxEdits     \* bound on foreign edits

ASSUME IntakeAssumption ==
    /\ \A r \in Reviews : Files[r] \in Seq(Paths) /\ Files[r] # <<>>
    /\ MaxCalls \in Nat /\ MaxStops \in Nat /\ MaxEdits \in Nat

VARIABLES
    disk,        \* what a path holds: a review's file, other bytes or nothing
    base,        \* what the paths held when the review was prepared
    saved,       \* reviews with a review.json
    pending,     \* contract-intake-pending.json
    ledger,      \* rows of the TrustChain store, in order
    receipts,    \* rows that a selector (approved, completed, cancelled.json) names
    proposals,   \* cancellations with a saved review.json
    offered,     \* cancellations that review_cancellation has proposed
    lock,        \* holder of the freeze lock
    pc, call,    \* where a call is, and what it is about
    prepared,    \* reviews a caller was told are prepared
    cancelled,   \* transactions a caller was told are cancelled
    tries, calls, stops, edits

content  == <<disk, base, edits>>
evidence == <<saved, ledger, receipts, proposals, offered>>
answers  == <<prepared, cancelled>>
counts   == <<tries, calls, stops>>
intakeVars == <<content, evidence, answers, counts, pending, lock, pc, call>>

Contents == Reviews \cup {"absent", "other"}
Stages   == {"prepared", "signing_approved", "approved",
             "signing_completed", "completed"}
Signing  == [approved |-> "signing_approved", completed |-> "signing_completed"]
\* Every write of the pending file is a new incarnation of it; the attempt and
\* the stage tell them apart.
Incarnation == [review : Reviews, stage : Stages, try : Nat]
Row   == [review : Reviews, stage : {"approved", "completed", "cancelled"},
          of : Incarnation]
Call  == [review : Reviews \cup {None}, stage : {"approved", "completed", "cancelled"},
          at : Nat, inc : Incarnation \cup {None}]
NoCall == [review |-> None, stage |-> "approved", at |-> 1, inc |-> None]

Committing == {"mark", "sign", "select", "store"}
Installing == {"compare", "install", "put", "outputs"}
Cancelling == {"propose", "cancel", "settle", "drop"}
Points     == {"idle", "save", "open", "unlink"} \cup Committing \cup Installing
              \cup Cancelling

ASSUME AbsenceAssumption ==
    /\ None \notin Procs \cup Incarnation \cup [review : Reviews, try : Nat]
    /\ Reviews \cap {"absent", "other"} = {}

----------------------------------------------------------------------------
(* What the steps are decided by *)

\* The paths hold what they held when the review was prepared; or its files.
Intact(r)    == \A p \in Range(Files[r]) : disk[p] = base[r][p]
Installed(r) == \A p \in Range(Files[r]) : disk[p] = r

Pends(r)       == pending # None /\ pending.review = r
Selected(r, s) == \E x \in receipts : x.review = r /\ x.stage = s

\* Fault: an approval that no selector names is not seen.
UndecidedBySelector(r) ==
    \A x \in receipts : x.review = r => x.stage = "cancelled"

\* _scan: neither the ledger nor a selector speaks of an approval.
Undecided(r) ==
    \A x \in Range(ledger) \cup receipts : x.review = r => x.stage = "cancelled"

\* _matching: the cancellations of exactly this incarnation.
Matching(inc) == {i \in DOMAIN ledger : ledger[i].stage = "cancelled" /\ ledger[i].of = inc}

\* Fault: any early transaction of the review will do.
HeldByReview(inc) ==
    Pends(inc.review) /\ pending.stage \in {"prepared", "signing_approved"}

\* The pending transaction is the one whose cancellation was proposed.
Held(inc) == pending = inc

\* _validate and _scan.
Cancellable(r) == r \in saved /\ Intact(r) /\ Undecided(r)

----------------------------------------------------------------------------
(* Steps of a call *)

Path(p) == Files[call[p].review][call[p].at]

\* What a step requires; a call that does not find it so is refused.
Permits(p) ==
    LET r == call[p].review
        inc == call[p].inc
    IN  CASE pc[p] = "mark"    -> Pends(r) /\ pending.stage # Signing[call[p].stage]
          [] pc[p] = "compare" -> Intact(r)
          [] pc[p] = "install" -> disk[Path(p)] = base[r][Path(p)]
          [] pc[p] = "put"     -> base[r][Path(p)] = "absent" => disk[Path(p)] = "absent"
          [] pc[p] = "outputs" -> Installed(r)
          [] pc[p] = "settle"  -> /\ Cancellable(r) /\ Held(inc)
                                  /\ Cardinality(Matching(inc)) = 1
          [] OTHER -> TRUE

Step(p, from, to) ==
    /\ pc[p] = from
    /\ Permits(p)
    /\ pc' = [pc EXCEPT ![p] = to]

\* The call is over, and the lock free.
Over(p) ==
    /\ pc' = [pc EXCEPT ![p] = "idle"]
    /\ call' = [call EXCEPT ![p] = NoCall]
    /\ lock' = None

Takes(p, c, point) ==
    /\ lock = None
    /\ lock' = p
    /\ pc' = [pc EXCEPT ![p] = point]
    /\ call' = [call EXCEPT ![p] = c]

Counted(p) ==
    /\ pc[p] = "idle"
    /\ calls < MaxCalls
    /\ calls' = calls + 1

----------------------------------------------------------------------------
(* Approval *)

\* prepare_contract_intake seals what the paths hold; it writes nothing.
Prepare(r) ==
    /\ base[r] = None
    /\ base' = [base EXCEPT ![r] = disk]
    /\ UNCHANGED <<disk, edits, evidence, answers, counts, pending, lock, pc, call>>

Approve(p, r) ==
    /\ Counted(p)
    /\ base[r] # None /\ Intact(r)
    /\ pending = None
    /\ ~Selected(r, "completed")
    /\ Takes(p, [NoCall EXCEPT !.review = r], "save")
    /\ UNCHANGED <<content, evidence, answers, pending, tries, stops>>

\* Fault: the approval is taken for the completion.
CompletedEarly(r) == Selected(r, "approved")

\* Both receipts are there.
Completed(r) == Selected(r, "completed") /\ Selected(r, "approved")

\* An approval that was completed is answered again.
AnswerAgain(p, r) ==
    /\ Counted(p)
    /\ pending # None => Pends(r)
    /\ Completed(r) /\ Installed(r)
    /\ prepared' = prepared \cup {r}
    /\ UNCHANGED <<content, evidence, pending, lock, pc, call, cancelled, tries, stops>>

Save(p) ==
    /\ Step(p, "save", "open")
    /\ saved' = saved \cup {call[p].review}
    /\ UNCHANGED <<content, ledger, receipts, proposals, offered, answers, counts,
                   pending, lock, call>>

Open(p) ==
    /\ Step(p, "open", "mark")
    /\ pending' = [review |-> call[p].review, stage |-> "prepared", try |-> tries + 1]
    /\ tries' = tries + 1
    /\ UNCHANGED <<content, evidence, answers, calls, stops, lock, call>>

\* _commit for the approval, later for the completion: mark, sign, select, store.
AfterCommit(p) == IF call[p].stage = "approved" THEN "compare" ELSE "unlink"

Mark(p) ==
    LET found == Selected(call[p].review, call[p].stage)
    IN  /\ Step(p, "mark", IF found THEN AfterCommit(p) ELSE "sign")
        /\ pending' = IF found THEN pending
                      ELSE [pending EXCEPT !.stage = Signing[call[p].stage]]
        /\ UNCHANGED <<content, evidence, answers, counts, lock, call>>

NewRow(p) == [review |-> call[p].review, stage |-> call[p].stage, of |-> pending]

Sign(p) ==
    /\ Step(p, "sign", "select")
    /\ ledger' = Append(ledger, NewRow(p))
    /\ UNCHANGED <<content, saved, receipts, proposals, offered, answers, counts,
                   pending, lock, call>>

Select(p) ==
    /\ Step(p, "select", "store")
    /\ receipts' = receipts \cup {NewRow(p)}
    /\ UNCHANGED <<content, saved, ledger, proposals, offered, answers, counts,
                   pending, lock, call>>

Store(p) ==
    /\ Step(p, "store", AfterCommit(p))
    /\ pending' = [pending EXCEPT !.stage = call[p].stage]
    /\ UNCHANGED <<content, evidence, answers, counts, lock, call>>

\* All files are compared before the first is installed, and each once more.
Compare(p) ==
    /\ Step(p, "compare", "install")
    /\ UNCHANGED <<content, evidence, answers, counts, pending, lock, call>>

Install(p) ==
    /\ Step(p, "install", "put")
    /\ UNCHANGED <<content, evidence, answers, counts, pending, lock, call>>

Last(p) == call[p].at = Len(Files[call[p].review])

\* A link never replaces what has come to be there; a replacement does.
Put(p) ==
    /\ Step(p, "put", IF Last(p) THEN "outputs" ELSE "install")
    /\ disk' = [disk EXCEPT ![Path(p)] = call[p].review]
    /\ call' = [call EXCEPT ![p].at = IF Last(p) THEN @ ELSE @ + 1]
    /\ UNCHANGED <<base, edits, evidence, answers, counts, pending, lock>>

Outputs(p) ==
    /\ Step(p, "outputs", "mark")
    /\ call' = [call EXCEPT ![p].stage = "completed"]
    /\ UNCHANGED <<content, evidence, answers, counts, pending, lock>>

Unlink(p) ==
    /\ pc[p] = "unlink"
    /\ pending' = None
    /\ prepared' = prepared \cup {call[p].review}
    /\ Over(p)
    /\ UNCHANGED <<content, evidence, cancelled, counts>>

----------------------------------------------------------------------------
(* Cancellation *)

\* review_cancellation, without the lock: an approval may be under way.
Offer ==
    /\ pending # None
    /\ pending.stage \in {"prepared", "signing_approved"}
    /\ Cancellable(pending.review)
    /\ offered' = offered \cup {pending}
    /\ UNCHANGED <<content, saved, ledger, receipts, proposals, answers, counts,
                   pending, lock, pc, call>>

Cancel(p, inc) ==
    /\ Counted(p)
    /\ Held(inc)
    /\ Cancellable(inc.review)
    /\ Cardinality(Matching(inc)) <= 1
    /\ Takes(p, [review |-> inc.review, stage |-> "cancelled", at |-> 1, inc |-> inc],
             "propose")
    /\ UNCHANGED <<content, evidence, answers, pending, tries, stops>>

\* Fault: only a selector counts.
SignedAndSelected(inc) == \E x \in receipts : x.stage = "cancelled" /\ x.of = inc

\* A cancellation found in the ledger is not signed again.
Signed(inc) == Matching(inc) # {}

Propose(p) ==
    /\ Step(p, "propose", IF Signed(call[p].inc) THEN "settle" ELSE "cancel")
    /\ proposals' = proposals \cup {call[p].inc}
    /\ UNCHANGED <<content, saved, ledger, receipts, offered, answers, counts,
                   pending, lock, call>>

CancelRow(p) == [review |-> call[p].review, stage |-> "cancelled", of |-> call[p].inc]

SignCancel(p) ==
    /\ Step(p, "cancel", "settle")
    /\ ledger' = Append(ledger, CancelRow(p))
    /\ UNCHANGED <<content, saved, receipts, proposals, offered, answers, counts,
                   pending, lock, call>>

\* Everything is looked at again after the signature.
Settle(p) ==
    /\ Step(p, "settle", "drop")
    /\ receipts' = receipts \cup {CancelRow(p)}
    /\ UNCHANGED <<content, saved, ledger, proposals, offered, answers, counts,
                   pending, lock, call>>

Drop(p) ==
    /\ pc[p] = "drop"
    /\ pending' = None
    /\ cancelled' = cancelled \cup {call[p].inc}
    /\ Over(p)
    /\ UNCHANGED <<content, evidence, prepared, counts>>

\* A cancellation that was settled is answered again.
CancelAgain(p, inc) ==
    /\ Counted(p)
    /\ pending = None
    /\ inc \in proposals
    /\ Cancellable(inc.review)
    /\ Cardinality(Matching(inc)) = 1
    /\ \A i \in Matching(inc) : ledger[i] \in receipts
    /\ cancelled' = cancelled \cup {inc}
    /\ UNCHANGED <<content, evidence, pending, lock, pc, call, prepared, tries, stops>>

----------------------------------------------------------------------------
(* Refusals, faults and edits *)

Refuse(p) ==
    /\ pc[p] # "idle"
    /\ ~Permits(p)
    /\ Over(p)
    /\ UNCHANGED <<content, evidence, answers, counts, pending>>

\* A death or an exception: nothing is undone, the lock is free.
Stop(p) ==
    /\ pc[p] # "idle"
    /\ stops < MaxStops
    /\ stops' = stops + 1
    /\ Over(p)
    /\ UNCHANGED <<content, evidence, answers, tries, calls, pending>>

Edit(p, c) ==
    /\ edits < MaxEdits
    /\ edits' = edits + 1
    /\ disk[p] # c
    /\ disk' = [disk EXCEPT ![p] = c]
    /\ UNCHANGED <<base, evidence, answers, counts, pending, lock, pc, call>>

----------------------------------------------------------------------------
(* The specification *)

IntakeInit ==
    /\ disk \in [Paths -> {"absent", "other"}]
    /\ base = [r \in Reviews |-> None]
    /\ saved = {} /\ ledger = <<>> /\ receipts = {}
    /\ proposals = {} /\ offered = {}
    /\ pending = None
    /\ lock = None
    /\ pc = [p \in Procs |-> "idle"]
    /\ call = [p \in Procs |-> NoCall]
    /\ prepared = {} /\ cancelled = {}
    /\ tries = 0 /\ calls = 0 /\ stops = 0 /\ edits = 0

Proceed(p) ==
    \/ Save(p) \/ Open(p) \/ Mark(p) \/ Sign(p) \/ Select(p) \/ Store(p)
    \/ Compare(p) \/ Install(p) \/ Put(p) \/ Outputs(p) \/ Unlink(p)
    \/ Propose(p) \/ SignCancel(p) \/ Settle(p) \/ Drop(p)
    \/ Refuse(p)

IntakeNext ==
    \/ \E r \in Reviews : Prepare(r)
    \/ \E p \in Procs, r \in Reviews : Approve(p, r) \/ AnswerAgain(p, r)
    \/ \E p \in Procs : \E inc \in offered : Cancel(p, inc) \/ CancelAgain(p, inc)
    \/ \E p \in Procs : Proceed(p) \/ Stop(p)
    \/ Offer
    \/ \E p \in Paths, c \in {"absent", "other"} : Edit(p, c)

IntakeSpec == IntakeInit /\ [][IntakeNext]_intakeVars

----------------------------------------------------------------------------
(* Properties *)

\* Every variable stays in its type.
IntakeTypeOK ==
    /\ disk \in [Paths -> Contents]
    /\ base \in [Reviews -> [Paths -> Contents] \cup {None}]
    /\ saved \subseteq Reviews
    /\ pending \in Incarnation \cup {None}
    /\ ledger \in Seq(Row)
    /\ receipts \subseteq Range(ledger)
    /\ proposals \subseteq offered /\ offered \subseteq Incarnation
    /\ lock \in Procs \cup {None}
    /\ pc \in [Procs -> Points] /\ call \in [Procs -> Call]
    /\ \A p \in Procs :
           /\ pc[p] # "idle" <=> lock = p
           /\ pc[p] # "idle" =>
                  /\ call[p].review \in Reviews
                  /\ call[p].at \in DOMAIN Files[call[p].review]
    /\ prepared \subseteq Reviews /\ cancelled \subseteq offered
    /\ tries \in Nat /\ calls \in Nat /\ stops \in Nat /\ edits \in Nat

\* Once a file of the package is in place, or its approval is signed, the
\* pending transaction stays until the completion is signed: whatever died or
\* was refused on the way, implementation stays fenced and no cancellation
\* passes (sdd_integrity.py load_profile_contract, sdd_intake_recovery.py _scan).
UnfinishedFenced ==
    \A r \in Reviews :
        LET Rows(s) == {x \in Range(ledger) : x.review = r /\ x.stage = s}
        IN  /\ (\E p \in Paths : disk[p] = r) => Rows("approved") # {}
            /\ Rows("approved") # {} /\ Rows("completed") = {} => Pends(r)

\* The owner decides an attempt once: it is approved or cancelled, and either
\* is signed once, however often the cancellation is repeated after a death
\* (sdd_intake_recovery.py cancel_uncommitted_intake).
DecidedOnce ==
    \A i, j \in DOMAIN ledger :
        /\ ledger[i].stage # "completed" /\ ledger[j].stage # "completed"
        /\ ledger[i].of.try = ledger[j].of.try
        => i = j

\* The pending transaction is taken away only with the evidence in the ledger:
\* the completion of this attempt, or the cancellation of exactly the
\* incarnation that is taken away ("fences implementation without deleting
\* evidence", docs/RFP-050-OSS-CONTRACT-INTAKE-PORT.md).
EvidenceKept ==
    [][pending # None /\ pending' = None
       => \E x \in Range(ledger) :
              /\ x.of.try = pending.try
              /\ \/ x.stage = "completed"
                 \/ x.stage = "cancelled" /\ x.of = pending]_intakeVars

\* What a caller was told stays true: a package it was told is prepared was
\* completed under an approval, and an attempt it was told is cancelled is never
\* approved and never pending again (sdd_contract_intake.py
\* review_contract_intake, sdd_intake_recovery.py cancel_uncommitted_intake).
AnswersStand ==
    /\ \A r \in prepared : \A s \in {"approved", "completed"} :
           \E x \in Range(ledger) : x.review = r /\ x.stage = s
    /\ \A inc \in cancelled :
           /\ pending # None => pending.try # inc.try
           /\ \A x \in Range(ledger) : x.of.try = inc.try => x.stage = "cancelled"

\* The attempts and the decisions signed about them, whatever of them the
\* pending file and the selectors tell.
Attempt == IF pending = None THEN None
           ELSE [review |-> pending.review, try |-> pending.try]
Decided == {[review |-> x.review, try |-> x.of.try, stage |-> x.stage] : x \in Range(ledger)}

Owner == INSTANCE PackageDecisions
    WITH Packages <- Reviews, Nothing <- None, current <- Attempt, decisions <- Decided

\* Whoever dies or is refused on the way, and however often a call is repeated:
\* the intake decides as PackageDecisions says (sdd_contract_intake.py
\* approve_contract_intake, sdd_intake_recovery.py cancel_uncommitted_intake).
OwnerDecides == Owner!Spec

\* When nobody holds the lock, a transaction whose completion is receipted is
\* no longer pending.  A death before the unlink leaves it, and no call of
\* either module takes it away.
CompletedReleases == lock = None /\ pending # None => ~Selected(pending.review, "completed")
=============================================================================
