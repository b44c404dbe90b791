---------------------- MODULE TransitionOutcomeProofs ----------------------
(***************************************************************************)
(* How a cutover ends: a confirmed one stays on AWG 3.1, a rolled back one *)
(* is all classic, an unconfirmed one always has a way back, a             *)
(* confirmation raises every revision once, and all of it implements       *)
(* TransitionLifecycle.                                                    *)
(*                                                                         *)
(* None of these is inductive.  ImageInv says what the files and the       *)
(* interface hold between transactions (ClosedInv) and while one is open   *)
(* (OpenInv); HolderInv says what the holder of the lock has established   *)
(* at each of its steps, so that recording the outcome is justified.       *)
(***************************************************************************)
EXTENDS TransitionCleanupProofs

Open == doc # NoDoc /\ doc.id # outcome.id

(* What a transaction that ended leaves behind. *)
Final == IF outcome.reason = "confirmed" THEN "awg31" ELSE "classic"

Untouched(files) == \A c \in Components : files[c] # "awg31"
Watched(t, k) == timer[<<t, k>>] \in {"armed", "fired"}
WayBack == journal.id = doc.id \/ kernel # "awg31" \/ \E k \in Kinds : Watched(doc.id, k)

ClosedInv == ~Open => Healthy(Final) /\ kernel \in {"down", Final}
OpenInv ==
  Open =>
    /\ outcome.reason # "confirmed"
    /\ doc.state = "prepared" => journal.id = doc.id \/ (Untouched(live) /\ kernel # "awg31")
    /\ doc.state = "active" => WayBack
ImageInv == ClosedInv /\ OpenInv

BeforeJournal == {"arm", "intent"}
BeforeReload  == {"armed", "install", "commit", "commit2", "reload"}
BeforeActive  == {"reloaded", "activate"}
AfterActive   == {"activated", "armFinal", "prove", "cancelRecovery", "cancelled"}

MyDoc == stage = "body" /\ Open /\ doc.id = tx

ActivateInv ==
  /\ pc \in BeforeJournal \cup BeforeReload \cup BeforeActive => MyDoc /\ doc.state = "prepared"
  /\ pc \in AfterActive => MyDoc /\ doc.state = "active"
  /\ pc \in BeforeJournal => Healthy("classic")
  /\ pc \in BeforeJournal \cup BeforeReload => kernel = "classic"
  /\ pc \in BeforeReload \cup BeforeActive \cup AfterActive => journal.id = tx
  /\ pc \in BeforeActive => kernel = "awg31"
  /\ pc = "reload" => live["runtime"] = "awg31"
  /\ pc \in {"prove", "cancelRecovery", "cancelled"} => Watched(tx, "final")
  /\ pc = "failed" => MyDoc /\ (doc.state = "active" => journal.id = tx)

ConfirmInv ==
  /\ pc \in ConfirmPcs => MyDoc /\ doc.state = "active" /\ Healthy("awg31") /\ kernel = "awg31"
  /\ pc \in {"confirmCancel", "confirmed"} => Watched(tx, "recovery")

RestoreInv ==
  /\ pc \in {"restore", "replace", "outcome"} => Open /\ doc.id = Target
  /\ pc = "replace" =>
       /\ step \in 1..6
       /\ \A i \in 1..5 : i < step => live[RestoreOrder[i]] = "classic"
       /\ doc.state = "prepared" => journal.id = doc.id \/ Untouched(saved)
  /\ pc = "outcome" => Healthy("classic") /\ kernel = "classic"

EntryInv ==
  /\ pc \in {"idle", "body"} => stage = "body"
  /\ pc = "reconcile" => stage = "entry"
  /\ pc = "body" /\ cmd # "timeout" => ~CleanupIsDue /\ journal = NoJournal
  /\ pc \in TailPcs => doc = NoDoc
  /\ pc = "prepare" => outcome.reason # "confirmed"

HolderInv == ActivateInv /\ ConfirmInv /\ RestoreInv /\ EntryInv

RevisionInv ==
  /\ RevisedExactlyOnce
  /\ outcome.reason = "confirmed" => outcome.updates \in [Profiles -> Nat]

OutcomeInv == ImageInv /\ HolderInv /\ RevisionInv
Known == TypeInv /\ CleanupInv /\ OutcomeInv

-----------------------------------------------------------------------------
(* Values *)

(* Documents and outcomes name a transaction exactly when there is one. *)
LEMMA RecordsNamed ==
  ASSUME TypeInv
  PROVE  /\ doc = NoDoc <=> doc.id = None
         /\ doc # NoDoc => doc.id \in Tx /\ doc.state \in {"prepared", "active"}
         /\ doc = NoDoc => doc.state = "none"
         /\ outcome = NoOutcome <=> outcome.id = None
         /\ outcome # NoOutcome => outcome.id \in Tx
         /\ outcome = NoOutcome => outcome.reason = "none"
         /\ journal = NoJournal <=> journal.id = None
<1>1. doc \in DocType /\ outcome \in OutcomeType /\ journal \in JournalType
  BY DEF TypeInv, DiskInv, DiskTyped
<1>2. (doc = NoDoc <=> doc.id = None) /\ (doc = NoDoc => doc.state = "none")
      /\ (doc # NoDoc => doc.id \in Tx /\ doc.state \in {"prepared", "active"})
  BY <1>1, NoneAssumption DEF DocType, NoDoc, DocStates
<1>3. (outcome = NoOutcome <=> outcome.id = None) /\ (outcome = NoOutcome => outcome.reason = "none")
      /\ (outcome # NoOutcome => outcome.id \in Tx)
  BY <1>1, NoneAssumption DEF OutcomeType, NoOutcome
<1>4. journal = NoJournal <=> journal.id = None
  BY <1>1, NoneAssumption DEF JournalType, NoJournal
<1> QED BY <1>2, <1>3, <1>4

LEMMA ComponentsListed ==
  /\ Components = {"config", "keys", "clients", "generated", "runtime"}
  /\ RestoreOrder[1] = "config" /\ RestoreOrder[2] = "keys" /\ RestoreOrder[3] = "clients"
  /\ RestoreOrder[4] = "generated" /\ RestoreOrder[5] = "runtime"
  BY DEF Components, Managed, RestoreOrder

(* A component is replaced once in the order of the restore. *)
LEMMA RestoreOrderDistinct ==
  \A i, j \in 1..5 : RestoreOrder[i] \in Components
                     /\ (RestoreOrder[i] = RestoreOrder[j] => i = j)
  BY ComponentsListed

LEMMA ImagesApart == Healthy("awg31") => ~Healthy("classic")
  BY ComponentsListed DEF Healthy

(* A step of another actor, or of a command that touches none of it. *)
LEMMA ImagesSame ==
  ImageInv /\ UNCHANGED <<doc, outcome, journal, live, kernel, timer>> => ImageInv'
  BY DEF ImageInv, ClosedInv, OpenInv, Open, Final, Untouched, WayBack, Watched, Healthy

(* While a transaction is closed, neither the timers nor the journal matter. *)
LEMMA ClosedSame ==
  ImageInv /\ ~Open /\ UNCHANGED <<doc, live, kernel>> /\ outcome'.id = outcome.id
    /\ outcome'.reason = outcome.reason => ImageInv'
  BY DEF ImageInv, ClosedInv, OpenInv, Open, Final, Healthy

LEMMA RevisionSame == RevisionInv /\ UNCHANGED <<outcome, revision>> => RevisionInv'
  BY DEF RevisionInv, RevisedExactlyOnce

(* Steps at which the holder has nothing to keep in mind. *)
LEMMA Calm == pc' \in {"cleanup", "stop", "expire"} => HolderInv'
  BY DEF HolderInv, ActivateInv, ConfirmInv, RestoreInv, EntryInv, BeforeJournal, BeforeReload,
         BeforeActive, AfterActive, ConfirmPcs, TailPcs

LEMMA FinishCalm == Finish => HolderInv'
  BY DEF Finish, HolderInv, ActivateInv, ConfirmInv, RestoreInv, EntryInv, BeforeJournal,
         BeforeReload, BeforeActive, AfterActive, ConfirmPcs, TailPcs

LEMMA RaiseCalm == Raise => HolderInv'
  BY Calm, FinishCalm DEF Raise, Goto

(* The tail of a cleanup asks only that no document is left. *)
LEMMA TailCalm == pc' \in TailPcs /\ doc' = NoDoc => HolderInv'
  BY DEF HolderInv, ActivateInv, ConfirmInv, RestoreInv, EntryInv, BeforeJournal, BeforeReload,
         BeforeActive, AfterActive, ConfirmPcs, TailPcs

-----------------------------------------------------------------------------
LEMMA ReconcileEnds == Known /\ Reconcile => OutcomeInv'
<1> SUFFICES ASSUME Known, Reconcile PROVE OutcomeInv'
  OBVIOUS
<1>1. ImageInv' /\ RevisionInv'
  BY ImagesSame, RevisionSame
     DEF Known, OutcomeInv, Reconcile, ReconcileCleanup, ReconcileNothing, ReconcileCompleted,
         ReconcileRefused, ReconcileRestore, disk, host
<1>2. CASE ReconcileCleanup
  BY <1>1, <1>2, Calm DEF ReconcileCleanup, Goto, OutcomeInv
<1>3. CASE ReconcileNothing
  <2>1. pc' = "body" /\ stage' = "body" /\ ~CleanupIsDue' /\ journal' = NoJournal
    BY <1>3 DEF ReconcileNothing, CleanupIsDue, disk
  <2>2. HolderInv'
    BY <2>1 DEF HolderInv, ActivateInv, ConfirmInv, RestoreInv, EntryInv, BeforeJournal,
                BeforeReload, BeforeActive, AfterActive, ConfirmPcs, TailPcs
  <2> QED BY <1>1, <2>2 DEF OutcomeInv
<1>4. CASE ReconcileCompleted
  <2>1. pc' \in TailPcs /\ doc' = NoDoc
    BY <1>4 DEF ReconcileCompleted, Goto, TailPcs, disk
  <2> QED BY <1>1, <2>1, TailCalm DEF OutcomeInv
<1>5. CASE ReconcileRefused
  BY <1>1, <1>5, FinishCalm DEF ReconcileRefused, OutcomeInv
<1>6. CASE ReconcileRestore
  <2>1. /\ pc' = "restore" /\ UNCHANGED <<doc, outcome, journal, stage>> /\ stage = "entry"
        /\ doc.id = journal.id /\ journal # NoJournal /\ journal.id # outcome.id
    BY <1>6 DEF ReconcileRestore, disk, Known, OutcomeInv, HolderInv, EntryInv
  <2>2. Open' /\ (doc.id = Target)'
    BY <2>1, RecordsNamed DEF Known, Open, Target
  <2>3. HolderInv'
    BY <2>1, <2>2 DEF HolderInv, ActivateInv, ConfirmInv, RestoreInv, EntryInv, BeforeJournal,
                BeforeReload, BeforeActive, AfterActive, ConfirmPcs, TailPcs
  <2> QED BY <1>1, <2>3 DEF OutcomeInv
<1> QED BY <1>2, <1>3, <1>4, <1>5, <1>6 DEF Reconcile

(* What the restore has put in place so far, one file more. *)
LEMMA Replaced ==
  ASSUME step \in 1..5, \A i \in 1..5 : i < step => live[RestoreOrder[i]] = "classic",
         live \in [Components -> Images], live' = [live EXCEPT ![RestoreOrder[step]] = "classic"]
  PROVE  \A i \in 1..5 : i < step + 1 => live'[RestoreOrder[i]] = "classic"
  BY RestoreOrderDistinct

LEMMA AllReplaced ==
  ASSUME TypeInv, pc = "replace", step > 5, HolderInv
  PROVE  Healthy("classic")
  BY ComponentsListed DEF HolderInv, RestoreInv, Healthy

LEMMA RestoreEnds == Known /\ Restore => OutcomeInv'
<1> SUFFICES ASSUME Known, Restore PROVE OutcomeInv'
  OBVIOUS
<1> USE OrderLengths
<1>1. CASE RestoreRejected
  BY <1>1, ImagesSame, RevisionSame, Calm DEF Known, OutcomeInv, RestoreRejected, Goto, disk, host
<1>2. CASE RestoreStaged
  <2>1. ImageInv' /\ RevisionInv'
    BY <1>2, ImagesSame, RevisionSame DEF Known, OutcomeInv, RestoreStaged, disk, host
  <2>2. /\ pc = "restore" /\ pc' = "replace" /\ step' = 1 /\ saved' = live
        /\ UNCHANGED <<doc, outcome, journal, stage, tx, kernel, live>>
    BY <1>2 DEF RestoreStaged, disk, host
  <2>3. Open /\ doc.id = Target
    BY <2>2 DEF Known, OutcomeInv, HolderInv, RestoreInv
  <2>4. doc.state = "prepared" => journal.id = doc.id \/ Untouched(live)
    BY <2>3 DEF Known, OutcomeInv, ImageInv, OpenInv
  <2>5. RestoreInv'
    BY <2>2, <2>3, <2>4 DEF RestoreInv, Open, Target, Untouched
  <2>6. HolderInv'
    BY <2>2, <2>5 DEF HolderInv, ActivateInv, ConfirmInv, EntryInv, BeforeJournal,
                BeforeReload, BeforeActive, AfterActive, ConfirmPcs, TailPcs
  <2> QED BY <2>1, <2>6 DEF OutcomeInv
<1>3. CASE RestoreDisplace \/ RestorePlace
  <2> DEFINE c == RestoreOrder[step]
             image == IF RestoreDisplace THEN "absent" ELSE "classic"
  <2>1. /\ pc = "replace" /\ pc' = "replace" /\ step <= 5
        /\ UNCHANGED <<doc, outcome, journal, stage, tx, kernel, timer, saved, revision>>
    BY <1>3 DEF RestoreDisplace, RestorePlace, Goto, host, local
  <2>2. step \in 1..5 /\ Open /\ doc.id = Target
    BY <2>1 DEF Known, OutcomeInv, HolderInv, RestoreInv
  <2>3. live \in [Components -> Images] /\ c \in Components
    BY <2>2, RestoreOrderDistinct DEF Known, TypeInv, DiskInv, DiskTyped
  <2>4. /\ \A i \in 1..5 : i < step => live[RestoreOrder[i]] = "classic"
        /\ doc.state = "prepared" => journal.id = doc.id \/ Untouched(saved)
    BY <2>1 DEF Known, OutcomeInv, HolderInv, RestoreInv
  <2>5. \A d \in Components : live'[d] = live[d] \/ live'[d] \in {"absent", "classic"}
    BY <1>3, <2>3 DEF RestoreDisplace, RestorePlace
  <2>6. ImageInv'
    <3>1. ClosedInv'
      BY <2>1, <2>2 DEF ClosedInv, Open
    <3>2. OpenInv'
      BY <2>1, <2>2, <2>5
         DEF Known, OutcomeInv, ImageInv, OpenInv, Open, Untouched, WayBack, Watched
    <3> QED BY <3>1, <3>2 DEF ImageInv
  <2>7. step' \in 1..6 /\ \A i \in 1..5 : i < step' => live'[RestoreOrder[i]] = "classic"
    <3>1. CASE RestoreDisplace
      <4>1. live' = [live EXCEPT ![c] = "absent"] /\ step' = step
        BY <3>1 DEF RestoreDisplace, Goto, local
      <4> QED BY <2>2, <2>3, <2>4, <4>1, RestoreOrderDistinct
    <3>2. CASE RestorePlace
      <4>1. live' = [live EXCEPT ![c] = "classic"] /\ step' = step + 1
        BY <3>2 DEF RestorePlace
      <4> QED BY <2>2, <2>3, <2>4, <4>1, Replaced
    <3> QED BY <1>3, <3>1, <3>2
  <2>8. RestoreInv'
    BY <2>1, <2>2, <2>4, <2>7 DEF RestoreInv, Open, Target, Untouched
  <2>9. HolderInv'
    BY <2>1, <2>8 DEF HolderInv, ActivateInv, ConfirmInv, EntryInv, BeforeJournal,
                BeforeReload, BeforeActive, AfterActive, ConfirmPcs, TailPcs
  <2> QED BY <2>1, <2>6, <2>9, RevisionSame DEF Known, OutcomeInv
<1>4. CASE RestoreReload
  <2>1. /\ pc = "replace" /\ step > 5 /\ pc' = "outcome" /\ kernel' = live["runtime"]
        /\ UNCHANGED <<doc, outcome, journal, stage, tx, live, timer, revision>>
    BY <1>4 DEF RestoreReload, Goto, disk, local
  <2>2. Healthy("classic") /\ Open /\ doc.id = Target
    BY <2>1, AllReplaced DEF Known, OutcomeInv, HolderInv, RestoreInv
  <2>3. kernel' = "classic"
    BY <2>1, <2>2, ComponentsListed DEF Healthy
  <2>4. ImageInv'
    BY <2>1, <2>2, <2>3
       DEF Known, OutcomeInv, ImageInv, ClosedInv, OpenInv, Open, Untouched, WayBack
  <2>5. HolderInv'
    BY <2>1, <2>2, <2>3
       DEF HolderInv, ActivateInv, ConfirmInv, RestoreInv, EntryInv, BeforeJournal, BeforeReload,
           BeforeActive, AfterActive, ConfirmPcs, TailPcs, Open, Target, Healthy
  <2> QED BY <2>1, <2>4, <2>5, RevisionSame DEF Known, OutcomeInv
<1>5. CASE RestoreUndo
  <2>1. /\ pc = "replace" /\ pc' = "stop" /\ live' = saved
        /\ UNCHANGED <<doc, outcome, journal, timer, revision>>
        /\ kernel' = kernel \/ (step > 5 /\ kernel' = live["runtime"])
    BY <1>5 DEF RestoreUndo, Goto
  <2>2. /\ Open /\ kernel' \in {kernel, "classic"}
        /\ doc.state = "prepared" => journal.id = doc.id \/ Untouched(saved)
    BY <2>1, AllReplaced, ComponentsListed DEF Known, OutcomeInv, HolderInv, RestoreInv, Healthy
  <2>3. ImageInv'
    BY <2>1, <2>2
       DEF Known, OutcomeInv, ImageInv, ClosedInv, OpenInv, Open, Untouched, WayBack, Watched
  <2> QED BY <2>1, <2>3, Calm, RevisionSame DEF Known, OutcomeInv
<1>6. CASE FailSafeStop
  <2>1. Finish /\ kernel' \in {kernel, "down"} /\ UNCHANGED <<disk, timer>>
    BY <1>6 DEF FailSafeStop
  <2>2. ImageInv'
    BY <2>1 DEF Known, OutcomeInv, ImageInv, ClosedInv, OpenInv, Open, Final, Untouched, WayBack,
                Watched, Healthy, disk
  <2> QED BY <2>1, <2>2, FinishCalm, RevisionSame DEF Known, OutcomeInv, disk
<1>7. CASE BeginRolledBack
  <2>1. CASE RecordOutcome(RollbackReason, NoUpdates) /\ Goto("cleanup")
    <3>1. /\ pc = "outcome" /\ outcome'.id = doc.id /\ outcome'.reason # "confirmed"
          /\ UNCHANGED <<doc, live, kernel>>
      BY <1>7, <2>1 DEF BeginRolledBack, RecordOutcome, RollbackReason, host
    <3>2. Healthy("classic") /\ kernel = "classic"
      BY <3>1 DEF Known, OutcomeInv, HolderInv, RestoreInv
    <3>3. ImageInv' /\ RevisionInv'
      BY <3>1, <3>2 DEF ImageInv, ClosedInv, OpenInv, Open, Final, Healthy, RevisionInv,
                        RevisedExactlyOnce
    <3> QED BY <2>1, <3>3, Calm DEF Goto, OutcomeInv
  <2>2. CASE Raise /\ UNCHANGED disk
    BY <1>7, <2>2, RaiseCalm, ImagesSame, RevisionSame
       DEF BeginRolledBack, Known, OutcomeInv, disk, host
  <2> QED BY <1>7, <2>1, <2>2 DEF BeginRolledBack
<1> QED BY <1>1, <1>2, <1>3, <1>4, <1>5, <1>6, <1>7 DEF Restore

(* A phase of the cleanup ends: the outcome keeps its transaction and reason. *)
LEMMA AdvanceKeepsOutcome ==
  ASSUME TypeInv, NEW phase \in CleanupPhases \ {"complete"}, CleaningUp(phase), Advance
  PROVE  /\ outcome'.id = outcome.id /\ outcome'.reason = outcome.reason
         /\ outcome'.updates = outcome.updates /\ outcome'.phase # "checkpoint"
         /\ UNCHANGED <<doc, journal, live, revision>>
<1>1. outcome \in [id : Tx, reason : Reasons, phase : CleanupPhases, updates : UpdateType]
  BY DEF CleaningUp, TypeInv, DiskInv, DiskTyped, OutcomeType, NoOutcome
<1>2. NextPhase[phase] # "checkpoint"
  BY DEF NextPhase, CleanupPhases
<1> QED BY <1>1, <1>2 DEF CleaningUp, Advance

LEMMA CleaningIsClosed ==
  ASSUME NEW phase, CleaningUp(phase) PROVE ~Open
  BY DEF CleaningUp, Open

LEMMA CleanupEnds == Known /\ Cleanup => OutcomeInv'
<1> SUFFICES ASSUME Known, Cleanup PROVE OutcomeInv'
  OBVIOUS
<1>1. ASSUME NEW p \in Profiles, ApplyProfileUpdate(p) PROVE OutcomeInv'
  <2>1. /\ outcome.phase = "checkpoint" /\ revision[p] = outcome.updates[p]
        /\ revision' = [revision EXCEPT ![p] = @ + 1] /\ p \in DOMAIN outcome.updates
        /\ UNCHANGED <<doc, outcome, journal, live, kernel, timer>> /\ pc' = "cleanup"
    BY <1>1 DEF ApplyProfileUpdate, CleaningUp, Goto, host
  <2>2. revision \in [Profiles -> Nat]
    BY DEF Known, TypeInv, DiskInv, DiskTyped
  <2>3. RevisionInv'
    BY <2>1, <2>2 DEF Known, OutcomeInv, RevisionInv, RevisedExactlyOnce
  <2> QED BY <2>1, <2>3, ImagesSame, Calm DEF Known, OutcomeInv
<1>2. CASE ProfilesUpdated
  <2>1. /\ CleaningUp("checkpoint") /\ Advance /\ UNCHANGED <<kernel, timer>> /\ pc' = "cleanup"
        /\ \A p \in DOMAIN outcome.updates : revision[p] = outcome.updates[p] + 1
    BY <1>2 DEF ProfilesUpdated, Goto, host
  <2>2. /\ outcome'.id = outcome.id /\ outcome'.reason = outcome.reason
        /\ outcome'.updates = outcome.updates /\ UNCHANGED <<doc, live, revision>>
    BY <2>1, AdvanceKeepsOutcome DEF Known, CleanupPhases
  <2>3. ImageInv'
    BY <2>1, <2>2, CleaningIsClosed, ClosedSame DEF Known, OutcomeInv
  <2>4. RevisionInv'
    BY <2>1, <2>2 DEF Known, OutcomeInv, RevisionInv, RevisedExactlyOnce
  <2> QED BY <2>1, <2>3, <2>4, Calm DEF OutcomeInv
<1>3. CASE PendingRemoved \/ DocumentRemoved \/ CleanupComplete
  <2>1. PICK phase \in {"metadata", "pending", "current"} :
          CleaningUp(phase) /\ Advance /\ UNCHANGED <<kernel, timer>> /\ pc' = "cleanup"
    BY <1>3 DEF PendingRemoved, DocumentRemoved, CleanupComplete, Goto, host
  <2>2. /\ outcome'.id = outcome.id /\ outcome'.reason = outcome.reason
        /\ outcome'.updates = outcome.updates /\ outcome'.phase # "checkpoint"
        /\ UNCHANGED <<doc, live, revision>> /\ outcome.phase # "checkpoint"
    BY <2>1, AdvanceKeepsOutcome DEF Known, CleanupPhases, CleaningUp
  <2>3. ImageInv'
    BY <2>1, <2>2, CleaningIsClosed, ClosedSame DEF Known, OutcomeInv
  <2>4. RevisionInv'
    BY <2>1, <2>2 DEF Known, OutcomeInv, RevisionInv, RevisedExactlyOnce
  <2> QED BY <2>1, <2>3, <2>4, Calm DEF OutcomeInv
<1>4. CASE RemovePending
  BY <1>4, ImagesSame, RevisionSame, Calm DEF RemovePending, Goto, host, Known, OutcomeInv
<1>5. CASE RemoveDocument
  <2>1. ~Open /\ doc' = NoDoc /\ UNCHANGED <<outcome, live, kernel, revision>> /\ pc' = "cleanup"
    BY <1>5, CleaningIsClosed DEF RemoveDocument, Goto, host
  <2>2. ImageInv'
    BY <2>1 DEF Known, OutcomeInv, ImageInv, ClosedInv, OpenInv, Open, Final, Healthy
  <2> QED BY <2>1, <2>2, RevisionSame, Calm DEF Known, OutcomeInv
<1>6. CASE CancelOwnRecovery
  <2>1. ~Open /\ UNCHANGED <<doc, outcome, live, kernel, revision>> /\ pc' = "cleanup"
    BY <1>6, CleaningIsClosed DEF CancelOwnRecovery, Goto, disk
  <2> QED BY <2>1, ClosedSame, RevisionSame, Calm DEF Known, OutcomeInv
<1>7. CASE CleanupFails \/ CleanupRefused
  BY <1>7, ImagesSame, RevisionSame, RaiseCalm
     DEF CleanupFails, CleanupRefused, Known, OutcomeInv, disk, host
<1>8. CASE CleanupReturns
  <2>1. ImageInv' /\ RevisionInv'
    BY <1>8, ImagesSame, RevisionSame DEF CleanupReturns, Known, OutcomeInv, disk, host
  <2>2. CASE Finish \/ pc' = "expire"
    BY <2>1, <2>2, Calm, FinishCalm DEF OutcomeInv
  <2>3. CASE pc' \in {"units", "journal"}
    BY <1>8, <2>1, <2>3, TailCalm DEF CleanupReturns, OutcomeInv, TailPcs, disk
  <2>4. CASE pc' = "reconcile" /\ stage' = "entry"
    BY <2>1, <2>4 DEF OutcomeInv, HolderInv, ActivateInv, ConfirmInv, RestoreInv, EntryInv,
                      BeforeJournal, BeforeReload, BeforeActive, AfterActive, ConfirmPcs, TailPcs
  <2> QED BY <1>8, <2>2, <2>3, <2>4 DEF CleanupReturns, Goto, local
<1>9. CASE RemoveFirstUnit \/ RemoveSecondUnit
  <2>1. /\ doc = NoDoc /\ UNCHANGED <<doc, outcome, live, kernel, revision>>
        /\ pc' \in TailPcs
    BY <1>9 DEF RemoveFirstUnit, RemoveSecondUnit, Known, OutcomeInv, HolderInv, EntryInv, TailPcs,
                disk
  <2> QED BY <2>1, ClosedSame, RevisionSame, TailCalm DEF Open, Known, OutcomeInv
<1>10. CASE UnitsRemoved
  <2>1. ImageInv' /\ RevisionInv' /\ UNCHANGED doc /\ doc = NoDoc
    BY <1>10, ImagesSame, RevisionSame
       DEF UnitsRemoved, Known, OutcomeInv, HolderInv, EntryInv, TailPcs, disk, host
  <2>2. CASE Raise \/ Finish
    BY <2>1, <2>2, RaiseCalm, FinishCalm DEF OutcomeInv
  <2>3. CASE Goto("journal")
    BY <2>1, <2>3, TailCalm DEF Goto, TailPcs, OutcomeInv
  <2> QED BY <1>10, <2>2, <2>3 DEF UnitsRemoved
<1>11. CASE DeleteJournal
  <2>1. /\ doc = NoDoc /\ journal' = NoJournal
        /\ UNCHANGED <<doc, outcome, live, kernel, revision>>
        /\ Finish \/ (pc' = "body" /\ stage' = "body")
    BY <1>11 DEF DeleteJournal, Known, OutcomeInv, HolderInv, EntryInv, TailPcs, host
  <2>2. ImageInv' /\ RevisionInv'
    BY <2>1, ClosedSame, RevisionSame DEF Open, Known, OutcomeInv
  <2>3. ~CleanupIsDue'
    <3>1. outcome.phase = "complete"
      BY <1>11 DEF DeleteJournal, Known, CleanupInv, SettledIsComplete, Settled, TailPcs
    <3>2. outcome = NoOutcome \/ doc.id # outcome.id
      BY <2>1, RecordsNamed DEF Known
    <3> QED BY <2>1, <3>1, <3>2 DEF CleanupIsDue
  <2>4. HolderInv'
    <3>1. CASE Finish
      BY <3>1, FinishCalm
    <3>2. CASE pc' = "body" /\ stage' = "body"
      BY <2>1, <2>3, <3>2
         DEF HolderInv, ActivateInv, ConfirmInv, RestoreInv, EntryInv, BeforeJournal,
             BeforeReload, BeforeActive, AfterActive, ConfirmPcs, TailPcs
    <3> QED BY <2>1, <3>1, <3>2
  <2> QED BY <2>2, <2>4 DEF OutcomeInv
<1> QED BY <1>1, <1>2, <1>3, <1>4, <1>5, <1>6, <1>7, <1>8, <1>9, <1>10, <1>11 DEF Cleanup

LEMMA PrepareEnds == Known /\ Prepare => OutcomeInv'
<1> SUFFICES ASSUME Known, Prepare PROVE OutcomeInv'
  OBVIOUS
<1>1. ASSUME NEW t \in Tx, PreparePending(t) PROVE OutcomeInv'
  <2>1. /\ doc = NoDoc /\ Healthy("classic") /\ pc' = "prepare"
        /\ UNCHANGED <<doc, outcome, journal, live, kernel, timer, revision>>
    BY <1>1 DEF PreparePending, host
  <2>2. outcome.reason # "confirmed"
    BY <2>1, ImagesApart DEF Known, OutcomeInv, ImageInv, ClosedInv, Open, Final
  <2>3. HolderInv'
    BY <2>1, <2>2 DEF HolderInv, ActivateInv, ConfirmInv, RestoreInv, EntryInv, BeforeJournal,
                BeforeReload, BeforeActive, AfterActive, ConfirmPcs, TailPcs
  <2> QED BY <2>1, <2>3, ImagesSame, RevisionSame DEF Known, OutcomeInv
<1>2. CASE PrepareDocument
  <2>1. /\ doc = NoDoc /\ pc = "prepare" /\ doc' = [id |-> tx, state |-> "prepared"] /\ Finish
        /\ UNCHANGED <<outcome, journal, live, kernel, revision>>
    BY <1>2 DEF PrepareDocument, host
  <2>2. /\ outcome.reason # "confirmed" /\ tx # outcome.id
        /\ Healthy("classic") /\ kernel \in {"down", "classic"}
    BY <2>1 DEF Known, OutcomeInv, HolderInv, EntryInv, ImageInv, ClosedInv, Open, Final,
                CleanupInv, IdentifiersDrawn
  <2>3. tx # None
    BY <2>1, NoneAssumption DEF Known, TypeInv, OwnerInv
  <2>4. ImageInv'
    BY <2>1, <2>2, <2>3 DEF ImageInv, ClosedInv, OpenInv, Open, Untouched, Healthy, NoDoc
  <2> QED BY <2>1, <2>4, FinishCalm, RevisionSame DEF Known, OutcomeInv
<1>3. CASE PrepareFails \/ PrepareRefused
  BY <1>3, FinishCalm, ImagesSame, RevisionSame
     DEF PrepareFails, PrepareRefused, Refuse, Known, OutcomeInv, disk, host
<1> QED BY <1>1, <1>2, <1>3 DEF Prepare

LEMMA JournalStep ==
  ASSUME NEW label, NEW phase, NEW next, WriteJournal(label, phase, next)
  PROVE  /\ pc = label /\ pc' = next /\ journal'.id = tx
         /\ UNCHANGED <<doc, outcome, live, kernel, timer, revision, stage, tx>>
  BY DEF WriteJournal, host

(* The steps of an activation, by what they have established. *)
LEMMA ActivateEnds == Known /\ Activate => OutcomeInv'
<1> SUFFICES ASSUME Known, Activate PROVE OutcomeInv'
  OBVIOUS
<1> USE OrderLengths
<1>1. CASE ActivateChecked
  <2>1. /\ pc = "body" /\ cmd = "activate" /\ ActivationReady /\ pc' = "arm"
        /\ UNCHANGED <<doc, outcome, journal, live, kernel, timer, revision, stage, tx>>
    BY <1>1 DEF ActivateChecked, Running, Goto, disk, host, local
  <2>2. stage = "body" /\ ~CleanupIsDue
    BY <2>1 DEF Known, OutcomeInv, HolderInv, EntryInv
  <2>3. tx \in Tx
    BY <2>1 DEF Known, TypeInv, OwnerInv
  <2>4. MyDoc
    BY <2>1, <2>2, <2>3, RecordsNamed, NoneAssumption
       DEF Known, ActivationReady, CleanupIsDue, MyDoc, Open, NoDoc
  <2>5. HolderInv'
    BY <2>1, <2>4 DEF HolderInv, ActivateInv, ConfirmInv, RestoreInv, EntryInv, BeforeJournal,
                BeforeReload, BeforeActive, AfterActive, ConfirmPcs, TailPcs, MyDoc, Open, Healthy,
                ActivationReady
  <2> QED BY <2>1, <2>5, ImagesSame, RevisionSame DEF Known, OutcomeInv
<1>2. CASE ArmRecovery
  <2>1. /\ pc = "arm" /\ pc' = "intent"
        /\ UNCHANGED <<doc, outcome, journal, live, kernel, revision, stage, tx>>
    BY <1>2 DEF ArmRecovery, Goto, disk, local
  <2>2. MyDoc /\ doc.state = "prepared"
    BY <2>1 DEF Known, OutcomeInv, HolderInv, ActivateInv, BeforeJournal
  <2>3. ImageInv'
    BY <2>1, <2>2 DEF Known, OutcomeInv, ImageInv, ClosedInv, OpenInv, Open, Final, Untouched,
                      Healthy, MyDoc
  <2>4. HolderInv'
    BY <2>1, <2>2 DEF Known, OutcomeInv, HolderInv, ActivateInv, ConfirmInv, RestoreInv, EntryInv,
                BeforeJournal, BeforeReload, BeforeActive, AfterActive, ConfirmPcs, TailPcs, MyDoc,
                Open, Healthy
  <2> QED BY <2>1, <2>3, <2>4, RevisionSame DEF Known, OutcomeInv
<1>3. CASE JournalIntent \/ JournalArmed \/ JournalInstalled \/ JournalReloaded
  <2>1. /\ journal'.id = tx
        /\ UNCHANGED <<doc, outcome, live, kernel, timer, revision, stage, tx>>
        /\ \/ pc = "intent" /\ pc' = "armed"
           \/ pc = "armed" /\ pc' = "install"
           \/ pc = "install" /\ pc' = "commit"
           \/ pc = "reloaded" /\ pc' = "activate"
    <3>1. CASE JournalIntent
      BY <3>1, JournalStep DEF JournalIntent
    <3>2. CASE JournalArmed
      BY <3>2, JournalStep DEF JournalArmed
    <3>3. CASE JournalInstalled
      BY <3>3, JournalStep DEF JournalInstalled
    <3>4. CASE JournalReloaded
      BY <3>4, JournalStep DEF JournalReloaded
    <3> QED BY <1>3, <3>1, <3>2, <3>3, <3>4
  <2>2. /\ MyDoc /\ doc.state = "prepared"
        /\ pc' = "activate" => kernel = "awg31"
        /\ pc' \in {"armed", "install", "commit"} => kernel = "classic"
    BY <2>1 DEF Known, OutcomeInv, HolderInv, ActivateInv, BeforeJournal, BeforeReload, BeforeActive
  <2>3. ImageInv'
    BY <2>1, <2>2 DEF Known, OutcomeInv, ImageInv, ClosedInv, OpenInv, Open, MyDoc
  <2>4. HolderInv'
    BY <2>1, <2>2 DEF HolderInv, ActivateInv, ConfirmInv, RestoreInv, EntryInv,
                BeforeJournal, BeforeReload, BeforeActive, AfterActive, ConfirmPcs, TailPcs, MyDoc,
                Open
  <2> QED BY <2>1, <2>3, <2>4, RevisionSame DEF Known, OutcomeInv
<1>4. CASE JournalActive \/ JournalFinalArmed
  <2>1. /\ journal'.id = tx
        /\ UNCHANGED <<doc, outcome, live, kernel, timer, revision, stage, tx>>
        /\ \/ pc = "activated" /\ pc' = "armFinal"
           \/ pc = "prove" /\ pc' = "cancelRecovery"
    <3>1. CASE JournalActive
      BY <3>1, JournalStep DEF JournalActive
    <3>2. CASE JournalFinalArmed
      BY <3>2, JournalStep DEF JournalFinalArmed
    <3> QED BY <1>4, <3>1, <3>2
  <2>2. /\ MyDoc /\ doc.state = "active" /\ journal.id = tx
        /\ pc' = "cancelRecovery" => Watched(tx, "final")
    BY <2>1 DEF Known, OutcomeInv, HolderInv, ActivateInv, AfterActive
  <2>3. ImageInv'
    BY <2>1, <2>2 DEF Known, OutcomeInv, ImageInv, ClosedInv, OpenInv, Open, MyDoc, WayBack
  <2>4. HolderInv'
    BY <2>1, <2>2 DEF HolderInv, ActivateInv, ConfirmInv, RestoreInv, EntryInv,
                BeforeJournal, BeforeReload, BeforeActive, AfterActive, ConfirmPcs, TailPcs, MyDoc,
                Open, Watched
  <2> QED BY <2>1, <2>3, <2>4, RevisionSame DEF Known, OutcomeInv
<1>5. CASE InstallArtifact \/ CommitGenerated \/ CommitRuntime
  <2>1. /\ UNCHANGED <<doc, outcome, journal, kernel, timer, revision, stage, tx>>
        /\ \/ pc = "install" /\ pc' = "install"
           \/ pc = "commit" /\ pc' = "commit2"
           \/ pc = "commit2" /\ pc' = "reload" /\ live' = [live EXCEPT !["runtime"] = "awg31"]
    <3>1. CASE InstallArtifact
      BY <3>1 DEF InstallArtifact, host
    <3>2. CASE CommitGenerated
      BY <3>2 DEF CommitGenerated, CommitFile, Goto, host, local
    <3>3. CASE CommitRuntime
      BY <3>3 DEF CommitRuntime, CommitFile, Goto, host, local
    <3> QED BY <1>5, <3>1, <3>2, <3>3
  <2>2. MyDoc /\ doc.state = "prepared" /\ journal.id = tx /\ kernel = "classic"
    BY <2>1 DEF Known, OutcomeInv, HolderInv, ActivateInv, BeforeReload
  <2>3. ImageInv'
    BY <2>1, <2>2 DEF Known, OutcomeInv, ImageInv, ClosedInv, OpenInv, Open, MyDoc
  <2>4. pc' = "reload" => live'["runtime"] = "awg31"
    BY <2>1, ComponentsListed DEF Known, TypeInv, DiskInv, DiskTyped
  <2>5. HolderInv'
    BY <2>1, <2>2, <2>4 DEF HolderInv, ActivateInv, ConfirmInv, RestoreInv, EntryInv,
                BeforeJournal, BeforeReload, BeforeActive, AfterActive, ConfirmPcs, TailPcs, MyDoc,
                Open
  <2> QED BY <2>1, <2>3, <2>5, RevisionSame DEF Known, OutcomeInv
<1>6. CASE CommitReload
  <2>1. /\ pc = "reload" /\ pc' = "reloaded" /\ kernel' = live["runtime"]
        /\ UNCHANGED <<doc, outcome, journal, live, timer, revision, stage, tx>>
    BY <1>6 DEF CommitReload, Goto, disk, local
  <2>2. MyDoc /\ doc.state = "prepared" /\ journal.id = tx /\ kernel' = "awg31"
    BY <2>1 DEF Known, OutcomeInv, HolderInv, ActivateInv, BeforeReload
  <2>3. ImageInv'
    BY <2>1, <2>2 DEF Known, OutcomeInv, ImageInv, ClosedInv, OpenInv, Open, MyDoc
  <2>4. HolderInv'
    BY <2>1, <2>2 DEF HolderInv, ActivateInv, ConfirmInv, RestoreInv, EntryInv,
                BeforeJournal, BeforeReload, BeforeActive, AfterActive, ConfirmPcs, TailPcs, MyDoc,
                Open
  <2> QED BY <2>1, <2>3, <2>4, RevisionSame DEF Known, OutcomeInv
<1>7. CASE CommitReloadFails
  <2>1. /\ pc = "reload" /\ pc' = "failed"
        /\ UNCHANGED <<doc, outcome, journal, timer, revision, stage, tx>>
    BY <1>7 DEF CommitReloadFails, Goto, local
  <2>2. MyDoc /\ doc.state = "prepared" /\ journal.id = tx
    BY <2>1 DEF Known, OutcomeInv, HolderInv, ActivateInv, BeforeReload
  <2>3. ImageInv'
    BY <2>1, <2>2 DEF Known, OutcomeInv, ImageInv, ClosedInv, OpenInv, Open, MyDoc
  <2>4. HolderInv'
    BY <2>1, <2>2 DEF HolderInv, ActivateInv, ConfirmInv, RestoreInv, EntryInv,
                BeforeJournal, BeforeReload, BeforeActive, AfterActive, ConfirmPcs, TailPcs, MyDoc,
                Open
  <2> QED BY <2>1, <2>3, <2>4, RevisionSame DEF Known, OutcomeInv
<1>8. CASE ActivateDocument
  <2>1. /\ pc = "activate" /\ pc' = "activated" /\ doc = [id |-> tx, state |-> "prepared"]
        /\ doc' = [doc EXCEPT !.state = "active"]
        /\ UNCHANGED <<outcome, journal, live, kernel, timer, revision, stage, tx>>
    BY <1>8 DEF ActivateDocument, Goto, local
  <2>2. MyDoc /\ journal.id = tx
    BY <2>1 DEF Known, OutcomeInv, HolderInv, ActivateInv, BeforeActive
  <2>3. doc'.id = tx /\ doc'.state = "active" /\ doc' # NoDoc
    BY <2>1 DEF NoDoc
  <2>4. ImageInv'
    BY <2>1, <2>2, <2>3
       DEF Known, OutcomeInv, ImageInv, ClosedInv, OpenInv, Open, MyDoc, WayBack
  <2>5. HolderInv'
    BY <2>1, <2>2, <2>3 DEF HolderInv, ActivateInv, ConfirmInv, RestoreInv, EntryInv,
                BeforeJournal, BeforeReload, BeforeActive, AfterActive, ConfirmPcs, TailPcs, MyDoc,
                Open
  <2> QED BY <2>1, <2>4, <2>5, RevisionSame DEF Known, OutcomeInv
<1>9. CASE ArmFinal \/ CancelRecovery
  <2> DEFINE k == IF ArmFinal THEN "final" ELSE "recovery"
  <2>1. /\ \/ pc = "armFinal" /\ pc' = "prove"
              /\ timer' = [timer EXCEPT ![<<tx, "final">>] = "armed"]
           \/ pc = "cancelRecovery" /\ pc' = "cancelled"
              /\ timer' = [timer EXCEPT ![<<tx, "recovery">>] = "absent"]
        /\ UNCHANGED <<doc, outcome, journal, live, kernel, revision, stage, tx>>
    BY <1>9 DEF ArmFinal, CancelRecovery, Goto, disk, local
  <2>2. /\ MyDoc /\ doc.state = "active" /\ journal.id = tx
        /\ pc = "cancelRecovery" => Watched(tx, "final")
    BY <2>1 DEF Known, OutcomeInv, HolderInv, ActivateInv, AfterActive
  <2>3. doc.id \in Tx /\ timer \in [Tx \X Kinds -> {"absent", "armed", "fired", "spent"}]
    BY <2>2, RecordsNamed DEF MyDoc, Open, Known, TypeInv, HostTyped
  <2>4. Watched(tx, "final")'
    BY <2>1, <2>2, <2>3 DEF Watched, MyDoc, Kinds
  <2>5. ImageInv'
    BY <2>1, <2>2 DEF Known, OutcomeInv, ImageInv, ClosedInv, OpenInv, Open, MyDoc, WayBack
  <2>6. HolderInv'
    BY <2>1, <2>2, <2>4 DEF HolderInv, ActivateInv, ConfirmInv, RestoreInv, EntryInv,
                BeforeJournal, BeforeReload, BeforeActive, AfterActive, ConfirmPcs, TailPcs, MyDoc,
                Open
  <2> QED BY <2>1, <2>5, <2>6, RevisionSame DEF Known, OutcomeInv
<1>10. CASE ActivationCommitted
  <2>1. /\ pc = "cancelled" /\ Finish
        /\ UNCHANGED <<doc, outcome, live, kernel, timer, revision>>
    BY <1>10 DEF ActivationCommitted, host
  <2>2. MyDoc /\ doc.state = "active" /\ Watched(tx, "final")
    BY <2>1 DEF Known, OutcomeInv, HolderInv, ActivateInv, AfterActive
  <2>3. ImageInv'
    BY <2>1, <2>2
       DEF Known, OutcomeInv, ImageInv, ClosedInv, OpenInv, Open, MyDoc, WayBack, Watched, Kinds
  <2> QED BY <2>1, <2>3, FinishCalm, RevisionSame DEF Known, OutcomeInv
<1>11. CASE ActivationOverdue \/ ActivationFails
  <2>1. /\ pc \in ActivationPcs /\ pc' = "failed"
        /\ UNCHANGED <<doc, outcome, journal, live, kernel, timer, revision, stage, tx>>
    BY <1>11 DEF ActivationOverdue, ActivationFails, ActivationPcs, Goto, disk, host, local
  <2>2. pc \in BeforeJournal \cup BeforeReload \cup BeforeActive \cup AfterActive
    BY <2>1 DEF ActivationPcs, BeforeJournal, BeforeReload, BeforeActive, AfterActive
  <2>3. MyDoc /\ (doc.state = "active" => journal.id = tx)
    BY <2>2 DEF Known, OutcomeInv, HolderInv, ActivateInv
  <2>4. HolderInv'
    BY <2>1, <2>3 DEF HolderInv, ActivateInv, ConfirmInv, RestoreInv, EntryInv,
                BeforeJournal, BeforeReload, BeforeActive, AfterActive, ConfirmPcs, TailPcs, MyDoc,
                Open
  <2> QED BY <2>1, <2>4, ImagesSame, RevisionSame DEF Known, OutcomeInv
<1>12. CASE ActivationAbandoned
  <2>1. /\ pc = "failed" /\ pc' = "restore"
        /\ UNCHANGED <<doc, outcome, journal, live, kernel, revision, stage, tx>>
    BY <1>12 DEF ActivationAbandoned, disk
  <2>2. MyDoc /\ (doc.state = "active" => journal.id = tx)
    BY <2>1 DEF Known, OutcomeInv, HolderInv, ActivateInv
  <2>3. ImageInv'
    BY <2>1, <2>2 DEF Known, OutcomeInv, ImageInv, ClosedInv, OpenInv, Open, MyDoc, WayBack, Untouched
  <2>4. HolderInv'
    BY <2>1, <2>2 DEF HolderInv, ActivateInv, ConfirmInv, RestoreInv, EntryInv,
                BeforeJournal, BeforeReload, BeforeActive, AfterActive, ConfirmPcs, TailPcs, MyDoc,
                Open, Target
  <2> QED BY <2>1, <2>3, <2>4, RevisionSame DEF Known, OutcomeInv
<1>13. CASE ActivateRefused
  BY <1>13, FinishCalm, ImagesSame, RevisionSame
     DEF ActivateRefused, Refuse, Known, OutcomeInv, disk, host
<1> QED BY <1>1, <1>2, <1>3, <1>4, <1>5, <1>6, <1>7, <1>8, <1>9, <1>10, <1>11, <1>12, <1>13
        DEF Activate

(* A recovery timer is armed before the final one is cancelled, and the      *)
(* outcome is recorded on components found to be AWG 3.1.                      *)
LEMMA ConfirmEnds == Known /\ Confirm => OutcomeInv'
<1> SUFFICES ASSUME Known, Confirm PROVE OutcomeInv'
  OBVIOUS
<1>1. CASE ConfirmAgain
  BY <1>1, Calm, ImagesSame, RevisionSame DEF ConfirmAgain, Goto, Known, OutcomeInv, disk, host
<1>2. CASE ConfirmChecked
  <2>1. /\ pc = "body" /\ cmd = "confirm" /\ ConfirmReady /\ pc' = "confirmArm"
        /\ UNCHANGED <<doc, outcome, journal, live, kernel, timer, revision, stage, tx>>
    BY <1>2 DEF ConfirmChecked, Running, Goto, disk, host, local
  <2>2. stage = "body" /\ tx \in Tx
    BY <2>1 DEF Known, OutcomeInv, HolderInv, EntryInv, TypeInv, OwnerInv
  <2>3. MyDoc /\ doc.state = "active" /\ Healthy("awg31") /\ kernel = "awg31"
    BY <2>1, <2>2, NoneAssumption DEF ConfirmReady, MyDoc, Open, NoDoc
  <2>4. HolderInv'
    BY <2>1, <2>3 DEF HolderInv, ActivateInv, ConfirmInv, RestoreInv, EntryInv, BeforeJournal,
                BeforeReload, BeforeActive, AfterActive, ConfirmPcs, TailPcs, MyDoc, Open, Healthy
  <2> QED BY <2>1, <2>4, ImagesSame, RevisionSame DEF Known, OutcomeInv
<1>3. CASE ConfirmArmRecovery \/ ConfirmCancelFinal
  <2>1. /\ \/ pc = "confirmArm" /\ pc' = "confirmCancel"
              /\ timer' = [timer EXCEPT ![<<tx, "recovery">>] = "armed"]
           \/ pc = "confirmCancel" /\ pc' = "confirmed"
              /\ timer' = [timer EXCEPT ![<<tx, "final">>] = "absent"]
        /\ UNCHANGED <<doc, outcome, journal, live, kernel, revision, stage, tx>>
    BY <1>3 DEF ConfirmArmRecovery, ConfirmCancelFinal, ArmTimer, Goto, disk, local
  <2>2. /\ MyDoc /\ doc.state = "active" /\ Healthy("awg31") /\ kernel = "awg31"
        /\ pc = "confirmCancel" => Watched(tx, "recovery")
    BY <2>1 DEF Known, OutcomeInv, HolderInv, ConfirmInv, ConfirmPcs
  <2>3. doc.id \in Tx /\ timer \in [Tx \X Kinds -> {"absent", "armed", "fired", "spent"}]
    BY <2>2, RecordsNamed DEF MyDoc, Open, Known, TypeInv, HostTyped
  <2>4. Watched(tx, "recovery")'
    BY <2>1, <2>2, <2>3 DEF Watched, MyDoc, Kinds
  <2>5. ImageInv'
    BY <2>1, <2>2, <2>4
       DEF Known, OutcomeInv, ImageInv, ClosedInv, OpenInv, Open, MyDoc, WayBack, Kinds, Watched
  <2>6. HolderInv'
    BY <2>1, <2>2, <2>4 DEF HolderInv, ActivateInv, ConfirmInv, RestoreInv, EntryInv,
                BeforeJournal, BeforeReload, BeforeActive, AfterActive, ConfirmPcs, TailPcs, MyDoc,
                Open, Healthy
  <2> QED BY <2>1, <2>5, <2>6, RevisionSame DEF Known, OutcomeInv
<1>4. CASE ConfirmOutcome
  <2>1. /\ pc = "confirmed" /\ pc' = "cleanup" /\ doc.id = Target
        /\ outcome' = [id |-> Target, reason |-> "confirmed", phase |-> "checkpoint",
                       updates |-> revision]
        /\ UNCHANGED <<doc, journal, live, kernel, revision>>
    BY <1>4 DEF ConfirmOutcome, RecordOutcome, Goto, host
  <2>2. Healthy("awg31") /\ kernel = "awg31"
    BY <2>1 DEF Known, OutcomeInv, HolderInv, ConfirmInv, ConfirmPcs
  <2>3. ImageInv'
    BY <2>1, <2>2 DEF ImageInv, ClosedInv, OpenInv, Open, Final, Healthy
  <2>4. RevisionInv'
    BY <2>1 DEF Known, TypeInv, DiskInv, DiskTyped, RevisionInv, RevisedExactlyOnce
  <2> QED BY <2>1, <2>3, <2>4, Calm DEF OutcomeInv
<1>5. CASE ConfirmRefused \/ ConfirmFails
  BY <1>5, FinishCalm, ImagesSame, RevisionSame
     DEF ConfirmRefused, ConfirmFails, Refuse, Known, OutcomeInv, disk, host
<1> QED BY <1>1, <1>2, <1>3, <1>4, <1>5 DEF Confirm

(* A rollback starts on the open transaction; the journal a timer writes      *)
(* first names that transaction too.                                           *)
LEMMA RollbackEnds == Known /\ Rollback => OutcomeInv'
<1> SUFFICES ASSUME Known, Rollback PROVE OutcomeInv'
  OBVIOUS
<1>1. CASE RollbackAgain
  <2>1. /\ pc' = "cleanup" /\ (journal' = journal \/ journal = NoJournal)
        /\ UNCHANGED <<doc, outcome, live, kernel, timer, revision>>
    BY <1>1 DEF RollbackAgain, EnsureCleanupJournal, Goto, host
  <2>2. journal = NoJournal /\ Open => journal.id # doc.id
    BY RecordsNamed DEF Known, Open, NoJournal
  <2>3. ImageInv'
    BY <2>1, <2>2
       DEF Known, OutcomeInv, ImageInv, ClosedInv, OpenInv, Open, Final, Healthy, Untouched,
           WayBack, Watched
  <2> QED BY <2>1, <2>3, Calm, RevisionSame DEF Known, OutcomeInv
<1>2. CASE RollbackStart
  <2>1. /\ outcome.id # tx /\ doc.id = tx /\ pc = "body" /\ cmd \in {"rollback", "timeout"}
        /\ pc' = "restore"
        /\ (journal' = journal \/ (journal = NoJournal /\ journal'.id = tx))
        /\ UNCHANGED <<doc, outcome, live, kernel, timer, revision, tx, stage>>
    BY <1>2 DEF RollbackStart, EnsureCleanupJournal, RollbackCommand, MayRollback, host
  <2>2. tx \in Tx /\ stage = "body"
    BY <2>1 DEF Known, TypeInv, OwnerInv, OutcomeInv, HolderInv, EntryInv
  <2>3. Open
    BY <2>1, <2>2, RecordsNamed, NoneAssumption DEF Known, Open
  <2>4. journal = NoJournal => journal.id # doc.id
    BY <2>3, RecordsNamed DEF Known, Open
  <2>5. ImageInv'
    BY <2>1, <2>3, <2>4
       DEF Known, OutcomeInv, ImageInv, ClosedInv, OpenInv, Open, Untouched, WayBack, Watched
  <2>6. HolderInv'
    BY <2>1, <2>2, <2>3 DEF HolderInv, ActivateInv, ConfirmInv, RestoreInv, EntryInv,
                BeforeJournal, BeforeReload, BeforeActive, AfterActive, ConfirmPcs, TailPcs, Open,
                Target
  <2> QED BY <2>1, <2>5, <2>6, RevisionSame DEF Known, OutcomeInv
<1>3. CASE RollbackRefused
  BY <1>3, FinishCalm, ImagesSame, RevisionSame
     DEF RollbackRefused, Known, OutcomeInv, disk, host
<1>4. CASE RollbackCheckpointFails
  BY <1>4, Calm, ImagesSame, RevisionSame
     DEF RollbackCheckpointFails, Goto, Known, OutcomeInv, disk, host
<1> QED BY <1>1, <1>2, <1>3, <1>4 DEF Rollback

(* Expiry ends only a prepared transaction, whose components are untouched.   *)
LEMMA ExpireEnds == Known /\ Expire => OutcomeInv'
<1> SUFFICES ASSUME Known, Expire PROVE OutcomeInv'
  OBVIOUS
<1>1. CASE ExpirePrepared
  <2>1. /\ pc = "body" /\ cmd = "expire" /\ pc' = "cleanup"
        /\ doc.state # "active" /\ doc # NoDoc /\ (Healthy("classic") \/ Healthy("awg31"))
        /\ outcome' = [id |-> doc.id, reason |-> "expiry", phase |-> "checkpoint",
                       updates |-> NoUpdates]
        /\ UNCHANGED <<doc, journal, live, kernel, revision>>
    BY <1>1 DEF ExpirePrepared, Running, ExpireReady, Goto, host
  <2>2. ~CleanupIsDue /\ journal = NoJournal
    BY <2>1 DEF Known, OutcomeInv, HolderInv, EntryInv
  <2>3. Open /\ doc.state = "prepared" /\ journal.id # doc.id
    BY <2>1, <2>2, RecordsNamed, NoneAssumption DEF Known, Open, CleanupIsDue
  <2>4. Untouched(live) /\ kernel # "awg31"
    BY <2>3 DEF Known, OutcomeInv, ImageInv, OpenInv
  <2>5. Healthy("classic") /\ kernel \in {"down", "classic"}
    BY <2>1, <2>4, ComponentsListed DEF Healthy, Untouched, Known, TypeInv, HostTyped
  <2>6. ImageInv'
    BY <2>1, <2>5 DEF ImageInv, ClosedInv, OpenInv, Open, Final, Healthy
  <2>7. RevisionInv'
    BY <2>1 DEF RevisionInv, RevisedExactlyOnce
  <2> QED BY <2>1, <2>6, <2>7, Calm DEF OutcomeInv
<1>2. CASE ExpireIdle
  BY <1>2, Calm, ImagesSame, RevisionSame DEF ExpireIdle, Goto, Known, OutcomeInv, disk, host
<1>3. CASE ExpireCommit \/ ExpireFails
  BY <1>3, FinishCalm, ImagesSame, RevisionSame
     DEF ExpireCommit, ExpireFails, Known, OutcomeInv, disk, host
<1>4. CASE ExpireRefused \/ ExpireNothing
  BY <1>4, FinishCalm, ImagesSame, RevisionSame
     DEF ExpireRefused, ExpireNothing, Refuse, Known, OutcomeInv, disk, host
<1> QED BY <1>1, <1>2, <1>3, <1>4 DEF Expire

(* The service starts and stops only while no transaction is open. *)
LEMMA ServiceEnds == Known /\ Service => OutcomeInv'
<1> SUFFICES ASSUME Known, Service PROVE OutcomeInv'
  OBVIOUS
<1>1. CASE StartService \/ StopService
  <2>1. /\ doc = NoDoc /\ kernel' \in {"down", live["runtime"]} /\ Finish
        /\ UNCHANGED <<doc, outcome, live, revision>>
    BY <1>1 DEF StartService, StopService, disk
  <2>2. Healthy(Final)
    BY <2>1 DEF Known, OutcomeInv, ImageInv, ClosedInv, Open
  <2>3. ImageInv'
    BY <2>1, <2>2, ComponentsListed DEF ImageInv, ClosedInv, OpenInv, Open, Final, Healthy
  <2> QED BY <2>1, <2>3, FinishCalm, RevisionSame DEF Known, OutcomeInv
<1>2. CASE StartRefused \/ StopRefused
  BY <1>2, FinishCalm, ImagesSame, RevisionSame
     DEF StartRefused, StopRefused, Refuse, Known, OutcomeInv, disk, host
<1> QED BY <1>1, <1>2 DEF Service

-----------------------------------------------------------------------------
(* The environment *)

(* A timer is still watching after it elapsed. *)
LEMMA StillWatched ==
  ASSUME Known, Clock \/ ClientSession \/ UNCHANGED vars
  PROVE  /\ UNCHANGED <<doc, journal, outcome, live, revision, kernel, local, pc>>
         /\ \A t \in Tx, k \in Kinds : Watched(t, k) => Watched(t, k)'
<1>1. ASSUME NEW t \in Tx, NEW k \in Kinds, TimerElapses(t, k)
      PROVE  \A u \in Tx, j \in Kinds : Watched(u, j) => Watched(u, j)'
  BY <1>1 DEF TimerElapses, Watched, Known, TypeInv, HostTyped
<1>2. ASSUME UNCHANGED timer
      PROVE  \A u \in Tx, j \in Kinds : Watched(u, j) => Watched(u, j)'
  BY <1>2 DEF Watched
<1> QED BY <1>1, <1>2
        DEF Clock, DeadlinePasses, TimerElapses, ExpiryPasses, ClientSession, vars, disk, host

LEMMA WatchKeeps ==
  ASSUME Known, UNCHANGED <<doc, journal, outcome, live, revision, kernel, local, pc>>,
         \A t \in Tx, k \in Kinds : Watched(t, k) => Watched(t, k)'
  PROVE  OutcomeInv'
<1>1. doc # NoDoc => doc.id \in Tx
  BY RecordsNamed DEF Known
<1>2. Open => \A k \in Kinds : Watched(doc.id, k) => Watched(doc.id, k)'
  BY <1>1 DEF Open
<1>3. MyDoc => \A k \in Kinds : Watched(tx, k) => Watched(tx, k)'
  BY <1>2 DEF MyDoc, Watched, local
<1>4. ImageInv'
  BY <1>2 DEF Known, OutcomeInv, ImageInv, ClosedInv, OpenInv, Open, Final, Healthy, Untouched,
              WayBack, Watched
<1>5. ActivateInv'
  BY <1>3 DEF Known, OutcomeInv, HolderInv, ActivateInv, MyDoc, Open, Healthy, local, Kinds,
              AfterActive, Watched
<1>6. ConfirmInv'
  BY <1>3 DEF Known, OutcomeInv, HolderInv, ConfirmInv, MyDoc, Open, Healthy, local, Kinds,
              ConfirmPcs, Watched
<1>7. RestoreInv' /\ EntryInv'
  BY DEF Known, OutcomeInv, HolderInv, RestoreInv, EntryInv, Open, Target, Healthy, Untouched,
         local, CleanupIsDue
<1> QED BY <1>4, <1>5, <1>6, <1>7, RevisionSame DEF Known, OutcomeInv, HolderInv

LEMMA EnvironmentEnds ==
  Known /\ (Arrive \/ Clock \/ ClientSession \/ Crash \/ Reboot) => OutcomeInv'
<1> SUFFICES ASSUME Known, Arrive \/ Clock \/ ClientSession \/ Crash \/ Reboot
             PROVE  OutcomeInv'
  OBVIOUS
<1>1. CASE Arrive
  <2>1. /\ UNCHANGED <<disk, host>> /\ pc = "idle"
        /\ \/ pc' = "reconcile" /\ stage' = "entry"
           \/ pc' = "body" /\ stage' = stage /\ cmd' = "timeout"
    BY <1>1 DEF Arrive, Acquire, TimerService
  <2>2. HolderInv'
    BY <2>1 DEF Known, OutcomeInv, HolderInv, ActivateInv, ConfirmInv, RestoreInv, EntryInv,
                BeforeJournal, BeforeReload, BeforeActive, AfterActive, ConfirmPcs, TailPcs
  <2> QED BY <2>1, <2>2, ImagesSame, RevisionSame DEF Known, OutcomeInv, disk, host
<1>2. CASE Clock \/ ClientSession
  BY <1>2, StillWatched, WatchKeeps
<1>3. CASE Crash
  BY <1>3, FinishCalm, ImagesSame, RevisionSame DEF Crash, Known, OutcomeInv, disk, host
<1>4. CASE Reboot
  <2>1. /\ kernel' = "down" /\ Finish
        /\ UNCHANGED <<doc, journal, outcome, live, revision>>
    BY <1>4 DEF Reboot, disk
  <2>2. ImageInv'
    BY <2>1 DEF Known, OutcomeInv, ImageInv, ClosedInv, OpenInv, Open, Final, Healthy, Untouched,
                WayBack
  <2> QED BY <2>1, <2>2, FinishCalm, RevisionSame DEF Known, OutcomeInv
<1> QED BY <1>1, <1>2, <1>3, <1>4

-----------------------------------------------------------------------------
(* The inductive invariant *)

LEMMA OutcomeInit == Init => OutcomeInv
<1> SUFFICES ASSUME Init PROVE OutcomeInv
  OBVIOUS
<1>1. ImageInv
  BY DEF Init, ImageInv, ClosedInv, OpenInv, Open, Final, Healthy, Uniform, NoOutcome, NoDoc
<1>2. HolderInv
  BY DEF Init, HolderInv, ActivateInv, ConfirmInv, RestoreInv, EntryInv, BeforeJournal,
         BeforeReload, BeforeActive, AfterActive, ConfirmPcs, TailPcs
<1>3. RevisionInv
  BY DEF Init, RevisionInv, RevisedExactlyOnce, NoOutcome
<1> QED BY <1>1, <1>2, <1>3 DEF OutcomeInv

LEMMA OutcomeStep == Known /\ [Next]_vars => OutcomeInv'
<1> SUFFICES ASSUME Known, [Next]_vars PROVE OutcomeInv'
  OBVIOUS
<1>1. CASE Holder
  BY <1>1, ReconcileEnds, RestoreEnds, CleanupEnds, PrepareEnds, ActivateEnds, ConfirmEnds,
     RollbackEnds, ExpireEnds, ServiceEnds DEF Holder
<1>2. CASE UNCHANGED vars
  BY <1>2, StillWatched, WatchKeeps
<1> QED BY <1>1, <1>2, EnvironmentEnds DEF Next

(* The inductive invariant holds in every reachable state. *)
THEOREM OutcomeInvariant == Spec => []Known
<1>1. Init => Known
  BY TypeInit, CleanupInit, OutcomeInit DEF Known
<1>2. Known /\ [Next]_vars => Known'
  BY TypeStep, CleanupStep, OutcomeStep DEF Known
<1> QED BY <1>1, <1>2, PTL DEF Spec

(* A confirmed cutover stays on AWG 3.1, whichever timer, retry, late rollback, *)
(* crash or reboot comes after it.                                               *)
THEOREM ConfirmationIsFinal == Spec => []ConfirmedStaysAwg31
<1>1. Known => ConfirmedStaysAwg31
  <2> SUFFICES ASSUME Known, outcome.reason = "confirmed"
               PROVE  Healthy("awg31") /\ kernel # "classic"
    BY DEF ConfirmedStaysAwg31
  <2>1. ~Open
    BY DEF Known, OutcomeInv, ImageInv, OpenInv
  <2> QED BY <2>1 DEF Known, OutcomeInv, ImageInv, ClosedInv, Final
<1> QED BY <1>1, OutcomeInvariant, PTL

(* A recorded rollback left every component classic, and no interface runs     *)
(* AWG 3.1 until another transaction is prepared.                                *)
THEOREM RollbackIsClassic == Spec => []RolledBackIsClassic
<1>1. Known => RolledBackIsClassic
  <2> SUFFICES ASSUME Known, outcome # NoOutcome, outcome.reason # "confirmed",
                      doc.id \in {outcome.id, None}
               PROVE  Healthy("classic") /\ kernel # "awg31"
    BY DEF RolledBackIsClassic
  <2>1. ~Open
    BY RecordsNamed DEF Known, Open
  <2> QED BY <2>1 DEF Known, OutcomeInv, ImageInv, ClosedInv, Final
<1> QED BY <1>1, OutcomeInvariant, PTL

(* Whenever the lock is free, an unconfirmed AWG 3.1 interface has a timer that *)
(* will roll it back or a journal that makes the next command do so.             *)
THEOREM AlwaysAWayBack == Spec => []UnconfirmedIsGuarded
<1>1. Known => UnconfirmedIsGuarded
  <2> SUFFICES ASSUME Known, doc # NoDoc, ~Ended(doc.id), kernel = "awg31"
               PROVE  \/ journal.id = doc.id
                      \/ \E k \in Kinds : timer[<<doc.id, k>>] \in {"armed", "fired"}
    BY DEF UnconfirmedIsGuarded
  <2>1. Open /\ doc.state \in {"prepared", "active"}
    BY RecordsNamed, NoneAssumption DEF Known, Open, Ended
  <2> QED BY <2>1 DEF Known, OutcomeInv, ImageInv, OpenInv, WayBack, Watched
<1> QED BY <1>1, OutcomeInvariant, PTL

(* However often the checkpoint of a confirmation is replayed, every profile's  *)
(* revision is raised exactly once.                                              *)
THEOREM RevisionsRaisedOnce == Spec => []RevisedExactlyOnce
<1>1. Known => RevisedExactlyOnce
  BY DEF Known, OutcomeInv, RevisionInv
<1> QED BY <1>1, OutcomeInvariant, PTL

-----------------------------------------------------------------------------
(* The refinement of TransitionLifecycle *)

Steady == doc' = doc /\ outcome'.id = outcome.id /\ outcome'.reason = outcome.reason

(* What the lifecycle sees of an open and of an ended transaction. *)
LEMMA CurrentIsOpen ==
  ASSUME Known
  PROVE  (IF doc.id = outcome.id THEN NoDoc ELSE doc) = (IF Open THEN doc ELSE NoDoc)
  BY DEF Open

(* A step that neither starts, activates nor ends a transaction: the interface *)
(* may switch while one is open, and only start or stop while none is.            *)
LEMMA SteadyImplements ==
  ASSUME Known, Known', Steady
  PROVE  [Lifecycle!Next]_Lifecycle!vars
<1>1. CASE Open
  <2>1. kernel' \in {"classic", "awg31", "down"}
    BY DEF Known, TypeInv, HostTyped
  <2>2. Lifecycle!Switch
    BY <1>1, <2>1 DEF Lifecycle!Switch, Lifecycle!Nobody, Steady, Open, NoDoc
  <2> QED BY <2>2 DEF Lifecycle!Next
<1>2. CASE ~Open
  <2>1. kernel' \in {"down", IF outcome.reason = "confirmed" THEN "awg31" ELSE "classic"}
    BY <1>2 DEF Known, OutcomeInv, ImageInv, ClosedInv, Steady, Open, Final
  <2>2. Lifecycle!Serve
    BY <1>2, <2>1, CurrentIsOpen DEF Lifecycle!Serve, Lifecycle!Nobody, Steady, NoDoc
  <2> QED BY <2>2 DEF Lifecycle!Next
<1> QED BY <1>1, <1>2

(* The commands that leave the records alone, or only their cleanup phase. *)
LEMMA SteadyCommands ==
  ASSUME Known, Reconcile \/ Rollback \/ Service \/ Arrive \/ Clock \/ ClientSession
                \/ Crash \/ Reboot \/ UNCHANGED vars
  PROVE  Steady
<1>1. CASE Reconcile
  BY <1>1 DEF Reconcile, ReconcileCleanup, ReconcileNothing, ReconcileCompleted, ReconcileRefused,
              ReconcileRestore, disk, Steady
<1>2. CASE Rollback
  BY <1>2 DEF Rollback, RollbackAgain, RollbackStart, RollbackRefused, RollbackCheckpointFails,
              disk, Steady
<1>3. CASE Service
  BY <1>3 DEF Service, StartService, StartRefused, StopService, StopRefused, Refuse, disk, Steady
<1>4. CASE Arrive \/ Clock \/ ClientSession \/ Crash \/ Reboot \/ UNCHANGED vars
  BY <1>4 DEF Arrive, Acquire, TimerService, Clock, DeadlinePasses, TimerElapses, ExpiryPasses,
              ClientSession, Crash, Reboot, vars, disk, Steady
<1> QED BY <1>1, <1>2, <1>3, <1>4

LEMMA RestoreImplements ==
  ASSUME Known, Known', Restore
  PROVE  [Lifecycle!Next]_Lifecycle!vars
<1>1. CASE RestoreRejected \/ RestoreStaged \/ RestoreDisplace \/ RestorePlace
           \/ RestoreReload \/ RestoreUndo \/ FailSafeStop
  <2>1. Steady
    BY <1>1 DEF RestoreRejected, RestoreStaged, RestoreDisplace, RestorePlace, RestoreReload,
                RestoreUndo, FailSafeStop, disk, Steady
  <2> QED BY <2>1, SteadyImplements
<1>2. CASE BeginRolledBack
  <2>1. pc = "outcome" /\ UNCHANGED kernel
    BY <1>2 DEF BeginRolledBack, host
  <2>2. Open /\ doc.id = Target /\ kernel = "classic"
    BY <2>1 DEF Known, OutcomeInv, HolderInv, RestoreInv
  <2>3. CASE UNCHANGED disk
    BY <2>3, SteadyImplements DEF disk, Steady
  <2>4. CASE RecordOutcome(RollbackReason, NoUpdates)
    <3>1. /\ outcome'.id = doc.id /\ outcome'.reason = RollbackReason /\ UNCHANGED doc
      BY <2>2, <2>4 DEF RecordOutcome
    <3>2. RollbackReason \in Lifecycle!RolledBack /\ RollbackReason # "expiry"
      BY DEF RollbackReason, Lifecycle!RolledBack
    <3>3. Lifecycle!RollBack(RollbackReason)
      BY <2>1, <2>2, <3>1, <3>2 DEF Lifecycle!RollBack, Lifecycle!Nobody, Open, NoDoc
    <3> QED BY <3>2, <3>3 DEF Lifecycle!Next
  <2> QED BY <1>2, <2>3, <2>4 DEF BeginRolledBack
<1> QED BY <1>1, <1>2 DEF Restore

(* The cleanup is invisible: the transaction ended when its outcome was recorded. *)
LEMMA CleanupImplements ==
  ASSUME Known, Known', Cleanup
  PROVE  [Lifecycle!Next]_Lifecycle!vars
<1>1. CASE RemoveDocument
  <2>1. ~Open /\ doc' = NoDoc /\ UNCHANGED <<outcome, kernel>>
    BY <1>1, CleaningIsClosed DEF RemoveDocument, host
  <2> QED BY <2>1, CurrentIsOpen DEF Lifecycle!vars
<1>2. CASE ProfilesUpdated \/ PendingRemoved \/ DocumentRemoved \/ CleanupComplete
  <2>1. PICK phase \in {"checkpoint", "metadata", "pending", "current"} :
          CleaningUp(phase) /\ Advance
    BY <1>2 DEF ProfilesUpdated, PendingRemoved, DocumentRemoved, CleanupComplete
  <2>2. Steady
    BY <2>1, AdvanceKeepsOutcome DEF Known, CleanupPhases, Steady
  <2> QED BY <2>2, SteadyImplements
<1>3. CASE ~RemoveDocument /\ ~ProfilesUpdated /\ ~PendingRemoved /\ ~DocumentRemoved
           /\ ~CleanupComplete
  <2>1. Steady
    BY <1>3 DEF Cleanup, ApplyProfileUpdate, RemovePending, CancelOwnRecovery, CleanupFails,
                CleanupRefused, CleanupReturns, RemoveFirstUnit, RemoveSecondUnit, UnitsRemoved,
                DeleteJournal, disk, Steady
  <2> QED BY <2>1, SteadyImplements
<1> QED BY <1>1, <1>2, <1>3

LEMMA PrepareImplements ==
  ASSUME Known, Known', Prepare
  PROVE  [Lifecycle!Next]_Lifecycle!vars
<1>1. CASE PrepareDocument
  <2>1. /\ doc = NoDoc /\ pc = "prepare" /\ doc' = [id |-> tx, state |-> "prepared"]
        /\ UNCHANGED <<outcome, kernel>>
    BY <1>1 DEF PrepareDocument, host
  <2>2. tx \in Tx /\ tx # outcome.id /\ outcome.reason # "confirmed"
    BY <2>1 DEF Known, TypeInv, OwnerInv, CleanupInv, IdentifiersDrawn, OutcomeInv, HolderInv,
                EntryInv
  <2>3. Lifecycle!Prepare(tx)
    BY <2>1, <2>2 DEF Lifecycle!Prepare, Lifecycle!Nobody, NoDoc
  <2> QED BY <2>2, <2>3 DEF Lifecycle!Next
<1>2. CASE ~PrepareDocument
  <2>1. Steady
    BY <1>2 DEF Prepare, PreparePending, PrepareFails, PrepareRefused, Refuse, disk, Steady
  <2> QED BY <2>1, SteadyImplements
<1> QED BY <1>1, <1>2

LEMMA ActivateImplements ==
  ASSUME Known, Known', Activate
  PROVE  [Lifecycle!Next]_Lifecycle!vars
<1>1. CASE ActivateDocument
  <2>1. /\ pc = "activate" /\ doc = [id |-> tx, state |-> "prepared"]
        /\ doc' = [doc EXCEPT !.state = "active"] /\ UNCHANGED <<outcome, kernel>>
    BY <1>1 DEF ActivateDocument
  <2>2. Open /\ doc.id = tx /\ kernel = "awg31"
    BY <2>1 DEF Known, OutcomeInv, HolderInv, ActivateInv, BeforeActive, MyDoc
  <2>3. Lifecycle!Activate
    BY <2>1, <2>2 DEF Lifecycle!Activate, Open
  <2> QED BY <2>3 DEF Lifecycle!Next
<1>2. CASE ~ActivateDocument
  <2>1. Steady
    BY <1>2 DEF Activate, ActivateChecked, ActivateRefused, Refuse, ArmRecovery, JournalIntent,
         JournalArmed, JournalInstalled, JournalReloaded, JournalActive, JournalFinalArmed,
         WriteJournal, InstallArtifact, CommitGenerated, CommitRuntime, CommitFile, CommitReload,
         CommitReloadFails, ArmFinal, CancelRecovery, ActivationCommitted, ActivationOverdue,
         ActivationFails, ActivationAbandoned, disk, Steady
  <2> QED BY <2>1, SteadyImplements
<1> QED BY <1>1, <1>2

LEMMA ConfirmImplements ==
  ASSUME Known, Known', Confirm
  PROVE  [Lifecycle!Next]_Lifecycle!vars
<1>1. CASE ConfirmOutcome
  <2>1. /\ pc = "confirmed" /\ doc.id = Target /\ outcome'.id = doc.id
        /\ outcome'.reason = "confirmed" /\ UNCHANGED <<doc, kernel>>
    BY <1>1 DEF ConfirmOutcome, RecordOutcome, host
  <2>2. Open /\ doc.state = "active" /\ kernel = "awg31"
    BY <2>1 DEF Known, OutcomeInv, HolderInv, ConfirmInv, ConfirmPcs, MyDoc
  <2>3. Lifecycle!Confirm
    BY <2>1, <2>2 DEF Lifecycle!Confirm, Lifecycle!Nobody, Open, NoDoc
  <2> QED BY <2>3 DEF Lifecycle!Next
<1>2. CASE ~ConfirmOutcome
  <2>1. Steady
    BY <1>2 DEF Confirm, ConfirmAgain, ConfirmChecked, ConfirmRefused, Refuse, ConfirmArmRecovery,
                ConfirmCancelFinal, ConfirmFails, disk, Steady
  <2> QED BY <2>1, SteadyImplements
<1> QED BY <1>1, <1>2

LEMMA ExpireImplements ==
  ASSUME Known, Known', Expire
  PROVE  [Lifecycle!Next]_Lifecycle!vars
<1>1. CASE ExpirePrepared
  <2>1. /\ pc = "body" /\ cmd = "expire" /\ doc.state # "active" /\ doc # NoDoc
        /\ outcome'.id = doc.id /\ outcome'.reason = "expiry" /\ UNCHANGED <<doc, kernel>>
    BY <1>1 DEF ExpirePrepared, Running, ExpireReady, host
  <2>2. ~CleanupIsDue /\ journal = NoJournal
    BY <2>1 DEF Known, OutcomeInv, HolderInv, EntryInv
  <2>3. Open /\ doc.state = "prepared" /\ journal.id # doc.id
    BY <2>1, <2>2, RecordsNamed, NoneAssumption DEF Known, Open, CleanupIsDue
  <2>4. kernel # "awg31"
    BY <2>3 DEF Known, OutcomeInv, ImageInv, OpenInv
  <2>5. Lifecycle!RollBack("expiry") /\ "expiry" \in Lifecycle!RolledBack
    BY <2>1, <2>3, <2>4
       DEF Lifecycle!RollBack, Lifecycle!RolledBack, Lifecycle!Nobody, Open, NoDoc
  <2> QED BY <2>5 DEF Lifecycle!Next
<1>2. CASE ~ExpirePrepared
  <2>1. Steady
    BY <1>2 DEF Expire, ExpireRefused, ExpireNothing, ExpireIdle, ExpireCommit, ExpireFails,
                Refuse, disk, Steady
  <2> QED BY <2>1, SteadyImplements
<1> QED BY <1>1, <1>2

(* Every behaviour of the cutover, with its crashes, retries and late timers, is *)
(* one of the lifecycle: a transaction ends once, and only as it may.             *)
THEOREM ImplementsLifecycle == Spec => Implements
<1>1. Init => Lifecycle!Init
  BY DEF Init, Lifecycle!Init, Lifecycle!Nobody, Lifecycle!Nothing, NoDoc, NoOutcome
<1>2. Known /\ Known' /\ [Next]_vars => [Lifecycle!Next]_Lifecycle!vars
  <2> SUFFICES ASSUME Known, Known', [Next]_vars PROVE [Lifecycle!Next]_Lifecycle!vars
    OBVIOUS
  <2>1. CASE Holder
    BY <2>1, SteadyCommands, SteadyImplements, RestoreImplements, CleanupImplements,
       PrepareImplements, ActivateImplements, ConfirmImplements, ExpireImplements DEF Holder
  <2> QED BY <2>1, SteadyCommands, SteadyImplements DEF Next
<1> QED BY <1>1, <1>2, OutcomeInvariant, PTL DEF Spec, Implements, Lifecycle!Spec

=============================================================================
