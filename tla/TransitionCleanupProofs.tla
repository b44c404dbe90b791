---------------------- MODULE TransitionCleanupProofs ----------------------
(***************************************************************************)
(* The cleanup checkpoint of the cutover never lies about the artifacts,   *)
(* and a timer of one transaction never touches another transaction.       *)
(*                                                                         *)
(* CheckpointMatchesArtifacts is not inductive: a preparation could draw an *)
(* identifier whose outcome is still being cleaned up.  CleanupInv adds    *)
(* that the outcome is complete wherever a preparation may follow, and     *)
(* that an identifier once drawn is never drawn again.                     *)
(***************************************************************************)
EXTENDS TransitionProofs

TailPcs == {"units", "units2", "units3", "journal"}

(* The lock holder is past the cleanup, or about to prepare a transaction. *)
Settled == pc \in TailPcs \cup {"prepare"} \/ (pc = "body" /\ cmd = "prepare")

IdentifiersDrawn ==
  /\ outcome # NoOutcome => outcome.id \in used
  /\ doc # NoDoc => doc.id \in used
  /\ pc = "prepare" => tx \in used /\ tx # outcome.id

SettledIsComplete == Settled => outcome.phase = "complete"

CleanupInv == CheckpointMatchesArtifacts /\ IdentifiersDrawn /\ SettledIsComplete

Records == <<doc, outcome, pending, used>>

-----------------------------------------------------------------------------
(* Frames *)

LEMMA KeptElsewhere ==
  CleanupInv /\ UNCHANGED Records /\ ~Settled' => CleanupInv'
  BY DEF CleanupInv, CheckpointMatchesArtifacts, IdentifiersDrawn, SettledIsComplete, Settled,
         Records

LEMMA KeptSettled ==
  CleanupInv /\ UNCHANGED Records /\ outcome.phase = "complete" /\ pc' # "prepare"
    => CleanupInv'
  BY DEF CleanupInv, CheckpointMatchesArtifacts, IdentifiersDrawn, SettledIsComplete, Records

LEMMA FinishUnsettles == Finish => ~Settled'
  BY DEF Finish, Settled, TailPcs

LEMMA RaiseUnsettles == Raise => ~Settled'
  BY FinishUnsettles DEF Raise, Goto, Settled, TailPcs

(* A transaction's outcome is recorded while its document is the current one. *)
LEMMA OutcomeRecorded ==
  ASSUME TypeInv, CleanupInv, doc.id \in Tx, outcome'.id = doc.id,
         outcome'.phase = "checkpoint", UNCHANGED <<doc, pending, used>>, pc' = "cleanup"
  PROVE  CleanupInv'
<1>1. doc # NoDoc
  BY NoneAssumption DEF NoDoc
<1> QED BY <1>1 DEF CleanupInv, CheckpointMatchesArtifacts, IdentifiersDrawn,
                    SettledIsComplete, Settled, TailPcs

-----------------------------------------------------------------------------
LEMMA ReconcileKeeps == TypeInv /\ CleanupInv /\ Reconcile => CleanupInv'
<1> SUFFICES ASSUME TypeInv, CleanupInv, Reconcile PROVE CleanupInv'
  OBVIOUS
<1>1. CASE ReconcileCleanup \/ ReconcileRestore
  BY <1>1, KeptElsewhere
     DEF ReconcileCleanup, ReconcileRestore, Goto, disk, Records, Settled, TailPcs
<1>2. CASE ReconcileNothing \/ ReconcileCompleted
  <2>1. outcome.phase = "complete"
    BY <1>2 DEF ReconcileNothing, ReconcileCompleted, CleanupIsDue, NoOutcome
  <2> QED BY <1>2, <2>1, KeptSettled
          DEF ReconcileNothing, ReconcileCompleted, Goto, disk, Records
<1>3. CASE ReconcileRefused
  BY <1>3, KeptElsewhere, FinishUnsettles DEF ReconcileRefused, disk, Records
<1> QED BY <1>1, <1>2, <1>3 DEF Reconcile

LEMMA RestoreKeeps == TypeInv /\ CleanupInv /\ Restore => CleanupInv'
<1> SUFFICES ASSUME TypeInv, CleanupInv, Restore PROVE CleanupInv'
  OBVIOUS
<1>1. CASE RestoreRejected \/ RestoreStaged \/ RestoreDisplace \/ RestorePlace \/ RestoreReload
           \/ RestoreUndo
  BY <1>1, KeptElsewhere
     DEF RestoreRejected, RestoreStaged, RestoreDisplace, RestorePlace, RestoreReload, RestoreUndo,
         Goto, disk, Records, Settled, TailPcs
<1>2. CASE FailSafeStop
  BY <1>2, KeptElsewhere, FinishUnsettles DEF FailSafeStop, disk, Records
<1>3. CASE BeginRolledBack
  <2>1. CASE RecordOutcome(RollbackReason, NoUpdates) /\ Goto("cleanup")
    <3>1. doc.id \in Tx
      BY <2>1 DEF RecordOutcome, TypeInv, DiskInv, DiskTyped, DocType, NoDoc
    <3> QED BY <2>1, <3>1, OutcomeRecorded DEF RecordOutcome, Goto
  <2>2. CASE Raise /\ UNCHANGED disk
    BY <2>2, KeptElsewhere, RaiseUnsettles DEF disk, Records
  <2> QED BY <1>3, <2>1, <2>2 DEF BeginRolledBack
<1> QED BY <1>1, <1>2, <1>3 DEF Restore

LEMMA CleanupKeeps == TypeInv /\ CleanupInv /\ Cleanup => CleanupInv'
<1> SUFFICES ASSUME TypeInv, CleanupInv, Cleanup PROVE CleanupInv'
  OBVIOUS
<1>1. ASSUME NEW p \in Profiles, ApplyProfileUpdate(p) PROVE CleanupInv'
  BY <1>1, KeptElsewhere DEF ApplyProfileUpdate, Goto, Records, Settled, TailPcs
<1>2. ASSUME NEW phase \in CleanupPhases \ {"complete"}, CleaningUp(phase), Advance
      PROVE  /\ outcome.id \in Tx /\ outcome # NoOutcome /\ outcome' # NoOutcome
             /\ outcome'.id = outcome.id /\ outcome.phase = phase
             /\ outcome'.phase = NextPhase[phase] /\ UNCHANGED <<doc, pending, used>>
  <2>1. outcome \in [id : Tx, reason : Reasons, phase : CleanupPhases, updates : UpdateType]
    BY <1>2 DEF CleaningUp, TypeInv, DiskInv, DiskTyped, OutcomeType, NoOutcome
  <2>2. outcome' = [outcome EXCEPT !.phase = NextPhase[phase]]
    BY <1>2 DEF CleaningUp, Advance
  <2> QED BY <1>2, <2>1, <2>2, NoneAssumption DEF CleaningUp, Advance, NoOutcome
<1>3. /\ NextPhase["checkpoint"] = "metadata" /\ NextPhase["metadata"] = "pending"
      /\ NextPhase["pending"] = "current" /\ NextPhase["current"] = "complete"
  BY DEF NextPhase
<1>4. {"checkpoint", "metadata", "pending", "current"} \subseteq CleanupPhases \ {"complete"}
  BY DEF CleanupPhases
<1>5. CASE ProfilesUpdated
  BY <1>2, <1>3, <1>4, <1>5
     DEF ProfilesUpdated, CleaningUp, Goto, CleanupInv, CheckpointMatchesArtifacts,
         IdentifiersDrawn, SettledIsComplete, Settled, TailPcs
<1>6. CASE PendingRemoved
  BY <1>2, <1>3, <1>4, <1>6
     DEF PendingRemoved, CleaningUp, Goto, CleanupInv, CheckpointMatchesArtifacts,
         IdentifiersDrawn, SettledIsComplete, Settled, TailPcs
<1>7. CASE DocumentRemoved
  BY <1>2, <1>3, <1>4, <1>7, NoneAssumption
     DEF DocumentRemoved, CleaningUp, Goto, CleanupInv, CheckpointMatchesArtifacts, NoDoc,
         IdentifiersDrawn, SettledIsComplete, Settled, TailPcs
<1>8. CASE CleanupComplete
  BY <1>2, <1>3, <1>4, <1>8
     DEF CleanupComplete, CleaningUp, Goto, CleanupInv, CheckpointMatchesArtifacts,
         IdentifiersDrawn, SettledIsComplete, Settled, TailPcs
<1>9. CASE RemovePending
  BY <1>9 DEF RemovePending, CleaningUp, Goto, CleanupInv, CheckpointMatchesArtifacts,
              IdentifiersDrawn, SettledIsComplete, Settled, TailPcs
<1>10. CASE RemoveDocument
  BY <1>10 DEF RemoveDocument, CleaningUp, Goto, CleanupInv, CheckpointMatchesArtifacts, NoDoc,
               IdentifiersDrawn, SettledIsComplete, Settled, TailPcs
<1>11. CASE CancelOwnRecovery
  BY <1>11, KeptElsewhere DEF CancelOwnRecovery, Goto, disk, Records, Settled, TailPcs
<1>12. CASE CleanupFails \/ CleanupRefused
  BY <1>12, KeptElsewhere, RaiseUnsettles DEF CleanupFails, CleanupRefused, disk, Records
<1>13. CASE CleanupReturns
  <2>1. outcome.phase = "complete" /\ UNCHANGED Records
    BY <1>13 DEF CleanupReturns, CleaningUp, disk, Records
  <2>2. pc' # "prepare"
    BY <1>13 DEF CleanupReturns, Goto, Finish
  <2> QED BY <2>1, <2>2, KeptSettled
<1>14. CASE RemoveFirstUnit \/ RemoveSecondUnit \/ DeleteJournal
  <2>1. outcome.phase = "complete"
    BY <1>14 DEF RemoveFirstUnit, RemoveSecondUnit, DeleteJournal, CleanupInv,
                 SettledIsComplete, Settled, TailPcs
  <2>2. pc' # "prepare" /\ UNCHANGED Records
    BY <1>14 DEF RemoveFirstUnit, RemoveSecondUnit, DeleteJournal, Finish, disk, Records
  <2> QED BY <2>1, <2>2, KeptSettled
<1>15. CASE UnitsRemoved
  <2>1. outcome.phase = "complete" /\ UNCHANGED Records
    BY <1>15 DEF UnitsRemoved, CleanupInv, SettledIsComplete, Settled, TailPcs, disk, Records
  <2>2. pc' # "prepare"
    BY <1>15 DEF UnitsRemoved, Raise, Goto, Finish
  <2> QED BY <2>1, <2>2, KeptSettled
<1> QED BY <1>1, <1>5, <1>6, <1>7, <1>8, <1>9, <1>10, <1>11, <1>12, <1>13, <1>14, <1>15
        DEF Cleanup

LEMMA PrepareKeeps == TypeInv /\ CleanupInv /\ Prepare => CleanupInv'
<1> SUFFICES ASSUME TypeInv, CleanupInv, Prepare PROVE CleanupInv'
  OBVIOUS
<1>1. ASSUME NEW t \in Tx, PreparePending(t) PROVE CleanupInv'
  <2>1. outcome.phase = "complete"
    BY <1>1 DEF PreparePending, Running, CleanupInv, SettledIsComplete, Settled
  <2>2. t # outcome.id
    BY <1>1, NoneAssumption
       DEF PreparePending, CleanupInv, IdentifiersDrawn, NoOutcome
  <2> QED BY <1>1, <2>1, <2>2
          DEF PreparePending, CleanupInv, CheckpointMatchesArtifacts, IdentifiersDrawn,
              SettledIsComplete
<1>2. CASE PrepareDocument
  <2>1. outcome.phase = "complete" /\ tx \in used /\ tx # outcome.id
    BY <1>2 DEF PrepareDocument, CleanupInv, IdentifiersDrawn, SettledIsComplete, Settled
  <2>2. doc'.id = tx
    BY <1>2 DEF PrepareDocument
  <2> QED BY <1>2, <2>1, <2>2, FinishUnsettles
          DEF PrepareDocument, Finish, CleanupInv, CheckpointMatchesArtifacts, IdentifiersDrawn,
              SettledIsComplete
<1>3. CASE PrepareFails
  BY <1>3, FinishUnsettles
     DEF PrepareFails, Finish, CleanupInv, CheckpointMatchesArtifacts, IdentifiersDrawn,
         SettledIsComplete
<1>4. CASE PrepareRefused
  BY <1>4, KeptElsewhere, FinishUnsettles DEF PrepareRefused, Refuse, disk, Records
<1> QED BY <1>1, <1>2, <1>3, <1>4 DEF Prepare

LEMMA ActivateKeeps == TypeInv /\ CleanupInv /\ Activate => CleanupInv'
<1> SUFFICES ASSUME TypeInv, CleanupInv, Activate PROVE CleanupInv'
  OBVIOUS
<1>1. CASE ActivateChecked \/ ArmRecovery \/ InstallArtifact \/ CommitGenerated \/ CommitRuntime
           \/ CommitReload \/ CommitReloadFails
  BY <1>1, KeptElsewhere
     DEF ActivateChecked, ArmRecovery, InstallArtifact, CommitGenerated, CommitRuntime, CommitFile,
         CommitReload, CommitReloadFails, Goto, disk, Records, Settled, TailPcs
<1>2. CASE JournalIntent \/ JournalArmed \/ JournalInstalled \/ JournalReloaded
           \/ JournalActive \/ JournalFinalArmed
  BY <1>2, KeptElsewhere
     DEF JournalIntent, JournalArmed, JournalInstalled, JournalReloaded, JournalActive,
         JournalFinalArmed, WriteJournal, Records, Settled, TailPcs
<1>3. CASE ActivateDocument
  <2>1. doc.id \in Tx
    BY <1>3 DEF ActivateDocument, TypeInv, OwnerInv, ActivationPcs
  <2>2. doc'.id = doc.id /\ doc # NoDoc
    BY <1>3, <2>1, NoneAssumption DEF ActivateDocument, NoDoc
  <2>3. UNCHANGED <<outcome, pending, used>> /\ ~Settled'
    BY <1>3 DEF ActivateDocument, Goto, Settled, TailPcs
  <2> QED BY <2>2, <2>3 DEF CleanupInv, CheckpointMatchesArtifacts, IdentifiersDrawn,
                            SettledIsComplete, Settled
<1>4. CASE ArmFinal \/ CancelRecovery \/ ActivationOverdue \/ ActivationFails
           \/ ActivationAbandoned
  BY <1>4, KeptElsewhere
     DEF ArmFinal, CancelRecovery, ActivationOverdue, ActivationFails, ActivationAbandoned,
         Goto, disk, Records, Settled, TailPcs
<1>5. CASE ActivationCommitted \/ ActivateRefused
  BY <1>5, KeptElsewhere, FinishUnsettles
     DEF ActivationCommitted, ActivateRefused, Refuse, disk, Records
<1> QED BY <1>1, <1>2, <1>3, <1>4, <1>5 DEF Activate

LEMMA ConfirmKeeps == TypeInv /\ CleanupInv /\ Confirm => CleanupInv'
<1> SUFFICES ASSUME TypeInv, CleanupInv, Confirm PROVE CleanupInv'
  OBVIOUS
<1>1. CASE ConfirmAgain \/ ConfirmChecked \/ ConfirmArmRecovery \/ ConfirmCancelFinal
  BY <1>1, KeptElsewhere
     DEF ConfirmAgain, ConfirmChecked, ConfirmArmRecovery, ConfirmCancelFinal, Goto, disk,
         Records, Settled, TailPcs
<1>2. CASE ConfirmRefused \/ ConfirmFails
  BY <1>2, KeptElsewhere, FinishUnsettles DEF ConfirmRefused, ConfirmFails, Refuse, disk, Records
<1>3. CASE ConfirmOutcome
  <2>1. doc.id \in Tx
    BY <1>3 DEF ConfirmOutcome, RecordOutcome, TypeInv, DiskInv, DiskTyped, DocType, NoDoc
  <2> QED BY <1>3, <2>1, OutcomeRecorded DEF ConfirmOutcome, RecordOutcome, Goto
<1> QED BY <1>1, <1>2, <1>3 DEF Confirm

LEMMA RollbackKeeps == TypeInv /\ CleanupInv /\ Rollback => CleanupInv'
<1> SUFFICES ASSUME TypeInv, CleanupInv, Rollback PROVE CleanupInv'
  OBVIOUS
<1>1. CASE RollbackAgain \/ RollbackStart \/ RollbackCheckpointFails
  BY <1>1, KeptElsewhere
     DEF RollbackAgain, RollbackStart, RollbackCheckpointFails, Goto, disk, Records, Settled,
         TailPcs
<1>2. CASE RollbackRefused
  BY <1>2, KeptElsewhere, FinishUnsettles DEF RollbackRefused, disk, Records
<1> QED BY <1>1, <1>2 DEF Rollback

LEMMA ExpireKeeps == TypeInv /\ CleanupInv /\ Expire => CleanupInv'
<1> SUFFICES ASSUME TypeInv, CleanupInv, Expire PROVE CleanupInv'
  OBVIOUS
<1>1. CASE ExpireRefused \/ ExpireNothing \/ ExpireCommit \/ ExpireFails
  BY <1>1, KeptElsewhere, FinishUnsettles
     DEF ExpireRefused, ExpireNothing, ExpireCommit, ExpireFails, Refuse, disk, Records
<1>2. CASE ExpirePrepared
  <2>1. doc.id \in Tx
    BY <1>2 DEF ExpirePrepared, TypeInv, DiskInv, DiskTyped, DocType
  <2> QED BY <1>2, <2>1, OutcomeRecorded DEF ExpirePrepared, Goto
<1>3. CASE ExpireIdle
  BY <1>3, KeptElsewhere DEF ExpireIdle, Goto, disk, Records, Settled, TailPcs
<1> QED BY <1>1, <1>2, <1>3 DEF Expire

LEMMA ServiceKeeps == TypeInv /\ CleanupInv /\ Service => CleanupInv'
  BY KeptElsewhere, FinishUnsettles
     DEF Service, StartService, StartRefused, StopService, StopRefused, Refuse, disk, Records

LEMMA EnvironmentKeeps ==
  TypeInv /\ CleanupInv /\ (Arrive \/ Clock \/ ClientSession \/ Crash \/ Reboot) => CleanupInv'
<1> SUFFICES ASSUME TypeInv, CleanupInv, Arrive \/ Clock \/ ClientSession \/ Crash \/ Reboot
             PROVE  CleanupInv'
  OBVIOUS
<1>1. CASE Arrive
  BY <1>1, KeptElsewhere DEF Arrive, Acquire, TimerService, disk, Records, Settled, TailPcs
<1>2. CASE Clock \/ ClientSession
  <2>1. UNCHANGED <<disk, local, pc>>
    BY <1>2 DEF Clock, DeadlinePasses, TimerElapses, ExpiryPasses, ClientSession
  <2> QED BY <2>1 DEF disk, local, CleanupInv, CheckpointMatchesArtifacts, IdentifiersDrawn,
                      SettledIsComplete, Settled
<1>3. CASE Crash \/ Reboot
  BY <1>3, KeptElsewhere, FinishUnsettles DEF Crash, Reboot, disk, Records
<1> QED BY <1>1, <1>2, <1>3

-----------------------------------------------------------------------------
LEMMA CleanupInit == Init => CleanupInv
  BY DEF Init, CleanupInv, CheckpointMatchesArtifacts, IdentifiersDrawn, SettledIsComplete,
         Settled, TailPcs

LEMMA CleanupStep == TypeInv /\ CleanupInv /\ [Next]_vars => CleanupInv'
<1> SUFFICES ASSUME TypeInv, CleanupInv, [Next]_vars PROVE CleanupInv'
  OBVIOUS
<1>1. CASE Holder
  BY <1>1, ReconcileKeeps, RestoreKeeps, CleanupKeeps, PrepareKeeps, ActivateKeeps,
     ConfirmKeeps, RollbackKeeps, ExpireKeeps, ServiceKeeps DEF Holder
<1>2. CASE UNCHANGED vars
  BY <1>2 DEF vars, disk, local, CleanupInv, CheckpointMatchesArtifacts, IdentifiersDrawn,
              SettledIsComplete, Settled
<1> QED BY <1>1, <1>2, EnvironmentKeeps DEF Next

(* A crash at any step of any command leaves a checkpoint whose phase says      *)
(* exactly which artifacts of the transaction remain.                            *)
THEOREM CleanupIsResumable == Spec => []CheckpointMatchesArtifacts
<1>1. CleanupInv => CheckpointMatchesArtifacts
  BY DEF CleanupInv
<1> QED BY <1>1, TypeInvariant, CleanupInit, CleanupStep, PTL DEF Spec

-----------------------------------------------------------------------------
(* A timer of one transaction never rolls back another one: whatever a timer's  *)
(* service does, it changes the document, the outcome, the managed components,  *)
(* the profiles or the interface only while its own transaction is the current  *)
(* one, or none is.                                                             *)

RestorePcs == {"restore", "replace", "outcome", "stop"}
TimerPcs   == {"body", "cleanup", "units", "units2", "units3", "journal"} \cup RestorePcs

(* What a timer's service relies on at each of its steps: a restore has checked *)
(* the current document, a cleanup the recorded outcome.                         *)
TimerInv ==
  /\ pc = "idle" => stage = "body" /\ ~restored
  /\ cmd = "timeout" =>
       /\ stage = "body" /\ pc \in TimerPcs
       /\ pc = "cleanup" => outcome.id = tx
       /\ (restored \/ pc \in RestorePcs) => doc.id \in {tx, None}

Held == <<cmd, tx, stage, restored>>

-----------------------------------------------------------------------------
(* Frames *)

LEMMA TimerFinished == Finish => TimerInv'
<1> SUFFICES ASSUME Finish PROVE TimerInv'
  OBVIOUS
<1>1. ~restored'
  BY Zenon DEF Finish
<1> QED BY <1>1 DEF Finish, TimerInv

LEMMA OthersElsewhere ==
  ASSUME TimerInv, pc' # "idle", cmd' # "timeout" PROVE TimerInv'
  BY DEF TimerInv

(* The timer's service moves on: the document is kept or removed. *)
LEMMA TimerMoved ==
  ASSUME TimerInv, UNCHANGED Held, pc' # "idle", pc' \in TimerPcs,
         doc' = doc \/ doc' = NoDoc,
         cmd = "timeout" /\ pc' = "cleanup" => outcome'.id = tx,
         cmd = "timeout" /\ pc' \in RestorePcs => doc'.id \in {tx, None}
  PROVE  TimerInv'
  BY DEF TimerInv, Held, NoDoc

LEMMA TimerRaised ==
  ASSUME TimerInv, Raise, UNCHANGED doc, pc # "idle", pc \in TimerPcs \/ cmd # "timeout"
  PROVE  TimerInv'
<1>1. CASE ~restored
  BY <1>1, TimerFinished DEF Raise
<1>2. CASE restored
  BY <1>2 DEF Raise, Goto, local, TimerInv, TimerPcs, RestorePcs
<1> QED BY <1>1, <1>2

-----------------------------------------------------------------------------
LEMMA ReconcileGuards == TypeInv /\ TimerInv /\ Reconcile => TimerInv'
<1> SUFFICES ASSUME TypeInv, TimerInv, Reconcile PROVE TimerInv'
  OBVIOUS
<1>1. cmd # "timeout"
  BY DEF TimerInv, TimerPcs, RestorePcs, Reconcile, ReconcileCleanup, ReconcileNothing,
         ReconcileCompleted, ReconcileRefused, ReconcileRestore
<1>2. CASE ReconcileRefused
  BY <1>2, TimerFinished DEF ReconcileRefused
<1>3. CASE ReconcileCleanup \/ ReconcileNothing \/ ReconcileCompleted \/ ReconcileRestore
  <2>1. pc' # "idle" /\ cmd' # "timeout"
    BY <1>1, <1>3 DEF ReconcileCleanup, ReconcileNothing, ReconcileCompleted, ReconcileRestore,
                      Goto, local
  <2> QED BY <2>1, OthersElsewhere
<1> QED BY <1>2, <1>3 DEF Reconcile

LEMMA RestoreGuards == TypeInv /\ TimerInv /\ Restore => TimerInv'
<1> SUFFICES ASSUME TypeInv, TimerInv, Restore PROVE TimerInv'
  OBVIOUS
<1>1. CASE FailSafeStop
  BY <1>1, TimerFinished DEF FailSafeStop
<1>2. CASE RestoreRejected \/ RestoreStaged \/ RestoreDisplace \/ RestorePlace \/ RestoreReload
           \/ RestoreUndo
  <2>1. pc \in RestorePcs /\ pc' \in {"stop", "replace", "outcome"}
        /\ UNCHANGED <<doc, cmd, tx, stage, restored>>
    BY <1>2 DEF RestoreRejected, RestoreStaged, RestoreDisplace, RestorePlace, RestoreReload,
                RestoreUndo, RestorePcs, Goto, local, disk
  <2> QED BY <2>1 DEF TimerInv, TimerPcs, RestorePcs
<1>3. CASE BeginRolledBack
  <2>1. CASE RecordOutcome(RollbackReason, NoUpdates) /\ Goto("cleanup")
    BY <1>3, <2>1 DEF BeginRolledBack, RecordOutcome, Target, Goto, local, TimerInv, TimerPcs,
                      RestorePcs
  <2>2. CASE Raise /\ UNCHANGED disk
    BY <1>3, <2>2, TimerRaised DEF BeginRolledBack, disk, TimerPcs, RestorePcs
  <2> QED BY <1>3, <2>1, <2>2 DEF BeginRolledBack
<1> QED BY <1>1, <1>2, <1>3 DEF Restore

LEMMA CleanupGuards == TypeInv /\ TimerInv /\ Cleanup => TimerInv'
<1> SUFFICES ASSUME TypeInv, TimerInv, Cleanup PROVE TimerInv'
  OBVIOUS
<1>1. ASSUME pc = "cleanup", Goto("cleanup"), outcome'.id = outcome.id,
             doc' = doc \/ doc' = NoDoc
      PROVE  TimerInv'
  BY <1>1 DEF Goto, local, TimerInv, TimerPcs, RestorePcs, NoDoc
<1>2. ASSUME NEW p \in Profiles, ApplyProfileUpdate(p) PROVE TimerInv'
  BY <1>1, <1>2 DEF ApplyProfileUpdate, CleaningUp
<1>3. ASSUME NEW phase, phase # "complete", CleaningUp(phase), Advance
      PROVE  outcome'.id = outcome.id
  <2>1. outcome \in [id : Tx, reason : Reasons, phase : CleanupPhases, updates : UpdateType]
    BY <1>3 DEF CleaningUp, TypeInv, DiskInv, DiskTyped, OutcomeType, NoOutcome
  <2> QED BY <1>3, <2>1 DEF Advance
<1>4. CASE ProfilesUpdated \/ PendingRemoved \/ DocumentRemoved \/ CleanupComplete
  <2>1. outcome'.id = outcome.id
    BY <1>3, <1>4 DEF ProfilesUpdated, PendingRemoved, DocumentRemoved, CleanupComplete
  <2> QED BY <1>1, <1>4, <2>1
          DEF ProfilesUpdated, PendingRemoved, DocumentRemoved, CleanupComplete, CleaningUp,
              Advance
<1>5. CASE RemovePending \/ RemoveDocument \/ CancelOwnRecovery
  BY <1>1, <1>5 DEF RemovePending, RemoveDocument, CancelOwnRecovery, CleaningUp, disk
<1>6. CASE CleanupFails \/ CleanupRefused
  BY <1>6, TimerRaised DEF CleanupFails, CleanupRefused, disk, TimerPcs
<1>7. CASE CleanupReturns
  <2>1. CASE Finish
    BY <2>1, TimerFinished
  <2>2. CASE stage = "entry" \/ cmd \in {"activate", "expire"}
    <3>1. cmd # "timeout"
      BY <2>2 DEF TimerInv
    <3>2. Finish \/ (pc' # "idle" /\ cmd' = cmd)
      BY <1>7 DEF CleanupReturns, Goto, local
    <3> QED BY <3>1, <3>2, TimerFinished, OthersElsewhere
  <2>3. CASE stage = "body" /\ Goto("units")
    BY <1>7, <2>3 DEF CleanupReturns, CleaningUp, NoDoc, Goto, local, disk, TimerInv, TimerPcs,
                      RestorePcs
  <2> QED BY <1>7, <2>1, <2>2, <2>3 DEF CleanupReturns
<1>8. CASE RemoveFirstUnit \/ RemoveSecondUnit
  BY <1>8 DEF RemoveFirstUnit, RemoveSecondUnit, disk, TimerInv, TimerPcs, RestorePcs
<1>9. CASE UnitsRemoved
  <2>1. CASE Raise
    BY <1>9, <2>1, TimerRaised DEF UnitsRemoved, disk, TimerPcs
  <2>2. CASE Finish
    BY <2>2, TimerFinished
  <2>3. CASE Goto("journal")
    BY <1>9, <2>3 DEF UnitsRemoved, Goto, local, disk, TimerInv, TimerPcs, RestorePcs
  <2> QED BY <1>9, <2>1, <2>2, <2>3 DEF UnitsRemoved
<1>10. CASE DeleteJournal
  <2>1. CASE Finish
    BY <2>1, TimerFinished
  <2>2. CASE stage = "entry" /\ pc' = "body" /\ UNCHANGED cmd
    BY <2>2, OthersElsewhere DEF TimerInv
  <2> QED BY <1>10, <2>1, <2>2 DEF DeleteJournal
<1> QED BY <1>2, <1>4, <1>5, <1>6, <1>7, <1>8, <1>9, <1>10 DEF Cleanup

(* Commands that a timer's service never runs. *)
LEMMA CommandsGuard ==
  TypeInv /\ TimerInv /\ (Prepare \/ Activate \/ Confirm \/ Expire \/ Service) => TimerInv'
<1> SUFFICES ASSUME TypeInv, TimerInv, Prepare \/ Activate \/ Confirm \/ Expire \/ Service
             PROVE  TimerInv'
  OBVIOUS
<1>1. CASE Prepare
  BY <1>1, TimerFinished, OthersElsewhere
     DEF Prepare, PreparePending, PrepareDocument, PrepareFails, PrepareRefused, Refuse, Running
<1>2. CASE Activate
  <2>1. ASSUME NEW label, NEW phase, NEW next, next # "idle", label \in ActivationPcs,
               WriteJournal(label, phase, next)
        PROVE  TimerInv'
    BY <2>1, OthersElsewhere DEF WriteJournal, TypeInv, OwnerInv
  <2>2. CASE JournalIntent \/ JournalArmed \/ JournalInstalled \/ JournalReloaded
             \/ JournalActive \/ JournalFinalArmed
    BY <2>1, <2>2, ActivationListed
       DEF JournalIntent, JournalArmed, JournalInstalled, JournalReloaded, JournalActive,
           JournalFinalArmed
  <2>3. CASE ActivateRefused \/ ActivationCommitted
    BY <2>3, TimerFinished DEF ActivateRefused, Refuse, ActivationCommitted
  <2>4. CASE ActivateChecked \/ ArmRecovery \/ InstallArtifact \/ CommitGenerated
             \/ CommitRuntime \/ CommitReload \/ CommitReloadFails \/ ActivateDocument
             \/ ArmFinal \/ CancelRecovery \/ ActivationOverdue \/ ActivationFails
             \/ ActivationAbandoned
    <3>1. cmd # "timeout"
      BY <2>4, ActivationListed
         DEF ActivateChecked, Running, ArmRecovery, InstallArtifact, CommitGenerated,
             CommitRuntime, CommitFile, CommitReload, CommitReloadFails, ActivateDocument,
             ArmFinal, CancelRecovery, ActivationOverdue, ActivationFails, ActivationAbandoned,
             TypeInv, OwnerInv, TimerInv, TimerPcs, RestorePcs
    <3>2. cmd' = cmd /\ pc' # "idle"
      BY <2>4
         DEF ActivateChecked, ArmRecovery, InstallArtifact, CommitGenerated, CommitRuntime,
             CommitFile, CommitReload, CommitReloadFails, ActivateDocument, ArmFinal,
             CancelRecovery, ActivationOverdue, ActivationFails, ActivationAbandoned, Goto, local
    <3> QED BY <3>1, <3>2, OthersElsewhere
  <2> QED BY <1>2, <2>2, <2>3, <2>4 DEF Activate
<1>3. CASE Confirm
  <2>1. CASE ConfirmRefused \/ ConfirmFails
    BY <2>1, TimerFinished DEF ConfirmRefused, Refuse, ConfirmFails
  <2>2. CASE ConfirmAgain \/ ConfirmChecked \/ ConfirmArmRecovery \/ ConfirmCancelFinal
             \/ ConfirmOutcome
    <3>1. cmd # "timeout"
      BY <2>2 DEF ConfirmAgain, ConfirmChecked, Running, ConfirmArmRecovery, ConfirmCancelFinal,
                  ConfirmOutcome, TimerInv, TimerPcs, RestorePcs
    <3>2. cmd' = cmd /\ pc' # "idle"
      BY <2>2 DEF ConfirmAgain, ConfirmChecked, ConfirmArmRecovery, ConfirmCancelFinal,
                  ConfirmOutcome, Goto, local
    <3> QED BY <3>1, <3>2, OthersElsewhere
  <2> QED BY <1>3, <2>1, <2>2 DEF Confirm
<1>4. CASE Expire
  BY <1>4, TimerFinished, OthersElsewhere
     DEF Expire, ExpireRefused, ExpireNothing, ExpirePrepared, ExpireIdle, ExpireCommit,
         ExpireFails, Refuse, Running, Goto, local
<1>5. CASE Service
  BY <1>5, TimerFinished
     DEF Service, StartService, StartRefused, StopService, StopRefused, Refuse
<1> QED BY <1>1, <1>2, <1>3, <1>4, <1>5

LEMMA RollbackGuards == TypeInv /\ TimerInv /\ Rollback => TimerInv'
<1> SUFFICES ASSUME TypeInv, TimerInv, Rollback PROVE TimerInv'
  OBVIOUS
<1>1. CASE RollbackAgain
  BY <1>1 DEF RollbackAgain, Goto, local, TimerInv, TimerPcs, RestorePcs
<1>2. CASE RollbackStart
  BY <1>2 DEF RollbackStart, MayRollback, TimerInv, TimerPcs, RestorePcs
<1>3. CASE RollbackRefused
  BY <1>3, TimerFinished DEF RollbackRefused
<1>4. CASE RollbackCheckpointFails
  BY <1>4 DEF RollbackCheckpointFails, MayRollback, Goto, local, disk, TimerInv, TimerPcs,
              RestorePcs
<1> QED BY <1>1, <1>2, <1>3, <1>4 DEF Rollback

LEMMA EnvironmentGuards ==
  TypeInv /\ TimerInv /\ (Arrive \/ Clock \/ ClientSession \/ Crash \/ Reboot) => TimerInv'
<1> SUFFICES ASSUME TypeInv, TimerInv, Arrive \/ Clock \/ ClientSession \/ Crash \/ Reboot
             PROVE  TimerInv'
  OBVIOUS
<1>1. ASSUME NEW c \in LockedCommands, NEW t \in Tx \cup {None}, Acquire(c, t) PROVE TimerInv'
  BY <1>1, OthersElsewhere DEF Acquire, LockedCommands
<1>2. ASSUME NEW t \in Tx, NEW k \in Kinds, TimerService(t, k) PROVE TimerInv'
  BY <1>2 DEF TimerService, TimerInv, TimerPcs, RestorePcs
<1>3. CASE Clock \/ ClientSession
  <2>1. UNCHANGED <<disk, local, pc>>
    BY <1>3 DEF Clock, DeadlinePasses, TimerElapses, ExpiryPasses, ClientSession
  <2> QED BY <2>1 DEF disk, local, TimerInv
<1>4. CASE Crash \/ Reboot
  BY <1>4, TimerFinished DEF Crash, Reboot
<1> QED BY <1>1, <1>2, <1>3, <1>4 DEF Arrive

-----------------------------------------------------------------------------
LEMMA TimerInit == Init => TimerInv
<1> SUFFICES ASSUME Init PROVE TimerInv
  OBVIOUS
<1>1. ~restored
  BY Zenon DEF Init
<1> QED BY <1>1 DEF Init, TimerInv

LEMMA TimerStep == TypeInv /\ TimerInv /\ [Next]_vars => TimerInv'
<1> SUFFICES ASSUME TypeInv, TimerInv, [Next]_vars PROVE TimerInv'
  OBVIOUS
<1>1. CASE Holder
  BY <1>1, ReconcileGuards, RestoreGuards, CleanupGuards, CommandsGuard, RollbackGuards
     DEF Holder
<1>2. CASE UNCHANGED vars
  BY <1>2 DEF vars, disk, local, TimerInv
<1> QED BY <1>1, <1>2, EnvironmentGuards DEF Next

(* The step itself: a timer whose transaction is not the current one. *)
LEMMA ForeignTimerStep ==
  ASSUME TypeInv, TimerInv, Holder, cmd = "timeout", doc # NoDoc, doc.id # tx
  PROVE  UNCHANGED <<doc, outcome, live, revision, kernel>>
<1>1. doc.id # None
  BY NoneAssumption DEF TypeInv, DiskInv, DiskTyped, DocType
<1>2. /\ pc \in {"body", "cleanup", "units", "units2", "units3", "journal"}
      /\ pc = "cleanup" => outcome.id # doc.id
      /\ stage = "body"
  BY <1>1 DEF TimerInv, TimerPcs
<1>3. ~Reconcile /\ ~Restore
  BY <1>2 DEF Reconcile, ReconcileCleanup, ReconcileNothing, ReconcileCompleted, ReconcileRefused,
              ReconcileRestore, Restore, RestoreRejected, RestoreStaged, RestoreDisplace,
              RestorePlace, RestoreReload, RestoreUndo, FailSafeStop, BeginRolledBack
<1>4. ~Prepare /\ ~Expire /\ ~Service
  BY <1>2 DEF Prepare, PreparePending, PrepareDocument, PrepareFails, PrepareRefused, Refuse,
              Running, Expire, ExpireRefused, ExpireNothing, ExpirePrepared, ExpireIdle,
              ExpireCommit, ExpireFails, Service, StartService, StartRefused, StopService,
              StopRefused
<1>5. ~Activate /\ ~Confirm
  <2>1. pc \notin ActivationPcs \cup {"reload"}
    BY DEF TypeInv, OwnerInv
  <2>2. ~Activate
    BY <1>2, <2>1, ActivationListed
       DEF Activate, ActivateChecked, ActivateRefused, Refuse, Running, ArmRecovery,
           JournalIntent, JournalArmed, JournalInstalled, JournalReloaded, JournalActive,
           JournalFinalArmed, WriteJournal, InstallArtifact, CommitGenerated, CommitRuntime,
           CommitFile, CommitReload, CommitReloadFails, ActivateDocument, ArmFinal,
           CancelRecovery, ActivationCommitted, ActivationOverdue, ActivationFails,
           ActivationAbandoned
  <2>3. ~Confirm
    BY <1>2 DEF Confirm, ConfirmAgain, ConfirmChecked, ConfirmRefused, Refuse, Running,
                ConfirmArmRecovery, ConfirmCancelFinal, ConfirmOutcome, ConfirmFails, ConfirmPcs
  <2> QED BY <2>2, <2>3
<1>6. CASE Cleanup
  <2>1. ~CleaningUp("checkpoint") /\ ~CleaningUp("metadata") /\ ~CleaningUp("pending")
        /\ ~CleaningUp("current") /\ ~CleaningUp("complete")
    BY <1>2 DEF CleaningUp
  <2> QED BY <1>6, <2>1
          DEF Cleanup, ApplyProfileUpdate, ProfilesUpdated, RemovePending, PendingRemoved,
              RemoveDocument, DocumentRemoved, CancelOwnRecovery, CleanupComplete, CleanupFails,
              CleanupRefused, CleanupReturns, RemoveFirstUnit, RemoveSecondUnit, UnitsRemoved,
              DeleteJournal, disk, host
<1>7. CASE Rollback
  BY <1>7 DEF Rollback, RollbackAgain, RollbackStart, RollbackRefused, RollbackCheckpointFails,
              MayRollback, disk, host
<1> QED BY <1>3, <1>4, <1>5, <1>6, <1>7 DEF Holder

(* A stale timer, of a transaction that is not the current one any more, is      *)
(* harmless whenever it fires and wherever earlier commands crashed.              *)
THEOREM StaleTimersAreHarmless == Spec => StaleTimerHarmless
<1>1. TypeInv /\ TimerInv /\ [Next]_vars
        => [(Holder /\ cmd = "timeout" /\ doc # NoDoc /\ doc.id # tx)
              => UNCHANGED <<doc, outcome, live, revision, kernel>>]_vars
  BY ForeignTimerStep
<1> QED BY <1>1, TypeInvariant, TimerInit, TimerStep, PTL DEF Spec, StaleTimerHarmless
=============================================================================
