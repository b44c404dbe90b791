-------------------------- MODULE TransitionProofs --------------------------
(***************************************************************************)
(* Proofs about Transition for any set of transactions and profiles and    *)
(* any number of crashes, reboots and failures.                            *)
(*                                                                         *)
(* Type correctness is not inductive alone: that the reloaded interface is  *)
(* of a known image needs the runtime configuration to be present (only    *)
(* the managed components are displaced during a restore), and that the    *)
(* journal names a transaction needs the labels of the activation to be    *)
(* reached by `activate` alone, whose argument is a transaction.           *)
(***************************************************************************)
EXTENDS Transition, TLAPS

DiskInv  == DiskTyped /\ live["runtime"] # "absent"
LocalInv == LocalTyped /\ pc \in Labels /\ saved["runtime"] # "absent"
OwnerInv ==
  /\ cmd \in {"activate", "confirm", "rollback", "timeout"} => tx \in Tx
  /\ origin # "none" => cmd = "timeout" /\ pc # "idle"
  /\ pc \in ActivationPcs \cup {"reload"} => cmd = "activate"
  /\ pc = "prepare" => tx \in Tx
TypeInv == DiskInv /\ HostTyped /\ LocalInv /\ OwnerInv /\ BudgetTyped

(* The labels at which OwnerInv asks nothing of the command. *)
FreeLabels == (SharedPcs \ {"idle"}) \cup ConfirmPcs

-----------------------------------------------------------------------------
(* Values *)

LEMMA OrderLengths == Len(InstallOrder) = 3 /\ Len(RestoreOrder) = 5
  BY DEF InstallOrder, RestoreOrder

LEMMA UniformTyped ==
  Uniform("classic") \in [Components -> Images] /\ Uniform("classic")["runtime"] # "absent"
  BY DEF Uniform, Components, Images, Managed

LEMMA FreeLabelsApart ==
  \A label \in FreeLabels :
    label \in Labels /\ label \notin {"idle", "prepare"} /\ label \notin ActivationPcs \cup {"reload"}
<1>1. \A label \in FreeLabels : label \in Labels
  BY DEF FreeLabels, Labels
<1>2. \A label \in FreeLabels : label \notin {"idle", "prepare", "reload"}
  BY DEF FreeLabels, SharedPcs, ConfirmPcs
<1>3. \A label \in FreeLabels : label \notin ActivationPcs
  BY Zenon DEF FreeLabels, SharedPcs, ConfirmPcs, ActivationPcs
<1> QED BY <1>1, <1>2, <1>3

LEMMA IdleApart == "idle" \in Labels /\ "idle" \notin ActivationPcs \cup {"reload"}
<1>1. "idle" \in Labels
  BY DEF Labels, SharedPcs
<1>2. "idle" \notin ActivationPcs \cup {"reload"}
  BY DEF ActivationPcs
<1> QED BY <1>1, <1>2

LEMMA FreeLabelsNamed ==
  /\ "reconcile" \in FreeLabels /\ "body" \in FreeLabels
  /\ "cleanup" \in FreeLabels /\ "restore" \in FreeLabels /\ "replace" \in FreeLabels
  /\ "outcome" \in FreeLabels /\ "stop" \in FreeLabels /\ "units" \in FreeLabels
  /\ "units2" \in FreeLabels /\ "units3" \in FreeLabels /\ "journal" \in FreeLabels
  /\ "expire" \in FreeLabels /\ "failed" \in FreeLabels /\ "confirmArm" \in FreeLabels
  /\ "confirmCancel" \in FreeLabels /\ "confirmed" \in FreeLabels
  BY DEF FreeLabels, SharedPcs, ConfirmPcs

-----------------------------------------------------------------------------
(* Frames: what a step leaves alone stays typed, and every way in which the   *)
(* lock holder moves on keeps its own state typed.                            *)

LEMMA DiskSame == DiskInv /\ UNCHANGED disk => DiskInv'
  BY DEF DiskInv, DiskTyped, disk

LEMMA HostSame == HostTyped /\ UNCHANGED host => HostTyped'
  BY DEF HostTyped, host

LEMMA BudgetSame == BudgetTyped /\ (UNCHANGED budget \/ MayFail) => BudgetTyped'
  BY DEF BudgetTyped, budget, MayFail

LEMMA LocalSame ==
  LocalInv /\ OwnerInv /\ UNCHANGED <<local, pc>> => LocalInv' /\ OwnerInv'
  BY DEF LocalInv, OwnerInv, LocalTyped, local

LEMMA Moved ==
  LocalInv /\ OwnerInv /\ UNCHANGED local /\ pc' \in FreeLabels => LocalInv' /\ OwnerInv'
  BY FreeLabelsApart DEF LocalInv, LocalTyped, OwnerInv, local

LEMMA MovedInActivation ==
  LocalInv /\ OwnerInv /\ UNCHANGED local /\ cmd = "activate" /\ pc' \in Labels \ {"prepare"}
    => LocalInv' /\ OwnerInv'
  BY DEF LocalInv, LocalTyped, OwnerInv, local

LEMMA Finished == Finish => LocalInv' /\ OwnerInv'
<1> SUFFICES ASSUME Finish PROVE LocalInv' /\ OwnerInv'
  OBVIOUS
<1>1. restored' \in BOOLEAN /\ unitError' \in BOOLEAN
  BY Zenon DEF Finish
<1>2. /\ pc' = "idle" /\ cmd' = "none" /\ tx' = None /\ origin' = "none"
      /\ stage' = "body" /\ step' = 0 /\ saved' = Uniform("classic")
  BY DEF Finish
<1>3. LocalInv'
  BY <1>1, <1>2, UniformTyped, IdleApart DEF LocalInv, LocalTyped
<1> QED BY <1>2, <1>3, IdleApart DEF OwnerInv

LEMMA Raised == LocalInv /\ OwnerInv /\ Raise => LocalInv' /\ OwnerInv'
  BY Finished, Moved, FreeLabelsNamed DEF Raise, Goto

-----------------------------------------------------------------------------
(* Every step of the lock holder keeps the types *)

LEMMA ReconcileTyped == TypeInv /\ Reconcile => TypeInv'
<1> SUFFICES ASSUME TypeInv, Reconcile PROVE TypeInv'
  OBVIOUS
<1>1. CASE ReconcileCleanup
  BY <1>1, DiskSame, HostSame, BudgetSame, Moved, FreeLabelsNamed
     DEF ReconcileCleanup, TypeInv, Goto
<1>2. CASE ReconcileNothing
  <2>1. LocalInv' /\ OwnerInv'
    BY <1>2, FreeLabelsApart, FreeLabelsNamed
       DEF ReconcileNothing, TypeInv, LocalInv, LocalTyped, OwnerInv
  <2> QED BY <1>2, <2>1, DiskSame, HostSame, BudgetSame DEF ReconcileNothing, TypeInv
<1>3. CASE ReconcileCompleted
  BY <1>3, DiskSame, HostSame, BudgetSame, Moved, FreeLabelsNamed
     DEF ReconcileCompleted, TypeInv, Goto
<1>4. CASE ReconcileRefused
  BY <1>4, DiskSame, HostSame, BudgetSame, Finished DEF ReconcileRefused, TypeInv
<1>5. CASE ReconcileRestore
  <2>1. restored' \in BOOLEAN
    BY <1>5, Zenon DEF ReconcileRestore
  <2>2. LocalInv' /\ OwnerInv'
    BY <1>5, <2>1, FreeLabelsApart, FreeLabelsNamed
       DEF ReconcileRestore, TypeInv, LocalInv, LocalTyped, OwnerInv
  <2> QED BY <1>5, <2>2, DiskSame, HostSame, BudgetSame DEF ReconcileRestore, TypeInv
<1> QED BY <1>1, <1>2, <1>3, <1>4, <1>5 DEF Reconcile

LEMMA RestoreTyped == TypeInv /\ Restore => TypeInv'
<1> SUFFICES ASSUME TypeInv, Restore PROVE TypeInv'
  OBVIOUS
<1>1. CASE RestoreRejected
  BY <1>1, DiskSame, HostSame, BudgetSame, Moved, FreeLabelsNamed
     DEF RestoreRejected, TypeInv, Goto
<1>2. CASE RestoreStaged
  <2>1. LocalInv' /\ OwnerInv'
    BY <1>2, FreeLabelsApart, FreeLabelsNamed
       DEF RestoreStaged, TypeInv, DiskInv, DiskTyped, LocalInv, LocalTyped, OwnerInv
  <2> QED BY <1>2, <2>1, DiskSame, HostSame, BudgetSame DEF RestoreStaged, TypeInv
<1>3. CASE RestoreDisplace
  <2>1. DiskInv'
    BY <1>3 DEF RestoreDisplace, TypeInv, DiskInv, DiskTyped, Managed, Components, Images
  <2> QED BY <1>3, <2>1, HostSame, BudgetSame, Moved, FreeLabelsNamed
          DEF RestoreDisplace, TypeInv, Goto
<1>4. CASE RestorePlace
  <2>1. DiskInv'
    BY <1>4 DEF RestorePlace, TypeInv, DiskInv, DiskTyped, Components, Images
  <2>2. step' \in 0..6
    BY <1>4, OrderLengths DEF RestorePlace, TypeInv, LocalInv, LocalTyped
  <2>3. LocalInv' /\ OwnerInv'
    BY <1>4, <2>2 DEF RestorePlace, TypeInv, LocalInv, LocalTyped, OwnerInv
  <2> QED BY <1>4, <2>1, <2>3, HostSame, BudgetSame DEF RestorePlace, TypeInv
<1>5. CASE RestoreReload
  <2>1. HostTyped'
    BY <1>5 DEF RestoreReload, TypeInv, HostTyped, DiskInv, DiskTyped, Components, Images
  <2> QED BY <1>5, <2>1, DiskSame, BudgetSame, Moved, FreeLabelsNamed
          DEF RestoreReload, TypeInv, Goto
<1>6. CASE RestoreUndo
  <2>1. DiskInv'
    BY <1>6 DEF RestoreUndo, TypeInv, DiskInv, DiskTyped, LocalInv, LocalTyped
  <2>2. kernel' \in {kernel, live["runtime"]}
    BY <1>6 DEF RestoreUndo
  <2>3. HostTyped'
    BY <1>6, <2>2
       DEF RestoreUndo, TypeInv, HostTyped, DiskInv, DiskTyped, Components, Images
  <2> QED BY <1>6, <2>1, <2>3, BudgetSame, Moved, FreeLabelsNamed
          DEF RestoreUndo, TypeInv, Goto
<1>7. CASE FailSafeStop
  <2>1. HostTyped'
    BY <1>7 DEF FailSafeStop, TypeInv, HostTyped
  <2> QED BY <1>7, <2>1, DiskSame, BudgetSame, Finished DEF FailSafeStop, TypeInv
<1>8. CASE BeginRolledBack
  <2>1. CASE RecordOutcome(RollbackReason, NoUpdates) /\ Goto("cleanup") /\ UNCHANGED budget
    <3>1. Target \in Tx
      BY <2>1 DEF RecordOutcome, TypeInv, DiskInv, DiskTyped, DocType, NoDoc
    <3>2. RollbackReason \in Reasons
      BY DEF RollbackReason, Reasons
    <3>3. DiskInv'
      BY <2>1, <3>1, <3>2
         DEF RecordOutcome, TypeInv, DiskInv, DiskTyped, OutcomeType, CleanupPhases, UpdateType
    <3> QED BY <1>8, <2>1, <3>3, HostSame, BudgetSame, Moved, FreeLabelsNamed
            DEF BeginRolledBack, TypeInv, Goto
  <2>2. CASE MayFail /\ Raise /\ UNCHANGED disk
    BY <1>8, <2>2, DiskSame, HostSame, BudgetSame, Raised DEF BeginRolledBack, TypeInv
  <2> QED BY <1>8, <2>1, <2>2 DEF BeginRolledBack
<1> QED BY <1>1, <1>2, <1>3, <1>4, <1>5, <1>6, <1>7, <1>8 DEF Restore

LEMMA CleanupTyped == TypeInv /\ Cleanup => TypeInv'
<1> SUFFICES ASSUME TypeInv, Cleanup PROVE TypeInv'
  OBVIOUS
<1>1. ASSUME NEW p \in Profiles, ApplyProfileUpdate(p) PROVE TypeInv'
  <2>1. DiskInv'
    BY <1>1 DEF ApplyProfileUpdate, TypeInv, DiskInv, DiskTyped
  <2> QED BY <1>1, <2>1, HostSame, BudgetSame, Moved, FreeLabelsNamed
          DEF ApplyProfileUpdate, TypeInv, Goto
<1>2. ASSUME NEW phase \in CleanupPhases \ {"complete"}, CleaningUp(phase), Advance
      PROVE  DiskInv'
  <2>1. outcome \in [id : Tx, reason : Reasons, phase : CleanupPhases, updates : UpdateType]
    BY <1>2 DEF CleaningUp, TypeInv, DiskInv, DiskTyped, OutcomeType, NoOutcome
  <2>2. NextPhase[outcome.phase] \in CleanupPhases
    BY <1>2 DEF CleaningUp, NextPhase, CleanupPhases
  <2> QED BY <1>2, <2>1, <2>2 DEF Advance, TypeInv, DiskInv, DiskTyped, OutcomeType
<1>3. CASE ProfilesUpdated \/ PendingRemoved \/ DocumentRemoved \/ CleanupComplete
  <2>1. DiskInv'
    BY <1>2, <1>3
       DEF ProfilesUpdated, PendingRemoved, DocumentRemoved, CleanupComplete, CleanupPhases
  <2> QED BY <1>3, <2>1, HostSame, BudgetSame, Moved, FreeLabelsNamed
          DEF ProfilesUpdated, PendingRemoved, DocumentRemoved, CleanupComplete, TypeInv, Goto
<1>4. CASE RemovePending \/ RemoveDocument
  <2>1. DiskInv'
    BY <1>4 DEF RemovePending, RemoveDocument, TypeInv, DiskInv, DiskTyped, DocType
  <2> QED BY <1>4, <2>1, HostSame, BudgetSame, Moved, FreeLabelsNamed
          DEF RemovePending, RemoveDocument, TypeInv, Goto
<1>5. CASE CancelOwnRecovery
  <2>1. HostTyped'
    BY <1>5 DEF CancelOwnRecovery, TypeInv, HostTyped
  <2> QED BY <1>5, <2>1, DiskSame, BudgetSame, Moved, FreeLabelsNamed
          DEF CancelOwnRecovery, TypeInv, Goto
<1>6. CASE CleanupFails \/ CleanupRefused
  BY <1>6, DiskSame, HostSame, BudgetSame, Raised DEF CleanupFails, CleanupRefused, TypeInv
<1>7. CASE CleanupReturns
  <2>1. Finish \/ (UNCHANGED local /\ pc' \in FreeLabels)
    BY <1>7, FreeLabelsNamed DEF CleanupReturns, Goto
  <2> QED BY <1>7, <2>1, DiskSame, HostSame, BudgetSame, Moved, Finished
          DEF CleanupReturns, TypeInv
<1>8. CASE RemoveFirstUnit \/ RemoveSecondUnit
  <2>1. ASSUME NEW k, RemoveUnit(k)
        PROVE  /\ timer' \in [Tx \X Kinds -> {"absent", "armed", "fired", "spent"}]
               /\ UNCHANGED budget \/ MayFail
               /\ unitError' \in BOOLEAN
    <3>1. timer' \in [Tx \X Kinds -> {"absent", "armed", "fired", "spent"}]
      BY <2>1 DEF RemoveUnit, TypeInv, HostTyped
    <3>2. unitError' \in BOOLEAN
      BY <2>1, Zenon DEF RemoveUnit, TypeInv, LocalInv, LocalTyped
    <3> QED BY <2>1, <3>1, <3>2 DEF RemoveUnit
  <2>2. HostTyped' /\ BudgetTyped' /\ unitError' \in BOOLEAN
    BY <1>8, <2>1, BudgetSame DEF RemoveFirstUnit, RemoveSecondUnit, TypeInv, HostTyped
  <2>3. LocalInv' /\ OwnerInv'
    BY <1>8, <2>2, FreeLabelsApart, FreeLabelsNamed
       DEF RemoveFirstUnit, RemoveSecondUnit, TypeInv, LocalInv, LocalTyped, OwnerInv
  <2> QED BY <1>8, <2>2, <2>3, DiskSame DEF RemoveFirstUnit, RemoveSecondUnit, TypeInv
<1>9. CASE UnitsRemoved
  BY <1>9, DiskSame, HostSame, BudgetSame, Moved, Raised, Finished, FreeLabelsNamed
     DEF UnitsRemoved, TypeInv, Goto
<1>10. CASE DeleteJournal
  <2>1. DiskInv'
    BY <1>10 DEF DeleteJournal, TypeInv, DiskInv, DiskTyped, JournalType
  <2>2. CASE Finish
    BY <1>10, <2>1, <2>2, HostSame, BudgetSame, Finished DEF DeleteJournal, TypeInv
  <2>3. CASE ~Finish
    <3>1. restored' \in BOOLEAN
      BY <1>10, <2>3, Zenon DEF DeleteJournal
    <3>2. /\ stage' = "body" /\ pc' \in FreeLabels /\ step' = 0
          /\ saved' = Uniform("classic") /\ UNCHANGED <<cmd, tx, origin, unitError>>
      BY <1>10, <2>3, FreeLabelsNamed DEF DeleteJournal
    <3>3. LocalInv' /\ OwnerInv'
      BY <3>1, <3>2, UniformTyped, FreeLabelsApart
         DEF TypeInv, LocalInv, LocalTyped, OwnerInv
    <3> QED BY <1>10, <2>1, <3>3, HostSame, BudgetSame DEF DeleteJournal, TypeInv
  <2> QED BY <2>2, <2>3
<1> QED BY <1>1, <1>3, <1>4, <1>5, <1>6, <1>7, <1>8, <1>9, <1>10 DEF Cleanup

LEMMA PrepareTyped == TypeInv /\ Prepare => TypeInv'
<1> SUFFICES ASSUME TypeInv, Prepare PROVE TypeInv'
  OBVIOUS
<1>1. ASSUME NEW t \in Tx, PreparePending(t) PROVE TypeInv'
  <2>1. DiskInv'
    BY <1>1 DEF PreparePending, TypeInv, DiskInv, DiskTyped
  <2>2. pc' = "prepare" /\ pc' \in Labels /\ pc' \notin ActivationPcs \cup {"reload"}
    BY <1>1, Zenon DEF PreparePending, ActivationPcs, Labels
  <2>3. LocalInv' /\ OwnerInv'
    BY <1>1, <2>2 DEF PreparePending, Running, TypeInv, LocalInv, LocalTyped, OwnerInv
  <2> QED BY <1>1, <2>1, <2>3, HostSame, BudgetSame DEF PreparePending, TypeInv
<1>2. CASE PrepareDocument
  <2>1. tx \in Tx
    BY <1>2 DEF PrepareDocument, TypeInv, OwnerInv
  <2>2. DiskInv'
    BY <1>2, <2>1 DEF PrepareDocument, TypeInv, DiskInv, DiskTyped, DocType, DocStates
  <2> QED BY <1>2, <2>2, HostSame, BudgetSame, Finished DEF PrepareDocument, TypeInv
<1>3. CASE PrepareFails
  <2>1. DiskInv'
    BY <1>3 DEF PrepareFails, TypeInv, DiskInv, DiskTyped
  <2> QED BY <1>3, <2>1, HostSame, BudgetSame, Finished DEF PrepareFails, TypeInv
<1>4. CASE PrepareRefused
  BY <1>4, DiskSame, HostSame, BudgetSame, Finished DEF PrepareRefused, Refuse, TypeInv
<1> QED BY <1>1, <1>2, <1>3, <1>4 DEF Prepare

LEMMA ActivationNamed ==
  \A label \in ActivationPcs \cup {"reload"} : label \in Labels \ {"prepare"}
<1>1. \A label \in ActivationPcs \cup {"reload"} : label # "prepare"
  BY DEF ActivationPcs
<1>2. \A label \in ActivationPcs \cup {"reload"} : label \in Labels
  BY DEF Labels
<1> QED BY <1>1, <1>2

LEMMA ActivationListed ==
  /\ "arm" \in ActivationPcs /\ "intent" \in ActivationPcs /\ "armed" \in ActivationPcs
  /\ "install" \in ActivationPcs /\ "commit" \in ActivationPcs
  /\ "commit2" \in ActivationPcs /\ "reloaded" \in ActivationPcs
  /\ "activate" \in ActivationPcs /\ "activated" \in ActivationPcs
  /\ "armFinal" \in ActivationPcs /\ "prove" \in ActivationPcs
  /\ "cancelRecovery" \in ActivationPcs /\ "cancelled" \in ActivationPcs
  BY DEF ActivationPcs

LEMMA JournalWritten ==
  ASSUME NEW label \in ActivationPcs, NEW phase \in JournalPhases,
         NEW next \in ActivationPcs, TypeInv, WriteJournal(label, phase, next)
  PROVE  TypeInv'
<1>1. cmd = "activate" /\ tx \in Tx
  BY DEF WriteJournal, TypeInv, OwnerInv
<1>2. DiskInv'
  BY <1>1 DEF WriteJournal, TypeInv, DiskInv, DiskTyped, JournalType
<1>3. LocalInv' /\ OwnerInv'
  BY <1>1, ActivationNamed DEF WriteJournal, TypeInv, LocalInv, LocalTyped, OwnerInv
<1> QED BY <1>2, <1>3, HostSame, BudgetSame DEF WriteJournal, TypeInv

LEMMA ActivateTyped == TypeInv /\ Activate => TypeInv'
<1> SUFFICES ASSUME TypeInv, Activate PROVE TypeInv'
  OBVIOUS
<1> USE ActivationListed
<1>1. CASE ActivateChecked
  BY <1>1, DiskSame, HostSame, BudgetSame, MovedInActivation, ActivationNamed
     DEF ActivateChecked, Running, TypeInv, Goto
<1>2. CASE ActivateRefused
  BY <1>2, DiskSame, HostSame, BudgetSame, Finished DEF ActivateRefused, Refuse, TypeInv
<1>3. CASE ArmRecovery
  <2>1. HostTyped'
    BY <1>3 DEF ArmRecovery, ArmTimer, TypeInv, HostTyped
  <2> QED BY <1>3, <2>1, DiskSame, BudgetSame, MovedInActivation, ActivationNamed
          DEF ArmRecovery, TypeInv, OwnerInv, Goto
<1>4. CASE JournalIntent \/ JournalArmed \/ JournalInstalled \/ JournalReloaded
           \/ JournalActive \/ JournalFinalArmed
  <2>1. {"intent", "recovery-armed", "artifacts-installed", "reloaded", "active", "final-armed"}
          \subseteq JournalPhases
    BY DEF JournalPhases
  <2> QED BY <1>4, <2>1, JournalWritten
          DEF JournalIntent, JournalArmed, JournalInstalled, JournalReloaded, JournalActive,
              JournalFinalArmed
<1>5. CASE InstallArtifact
  <2>1. DiskInv'
    BY <1>5 DEF InstallArtifact, TypeInv, DiskInv, DiskTyped, Components, Images
  <2>2. step' \in 0..6
    BY <1>5, OrderLengths DEF InstallArtifact, TypeInv, LocalInv, LocalTyped
  <2>3. LocalInv' /\ OwnerInv'
    BY <1>5, <2>2 DEF InstallArtifact, TypeInv, LocalInv, LocalTyped, OwnerInv
  <2> QED BY <1>5, <2>1, <2>3, HostSame, BudgetSame DEF InstallArtifact, TypeInv
<1>6. CASE CommitGenerated \/ CommitRuntime
  <2>1. DiskInv'
    BY <1>6 DEF CommitGenerated, CommitRuntime, CommitFile, TypeInv, DiskInv, DiskTyped,
                Components, Images
  <2> QED BY <1>6, <2>1, HostSame, BudgetSame, MovedInActivation, ActivationNamed
          DEF CommitGenerated, CommitRuntime, CommitFile, TypeInv, OwnerInv, Goto
<1>7. CASE CommitReload
  <2>1. HostTyped'
    BY <1>7 DEF CommitReload, TypeInv, HostTyped, DiskInv, DiskTyped, Components, Images
  <2> QED BY <1>7, <2>1, DiskSame, BudgetSame, MovedInActivation, ActivationNamed
          DEF CommitReload, TypeInv, OwnerInv, Goto
<1>8. CASE CommitReloadFails
  <2>1. DiskInv'
    BY <1>8 DEF CommitReloadFails, TypeInv, DiskInv, DiskTyped, Components, Managed, Images
  <2>2. kernel' \in {"classic", live["runtime"]}
    BY <1>8 DEF CommitReloadFails
  <2>3. HostTyped'
    BY <1>8, <2>2
       DEF CommitReloadFails, TypeInv, HostTyped, DiskInv, DiskTyped, Components, Images
  <2> QED BY <1>8, <2>1, <2>3, BudgetSame, Moved, FreeLabelsNamed
          DEF CommitReloadFails, TypeInv, Goto
<1>9. CASE ActivateDocument
  <2>1. DiskInv'
    BY <1>9 DEF ActivateDocument, TypeInv, DiskInv, DiskTyped, DocType, DocStates, NoDoc
  <2>2. HostTyped'
    BY <1>9 DEF ActivateDocument, TypeInv, HostTyped
  <2> QED BY <1>9, <2>1, <2>2, BudgetSame, MovedInActivation, ActivationNamed
          DEF ActivateDocument, TypeInv, OwnerInv, Goto
<1>10. CASE ArmFinal \/ CancelRecovery
  <2>1. HostTyped'
    BY <1>10 DEF ArmFinal, CancelRecovery, TypeInv, HostTyped
  <2> QED BY <1>10, <2>1, DiskSame, BudgetSame, MovedInActivation, ActivationNamed
          DEF ArmFinal, CancelRecovery, TypeInv, OwnerInv, Goto
<1>11. CASE ActivationCommitted
  <2>1. DiskInv'
    BY <1>11 DEF ActivationCommitted, TypeInv, DiskInv, DiskTyped, JournalType
  <2> QED BY <1>11, <2>1, HostSame, BudgetSame, Finished DEF ActivationCommitted, TypeInv
<1>12. CASE ActivationOverdue \/ ActivationFails
  BY <1>12, DiskSame, HostSame, BudgetSame, Moved, FreeLabelsNamed
     DEF ActivationOverdue, ActivationFails, TypeInv, Goto
<1>13. CASE ActivationAbandoned
  <2>1. HostTyped' /\ (UNCHANGED budget \/ MayFail)
    BY <1>13 DEF ActivationAbandoned, TypeInv, HostTyped
  <2>2. restored' \in BOOLEAN
    BY <1>13, Zenon DEF ActivationAbandoned
  <2>3. LocalInv' /\ OwnerInv'
    BY <1>13, <2>2, FreeLabelsApart, FreeLabelsNamed
       DEF ActivationAbandoned, TypeInv, LocalInv, LocalTyped, OwnerInv
  <2> QED BY <1>13, <2>1, <2>3, DiskSame, BudgetSame DEF ActivationAbandoned, TypeInv
<1> QED BY <1>1, <1>2, <1>3, <1>4, <1>5, <1>6, <1>7, <1>8, <1>9, <1>10, <1>11, <1>12, <1>13
        DEF Activate

LEMMA ConfirmTyped == TypeInv /\ Confirm => TypeInv'
<1> SUFFICES ASSUME TypeInv, Confirm PROVE TypeInv'
  OBVIOUS
<1>1. CASE ConfirmAgain \/ ConfirmChecked
  BY <1>1, DiskSame, HostSame, BudgetSame, Moved, FreeLabelsNamed
     DEF ConfirmAgain, ConfirmChecked, TypeInv, Goto
<1>2. CASE ConfirmRefused \/ ConfirmFails
  BY <1>2, DiskSame, HostSame, BudgetSame, Finished
     DEF ConfirmRefused, ConfirmFails, Refuse, TypeInv
<1>3. CASE ConfirmArmRecovery \/ ConfirmCancelFinal
  <2>1. HostTyped'
    BY <1>3 DEF ConfirmArmRecovery, ConfirmCancelFinal, ArmTimer, TypeInv, HostTyped
  <2> QED BY <1>3, <2>1, DiskSame, BudgetSame, Moved, FreeLabelsNamed
          DEF ConfirmArmRecovery, ConfirmCancelFinal, TypeInv, Goto
<1>4. CASE ConfirmOutcome
  <2>1. Target \in Tx
    BY <1>4 DEF ConfirmOutcome, RecordOutcome, TypeInv, DiskInv, DiskTyped, DocType, NoDoc
  <2>2. DiskInv'
    BY <1>4, <2>1
       DEF ConfirmOutcome, RecordOutcome, TypeInv, DiskInv, DiskTyped, OutcomeType, UpdateType,
           CleanupPhases, Reasons
  <2> QED BY <1>4, <2>2, HostSame, BudgetSame, Moved, FreeLabelsNamed
          DEF ConfirmOutcome, TypeInv, Goto
<1> QED BY <1>1, <1>2, <1>3, <1>4 DEF Confirm

LEMMA RollbackTyped == TypeInv /\ Rollback => TypeInv'
<1> SUFFICES ASSUME TypeInv, Rollback PROVE TypeInv'
  OBVIOUS
<1>1. ASSUME EnsureCleanupJournal, UNCHANGED <<doc, outcome, pending, live, revision, used>>
      PROVE  DiskInv'
  <2>1. origin # "none" => tx \in Tx
    BY DEF TypeInv, OwnerInv
  <2> QED BY <1>1, <2>1 DEF EnsureCleanupJournal, TypeInv, DiskInv, DiskTyped, JournalType,
                            JournalPhases
<1>2. CASE RollbackAgain
  BY <1>1, <1>2, HostSame, BudgetSame, Moved, FreeLabelsNamed DEF RollbackAgain, TypeInv, Goto
<1>3. CASE RollbackStart
  <2>1. restored' \in BOOLEAN
    BY <1>3, Zenon DEF RollbackStart
  <2>2. LocalInv' /\ OwnerInv'
    BY <1>3, <2>1, FreeLabelsApart, FreeLabelsNamed
       DEF RollbackStart, TypeInv, LocalInv, LocalTyped, OwnerInv
  <2> QED BY <1>1, <1>3, <2>2, HostSame, BudgetSame DEF RollbackStart, TypeInv
<1>4. CASE RollbackRefused
  BY <1>4, DiskSame, HostSame, BudgetSame, Finished DEF RollbackRefused, TypeInv
<1>5. CASE RollbackCheckpointFails
  BY <1>5, DiskSame, HostSame, BudgetSame, Moved, FreeLabelsNamed
     DEF RollbackCheckpointFails, TypeInv, Goto
<1> QED BY <1>2, <1>3, <1>4, <1>5 DEF Rollback

LEMMA ExpireTyped == TypeInv /\ Expire => TypeInv'
<1> SUFFICES ASSUME TypeInv, Expire PROVE TypeInv'
  OBVIOUS
<1>1. CASE ExpireRefused \/ ExpireNothing \/ ExpireFails
  BY <1>1, DiskSame, HostSame, BudgetSame, Finished
     DEF ExpireRefused, ExpireNothing, ExpireFails, Refuse, TypeInv
<1>2. CASE ExpirePrepared
  <2>1. doc.id \in Tx
    BY <1>2 DEF ExpirePrepared, TypeInv, DiskInv, DiskTyped, DocType
  <2>2. DiskInv'
    BY <1>2, <2>1 DEF ExpirePrepared, TypeInv, DiskInv, DiskTyped, OutcomeType, UpdateType,
                      CleanupPhases, Reasons
  <2> QED BY <1>2, <2>2, HostSame, BudgetSame, Moved, FreeLabelsNamed
          DEF ExpirePrepared, TypeInv, Goto
<1>3. CASE ExpireIdle
  BY <1>3, DiskSame, HostSame, BudgetSame, Moved, FreeLabelsNamed DEF ExpireIdle, TypeInv, Goto
<1>4. CASE ExpireCommit
  <2>1. HostTyped'
    BY <1>4 DEF ExpireCommit, TypeInv, HostTyped
  <2> QED BY <1>4, <2>1, DiskSame, BudgetSame, Finished DEF ExpireCommit, TypeInv
<1> QED BY <1>1, <1>2, <1>3, <1>4 DEF Expire

LEMMA ServiceTyped == TypeInv /\ Service => TypeInv'
<1> SUFFICES ASSUME TypeInv, Service PROVE TypeInv'
  OBVIOUS
<1>1. CASE StartService \/ StopService
  <2>1. HostTyped'
    BY <1>1 DEF StartService, StopService, TypeInv, HostTyped, DiskInv, DiskTyped, Components,
                Images
  <2> QED BY <1>1, <2>1, DiskSame, BudgetSame, Finished DEF StartService, StopService, TypeInv
<1>2. CASE StartRefused \/ StopRefused
  BY <1>2, DiskSame, HostSame, BudgetSame, Finished
     DEF StartRefused, StopRefused, Refuse, TypeInv
<1> QED BY <1>1, <1>2 DEF Service

-----------------------------------------------------------------------------
(* The environment *)

LEMMA ArriveTyped == TypeInv /\ Arrive => TypeInv'
<1> SUFFICES ASSUME TypeInv, Arrive PROVE TypeInv'
  OBVIOUS
<1>1. ASSUME NEW c \in LockedCommands, NEW t \in Tx \cup {None}, Acquire(c, t) PROVE TypeInv'
  <2>1. c \in {"activate", "confirm", "rollback", "timeout"} => t \in Tx
    BY <1>1 DEF Acquire, LockedCommands, TypeInv, DiskInv, DiskTyped
  <2>2. LocalInv'
    BY <1>1, FreeLabelsApart, FreeLabelsNamed DEF Acquire, TypeInv, LocalInv, LocalTyped
  <2>3. OwnerInv'
    BY <1>1, <2>1, FreeLabelsApart, FreeLabelsNamed DEF Acquire, TypeInv, OwnerInv
  <2> QED BY <1>1, <2>2, <2>3, DiskSame, HostSame, BudgetSame DEF Acquire, TypeInv
<1>2. ASSUME NEW t \in Tx, NEW k \in Kinds, TimerService(t, k) PROVE TypeInv'
  <2>1. LocalInv' /\ OwnerInv'
    BY <1>2, FreeLabelsApart, FreeLabelsNamed
       DEF TimerService, TypeInv, LocalInv, LocalTyped, OwnerInv
  <2> QED BY <1>2, <2>1, DiskSame, HostSame, BudgetSame DEF TimerService, TypeInv
<1> QED BY <1>1, <1>2 DEF Arrive

LEMMA ClockTyped == TypeInv /\ (Clock \/ ClientSession) => TypeInv'
<1> SUFFICES ASSUME TypeInv, Clock \/ ClientSession PROVE TypeInv'
  OBVIOUS
<1>1. ASSUME NEW t \in Tx, NEW k \in Kinds, DeadlinePasses(t, k) \/ TimerElapses(t, k)
      PROVE  TypeInv'
  <2>1. HostTyped'
    BY <1>1 DEF DeadlinePasses, TimerElapses, TypeInv, HostTyped
  <2> QED BY <1>1, <2>1, DiskSame, LocalSame, BudgetSame
          DEF DeadlinePasses, TimerElapses, TypeInv
<1>2. CASE ExpiryPasses
  <2>1. HostTyped'
    BY <1>2 DEF ExpiryPasses, TypeInv, HostTyped
  <2> QED BY <1>2, <2>1, DiskSame, LocalSame, BudgetSame DEF ExpiryPasses, TypeInv
<1>3. CASE ClientSession
  <2>1. proof' \in BOOLEAN
    BY <1>3, Zenon DEF ClientSession
  <2>2. HostTyped'
    BY <1>3, <2>1 DEF ClientSession, TypeInv, HostTyped
  <2> QED BY <1>3, <2>2, DiskSame, LocalSame, BudgetSame DEF ClientSession, TypeInv
<1> QED BY <1>1, <1>2, <1>3 DEF Clock

LEMMA OutageTyped == TypeInv /\ (Crash \/ Reboot) => TypeInv'
<1> SUFFICES ASSUME TypeInv, Crash \/ Reboot PROVE TypeInv'
  OBVIOUS
<1>1. BudgetTyped'
  BY DEF Crash, Reboot, TypeInv, BudgetTyped
<1>2. CASE Crash
  BY <1>1, <1>2, DiskSame, HostSame, Finished DEF Crash, TypeInv
<1>3. CASE Reboot
  <2>1. proof' \in BOOLEAN
    BY <1>3, Zenon DEF Reboot
  <2>2. timer' \in [Tx \X Kinds -> {"absent", "armed", "fired", "spent"}]
    BY <1>3 DEF Reboot, TypeInv, HostTyped
  <2>3. HostTyped'
    BY <1>3, <2>1, <2>2 DEF Reboot, TypeInv, HostTyped
  <2> QED BY <1>1, <1>3, <2>3, DiskSame, Finished DEF Reboot, TypeInv
<1> QED BY <1>2, <1>3

-----------------------------------------------------------------------------
(* The theorem *)

LEMMA TypeInit == Init => TypeInv
<1> SUFFICES ASSUME Init PROVE TypeInv
  OBVIOUS
<1>1. proof \in BOOLEAN /\ restored \in BOOLEAN /\ unitError \in BOOLEAN
  BY Zenon DEF Init
<1>2. DiskInv
  BY UniformTyped
     DEF Init, DiskInv, DiskTyped, DocType, JournalType, OutcomeType
<1>3. HostTyped
  BY <1>1 DEF Init, HostTyped
<1>4. LocalInv /\ OwnerInv
  BY <1>1, UniformTyped, IdleApart
     DEF Init, LocalInv, LocalTyped, OwnerInv
<1>5. BudgetTyped
  BY DEF Init, BudgetTyped
<1> QED BY <1>2, <1>3, <1>4, <1>5 DEF TypeInv

LEMMA TypeStep == TypeInv /\ [Next]_vars => TypeInv'
<1> SUFFICES ASSUME TypeInv, [Next]_vars PROVE TypeInv'
  OBVIOUS
<1>1. CASE Holder
  BY <1>1, ReconcileTyped, RestoreTyped, CleanupTyped, PrepareTyped, ActivateTyped,
     ConfirmTyped, RollbackTyped, ExpireTyped, ServiceTyped DEF Holder
<1>2. CASE UNCHANGED vars
  BY <1>2, DiskSame, HostSame, LocalSame, BudgetSame DEF vars, TypeInv
<1> QED BY <1>1, <1>2, ArriveTyped, ClockTyped, OutageTyped DEF Next

(* TypeInv is the inductive invariant; every reachable state satisfies it. *)
THEOREM TypeInvariant == Spec => []TypeInv
  BY TypeInit, TypeStep, PTL DEF Spec

(* Every state of the cutover is well typed: the journal and the outcome only  *)
(* ever name a real transaction and a known phase, and the interface always    *)
(* runs one of the two images or nothing.                                       *)
THEOREM TypeCorrect == Spec => []TypeOK
<1>1. TypeInv => TypeOK
  BY DEF TypeInv, TypeOK, DiskInv, LocalInv
<1> QED BY <1>1, TypeInvariant, PTL
=============================================================================
