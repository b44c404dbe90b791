----------------------------- MODULE Transition -----------------------------
(***************************************************************************)
(* The AWG 3.1 cutover of awgctl (src/src/awgctl/core.py): prepare,        *)
(* activate, confirm, operator rollback, timer rollback, client expiry and *)
(* service start/stop, each as the sequence of its durable steps, over     *)
(*   - the transition document, the activation journal and the outcome,    *)
(*     the three protected JSON files that survive a crash;                *)
(*   - the managed components and the runtime configuration on disk;       *)
(*   - the running interface (kernel), and                                 *)
(*   - the two systemd rollback timers of each transaction.                *)
(* One command at a time runs under the mutation lock, so `pc` describes   *)
(* the lock holder; a crash of that process or of the host may fall        *)
(* between any two steps.  Time is abstracted to which deadlines passed.   *)
(***************************************************************************)
EXTENDS Naturals, Sequences, FiniteSets

CONSTANTS Tx,           \* transaction identifiers (secrets.token_hex(16))
          Profiles,     \* managed client profiles
          None,         \* "no transaction"
          MaxCrashes,   \* bound: process crashes
          MaxReboots,   \* bound: host reboots
          MaxFailures,  \* bound: operations that fail without a crash
          Expires       \* whether some managed client carries an expiry date

ASSUME NoneAssumption == None \notin Tx
ASSUME BoundAssumption == MaxCrashes \in Nat /\ MaxReboots \in Nat /\ MaxFailures \in Nat
ASSUME ExpiresAssumption == Expires \in BOOLEAN

VARIABLES
  doc,        \* transitions/obfuscation.json
  journal,    \* transitions/obfuscation-activation.json
  outcome,    \* transitions/obfuscation-outcome.json
  pending,    \* transactions whose pending artifact directory exists
  live,       \* which image every managed component holds
  revision,   \* profile_revision of every managed client
  timer,      \* the two systemd timer/service pairs of each transaction
  due,        \* deadlines that have passed
  kernel,     \* what the interface runs, "down" when the service is inactive
  proof,      \* fresh handshake and both counters above the activation floor
  expiry,     \* the next client expiry: ahead, passed, or none left
  used,       \* identifiers already drawn
  cmd, tx, origin, stage, pc, step, saved, restored, unitError,   \* lock holder
  crashes, reboots, failures

disk   == <<doc, journal, outcome, pending, live, revision, used>>
host   == <<timer, due, kernel, proof, expiry>>
local  == <<cmd, tx, origin, stage, step, saved, restored, unitError>>
budget == <<crashes, reboots, failures>>
vars   == <<disk, host, local, pc, budget>>

-----------------------------------------------------------------------------
(* Values *)

Kinds      == {"final", "recovery"}
Images     == {"classic", "awg31", "absent"}
Managed    == {"config", "keys", "clients", "generated"}
Components == Managed \cup {"runtime"}
InstallOrder == <<"config", "keys", "clients">>
RestoreOrder == <<"config", "keys", "clients", "generated", "runtime">>

NoDoc     == [id |-> None, state |-> "none"]
NoJournal == [id |-> None, phase |-> "none"]
NoUpdates == [p \in {} |-> 0]
NoOutcome == [id |-> None, reason |-> "none", phase |-> "complete", updates |-> NoUpdates]

DocStates     == {"prepared", "active"}
JournalPhases == {"intent", "recovery-armed", "artifacts-installed", "reloaded",
                  "active", "final-armed"}
Reasons       == {"confirmed", "operator", "timeout", "activation-failed", "expiry"}
CleanupPhases == {"checkpoint", "metadata", "pending", "current", "complete"}

Uniform(image) == [c \in Components |-> image]
NextPhase == [checkpoint |-> "metadata", metadata |-> "pending",
              pending |-> "current", current |-> "complete"]

(* A command line the operator, systemd or the hook may run. *)
LockedCommands == {"prepare", "activate", "confirm", "rollback", "expire", "start", "stop", "boot"}

-----------------------------------------------------------------------------
(* Control of the lock holder *)

Goto(label) == pc' = label /\ UNCHANGED local

Finish ==           \* the command returns or raises: flock is released
  /\ pc' = "idle"
  /\ cmd' = "none" /\ tx' = None /\ origin' = "none" /\ stage' = "body"
  /\ step' = 0 /\ saved' = Uniform("classic") /\ restored' = FALSE /\ unitError' = FALSE

(* An exception.  Only the paths that have already replaced managed state   *)
(* answer it with the fail-safe stop of the interface.                      *)
Raise == IF restored THEN Goto("stop") ELSE Finish

MayFail == failures < MaxFailures /\ failures' = failures + 1 /\ UNCHANGED <<crashes, reboots>>

Healthy(image) == \A c \in Components : live[c] = image    \* ensure_no_drift, by mode
NoDrift == (Healthy("classic") \/ Healthy("awg31")) /\ expiry # "passed"

(* The transaction a rollback works on: the journal's while the lock entry   *)
(* reconciles, the command's argument otherwise.                             *)
Target == IF stage = "entry" THEN journal.id ELSE tx

RollbackReason ==
  IF stage = "entry" \/ cmd = "activate" THEN "activation-failed"
  ELSE IF cmd = "timeout" THEN "timeout" ELSE "operator"

-----------------------------------------------------------------------------
(* Acquisition of the mutation lock.  The timer services defer the          *)
(* reconciliation of their own transaction; everyone else begins with it.   *)

Acquire(c, t) ==
  /\ pc = "idle"
  /\ c \in {"activate", "confirm", "rollback"} => t \in used
  /\ c \in {"prepare", "expire", "start", "stop", "boot"} => t = None
  /\ c \in {"start", "boot"} => kernel = "down"
  /\ c = "stop" => kernel # "down"
  /\ cmd' = c /\ tx' = t /\ stage' = "entry" /\ pc' = "reconcile"
  /\ UNCHANGED <<disk, host, budget, origin, step, saved, restored, unitError>>

TimerService(t, k) ==
  /\ pc = "idle"
  /\ timer[<<t, k>>] = "fired"
  /\ cmd' = "timeout" /\ tx' = t /\ origin' = k /\ pc' = "body"
  /\ UNCHANGED <<disk, host, budget, stage, step, saved, restored, unitError>>

(* reconcile_transition_recovery_locked, the decision *)

CleanupIsDue ==
  outcome # NoOutcome /\ (outcome.phase # "complete" \/ doc.id = outcome.id)

ReconcileCleanup ==
  /\ pc = "reconcile" /\ CleanupIsDue
  /\ Goto("cleanup")
  /\ UNCHANGED <<disk, host, budget>>

ReconcileNothing ==
  /\ pc = "reconcile" /\ ~CleanupIsDue /\ journal = NoJournal
  /\ stage' = "body" /\ pc' = "body"
  /\ UNCHANGED <<disk, host, budget, cmd, tx, origin, step, saved, restored, unitError>>

ReconcileCompleted ==
  /\ pc = "reconcile" /\ ~CleanupIsDue /\ journal # NoJournal
  /\ journal.id = outcome.id
  /\ doc = NoDoc
  /\ Goto("units")
  /\ UNCHANGED <<disk, host, budget>>

(* "terminal cleanup does not match the current transition" or "activation   *)
(* recovery journal has no exact current transaction": the command is         *)
(* refused before its handler runs.  So is a boot whose hook runs under the     *)
(* hardened unit, where the transition files cannot be written.                 *)
HookIsConfined == cmd = "boot" /\ (CleanupIsDue \/ journal # NoJournal)

ReconcileRefused ==
  /\ pc = "reconcile"
  /\ \/ HookIsConfined
     \/ /\ ~CleanupIsDue /\ journal # NoJournal
        /\ doc.id # journal.id
        /\ journal.id = outcome.id => doc # NoDoc
  /\ Finish
  /\ UNCHANGED <<disk, host, budget>>

ReconcileRestore ==
  /\ pc = "reconcile" /\ ~CleanupIsDue /\ journal # NoJournal
  /\ journal.id # outcome.id /\ doc.id = journal.id
  /\ restored' = TRUE /\ pc' = "restore"
  /\ UNCHANGED <<disk, host, budget, cmd, tx, origin, stage, step, saved, unitError>>

-----------------------------------------------------------------------------
(* restore_obfuscation_backup *)

RestoreRejected ==      \* the backup's server config is stale for today's date
  /\ pc = "restore" /\ expiry = "passed"
  /\ Goto("stop")
  /\ UNCHANGED <<disk, host, budget>>

RestoreStaged ==
  /\ pc = "restore" /\ expiry # "passed"
  /\ saved' = live /\ step' = 1 /\ pc' = "replace"
  /\ UNCHANGED <<disk, host, budget, cmd, tx, origin, stage, restored, unitError>>

RestoreDisplace ==
  LET c == RestoreOrder[step] IN
  /\ pc = "replace" /\ step <= Len(RestoreOrder)
  /\ c \in Managed /\ live[c] # "absent"
  /\ live' = [live EXCEPT ![c] = "absent"]
  /\ Goto("replace")
  /\ UNCHANGED <<doc, journal, outcome, pending, revision, used, host, budget>>

RestorePlace ==
  LET c == RestoreOrder[step] IN
  /\ pc = "replace" /\ step <= Len(RestoreOrder)
  /\ c \in Managed => live[c] = "absent"
  /\ live' = [live EXCEPT ![c] = "classic"]
  /\ step' = step + 1
  /\ UNCHANGED <<doc, journal, outcome, pending, revision, used, host, budget,
                 cmd, tx, origin, stage, pc, saved, restored, unitError>>

RestoreNotReloaded ==   \* deviation: classic is on disk, the interface is not reloaded
  /\ pc = "replace" /\ step > Len(RestoreOrder)
  /\ kernel # "down"
  /\ Goto("outcome")
  /\ UNCHANGED <<disk, host, budget>>

RestoreReload ==        \* systemctl reload, then the verified postcondition
  /\ pc = "replace" /\ step > Len(RestoreOrder)
  /\ kernel # "down"
  /\ kernel' = live["runtime"]
  /\ Goto("outcome")
  /\ UNCHANGED <<disk, timer, due, proof, expiry, budget>>

(* A failed replacement, reload or verification: the displaced components    *)
(* and the previous runtime configuration are put back.                       *)
RestoreUndo ==
  /\ pc = "replace"
  /\ \/ step > Len(RestoreOrder) /\ kernel = "down" /\ UNCHANGED <<kernel, budget>>
     \/ step > Len(RestoreOrder) /\ kernel # "down" /\ MayFail
        /\ kernel' \in {kernel, live["runtime"]}
     \/ step <= Len(RestoreOrder) /\ MayFail /\ UNCHANGED kernel
  /\ live' = saved
  /\ Goto("stop")
  /\ UNCHANGED <<doc, journal, outcome, pending, revision, used, timer, due, proof, expiry>>

(* service_action("stop"), its own exception suppressed *)
FailSafeStop ==
  /\ pc = "stop"
  /\ \/ kernel' = "down" /\ UNCHANGED budget
     \/ MayFail /\ UNCHANGED kernel
  /\ Finish
  /\ UNCHANGED <<disk, timer, due, proof, expiry>>

-----------------------------------------------------------------------------
(* begin_transition_outcome *)

RecordOutcome(reason, updates) ==
  /\ doc.id = Target /\ Target # None
  /\ outcome.id # Target /\ outcome.phase = "complete"
  /\ outcome' = [id |-> Target, reason |-> reason, phase |-> "checkpoint",
                 updates |-> updates]
  /\ UNCHANGED <<doc, journal, pending, live, revision, used>>

BeginRolledBack ==
  /\ pc = "outcome"
  /\ \/ RecordOutcome(RollbackReason, NoUpdates) /\ Goto("cleanup") /\ UNCHANGED budget
     \/ MayFail /\ Raise /\ UNCHANGED disk
  /\ UNCHANGED host

(* resume_transition_cleanup: each side effect, then its checkpoint *)

CleaningUp(phase) ==
  /\ pc = "cleanup" /\ outcome.phase = phase
  /\ doc # NoDoc => doc.id = outcome.id

Advance ==
  /\ outcome' = [outcome EXCEPT !.phase = NextPhase[outcome.phase]]
  /\ UNCHANGED <<doc, journal, pending, live, revision, used>>

RepeatProfileUpdate(p) ==   \* deviation: the replay does not compare the revision
  /\ CleaningUp("checkpoint") /\ p \in DOMAIN outcome.updates
  /\ revision' = [revision EXCEPT ![p] = @ + 1]
  /\ Goto("cleanup")
  /\ UNCHANGED <<doc, journal, outcome, pending, live, used, host, budget>>

ApplyProfileUpdate(p) ==
  /\ CleaningUp("checkpoint") /\ p \in DOMAIN outcome.updates
  /\ revision[p] = outcome.updates[p]
  /\ revision' = [revision EXCEPT ![p] = @ + 1]
  /\ Goto("cleanup")
  /\ UNCHANGED <<doc, journal, outcome, pending, live, used, host, budget>>

ProfilesUpdated ==
  /\ CleaningUp("checkpoint")
  /\ \A p \in DOMAIN outcome.updates : revision[p] = outcome.updates[p] + 1
  /\ Advance /\ Goto("cleanup") /\ UNCHANGED <<host, budget>>

RemovePending ==
  /\ CleaningUp("metadata") /\ doc.id = outcome.id /\ outcome.id \in pending
  /\ pending' = pending \ {outcome.id}
  /\ Goto("cleanup")
  /\ UNCHANGED <<doc, journal, outcome, live, revision, used, host, budget>>

PendingRemoved ==
  /\ CleaningUp("metadata") /\ doc.id = outcome.id /\ outcome.id \notin pending
  /\ Advance /\ Goto("cleanup") /\ UNCHANGED <<host, budget>>

RemoveDocument ==
  /\ CleaningUp("pending") /\ doc # NoDoc
  /\ doc' = NoDoc
  /\ Goto("cleanup")
  /\ UNCHANGED <<journal, outcome, pending, live, revision, used, host, budget>>

DocumentForgotten ==    \* deviation: the checkpoint advances before the removal
  /\ CleaningUp("pending")
  /\ Advance /\ Goto("cleanup") /\ UNCHANGED <<host, budget>>

DocumentRemoved ==
  /\ CleaningUp("pending") /\ doc = NoDoc
  /\ Advance /\ Goto("cleanup") /\ UNCHANGED <<host, budget>>

SkipRecoveryCancel == stage = "body" /\ origin = "recovery"

CancelOwnRecovery ==
  /\ CleaningUp("current") /\ ~SkipRecoveryCancel
  /\ timer[<<outcome.id, "recovery">>] # "absent"
  /\ timer' = [timer EXCEPT ![<<outcome.id, "recovery">>] = "absent"]
  /\ Goto("cleanup")
  /\ UNCHANGED <<disk, due, kernel, proof, expiry, budget>>

CleanupComplete ==
  /\ CleaningUp("current")
  /\ SkipRecoveryCancel \/ timer[<<outcome.id, "recovery">>] = "absent"
  /\ Advance /\ Goto("cleanup") /\ UNCHANGED <<host, budget>>

CleanupFails ==
  /\ pc = "cleanup" /\ outcome.phase # "complete"
  /\ MayFail /\ Raise
  /\ UNCHANGED <<disk, host>>

(* "terminal cleanup does not match the current transition" *)
CleanupRefused ==
  /\ pc = "cleanup" /\ doc # NoDoc /\ doc.id # outcome.id
  /\ Raise
  /\ UNCHANGED <<disk, host, budget>>

(* What the caller of resume_transition_cleanup does next *)
CleanupReturns ==
  /\ CleaningUp("complete") /\ doc = NoDoc
  /\ \/ stage = "entry" /\ Goto(IF restored THEN "units" ELSE "reconcile")
     \/ stage = "body" /\ cmd \in {"rollback", "timeout"} /\ Goto("units")
     \/ stage = "body" /\ cmd = "activate" /\ Goto("journal")
     \/ stage = "body" /\ cmd = "expire" /\ Goto("expire")
     \/ stage = "body" /\ cmd = "confirm" /\ Finish
  /\ UNCHANGED <<disk, host, budget>>

-----------------------------------------------------------------------------
(* Timer units and the journal once an outcome is recorded: cleanup_units of *)
(* the rollback, and the tail of the reconciliation, which suppresses errors. *)

FirstKind  == IF stage = "body" /\ origin = "final" THEN "recovery" ELSE "final"
SecondKind == IF FirstKind = "final" THEN "recovery" ELSE "final"

RemoveUnit(k) ==
  \/ /\ timer' = [timer EXCEPT ![<<Target, k>>] = "absent"]
     /\ UNCHANGED <<unitError, budget>>
  \/ /\ MayFail
     /\ timer' \in {timer, [timer EXCEPT ![<<Target, k>>] = "absent"]}
     /\ unitError' = (stage = "body")

RemoveFirstUnit ==
  /\ pc = "units" /\ RemoveUnit(FirstKind) /\ pc' = "units2"
  /\ UNCHANGED <<disk, due, kernel, proof, expiry, cmd, tx, origin, stage, step, saved, restored>>

KeepSecondUnit ==       \* deviation: the originating pair is left installed
  /\ pc = "units2" /\ pc' = "units3"
  /\ UNCHANGED <<disk, host, budget, local>>

RemoveSecondUnit ==
  /\ pc = "units2" /\ RemoveUnit(SecondKind) /\ pc' = "units3"
  /\ UNCHANGED <<disk, due, kernel, proof, expiry, cmd, tx, origin, stage, step, saved, restored>>

UnitsRemoved ==
  /\ pc = "units3"
  /\ \/ unitError /\ Raise
     \/ ~unitError /\ stage = "body" /\ cmd = "rollback" /\ Finish
     \/ ~unitError /\ (stage = "entry" \/ cmd = "timeout") /\ Goto("journal")
  /\ UNCHANGED <<disk, host, budget>>

DeleteJournal ==        \* delete_activation_journal
  /\ pc = "journal"
  /\ journal' = NoJournal
  /\ \/ /\ stage = "entry"
        /\ stage' = "body" /\ pc' = "body" /\ restored' = FALSE /\ step' = 0
        /\ saved' = Uniform("classic")
        /\ UNCHANGED <<cmd, tx, origin, unitError>>
     \/ stage = "body" /\ Finish
  /\ UNCHANGED <<doc, outcome, pending, live, revision, used, host, budget>>

-----------------------------------------------------------------------------
(* cmd_obfuscation_prepare *)

Running(c) == pc = "body" /\ cmd = c

Refuse(c) == Running(c) /\ Finish /\ UNCHANGED <<disk, host, budget>>

PreparePending(t) ==
  /\ Running("prepare")
  /\ doc = NoDoc /\ Healthy("classic") /\ expiry # "passed"
  /\ t \notin used
  /\ used' = used \cup {t} /\ pending' = pending \cup {t}
  /\ tx' = t /\ pc' = "prepare"
  /\ UNCHANGED <<doc, journal, outcome, live, revision, host, budget,
                 cmd, origin, stage, step, saved, restored, unitError>>

PrepareDocument ==
  /\ pc = "prepare" /\ doc = NoDoc
  /\ doc' = [id |-> tx, state |-> "prepared"]
  /\ Finish
  /\ UNCHANGED <<journal, outcome, pending, live, revision, used, host, budget>>

PrepareFails ==
  /\ pc = "prepare" /\ MayFail
  /\ pending' = pending \ {tx}
  /\ Finish
  /\ UNCHANGED <<doc, journal, outcome, live, revision, used, host>>

PrepareRefused ==
  /\ ~(doc = NoDoc /\ Healthy("classic") /\ expiry # "passed" /\ used # Tx)
  /\ Refuse("prepare")

-----------------------------------------------------------------------------
(* cmd_obfuscation_activate and _install_active_transition *)

ActivationReady ==
  /\ doc = [id |-> tx, state |-> "prepared"]
  /\ Healthy("classic") /\ kernel = "classic" /\ expiry # "passed"
  /\ tx \in pending

ActivateChecked ==
  /\ Running("activate") /\ ActivationReady
  /\ Goto("arm")
  /\ UNCHANGED <<disk, host, budget>>

ActivateRefused == ~ActivationReady /\ Refuse("activate")

ArmTimer(t, k) ==       \* _arm_transition_timer, verified, with a new deadline
  /\ timer' = [timer EXCEPT ![<<t, k>>] = "armed"]
  /\ due' = due \ {<<t, k>>}

ArmRecovery ==
  /\ pc = "arm" /\ ArmTimer(tx, "recovery") /\ Goto("intent")
  /\ UNCHANGED <<disk, kernel, proof, expiry, budget>>

WriteJournalLabel(label, phase, next) ==    \* deviation: the label as the phase
  /\ pc = label
  /\ journal = NoJournal \/ journal.id = tx
  /\ journal' = [id |-> tx, phase |-> label]
  /\ UNCHANGED <<doc, outcome, pending, live, revision, used, host, budget,
                 cmd, tx, origin, stage, saved, restored, unitError>>
  /\ pc' = next /\ step' = IF next = "install" THEN 1 ELSE 0

WriteJournal(label, phase, next) ==
  /\ pc = label
  /\ journal = NoJournal \/ journal.id = tx
  /\ journal' = [id |-> tx, phase |-> phase]
  /\ UNCHANGED <<doc, outcome, pending, live, revision, used, host, budget,
                 cmd, tx, origin, stage, saved, restored, unitError>>
  /\ pc' = next /\ step' = IF next = "install" THEN 1 ELSE 0

JournalIntent    == WriteJournal("intent", "intent", "armed")
JournalArmed     == WriteJournal("armed", "recovery-armed", "install")
JournalInstalled == step > Len(InstallOrder)
                    /\ WriteJournal("install", "artifacts-installed", "commit")

InstallArtifact ==      \* install_pending_transition_snapshot, one file group
  /\ pc = "install" /\ step <= Len(InstallOrder)
  /\ live' = [live EXCEPT ![InstallOrder[step]] = "awg31"]
  /\ step' = step + 1
  /\ UNCHANGED <<doc, journal, outcome, pending, revision, used, host, budget,
                 cmd, tx, origin, stage, pc, saved, restored, unitError>>

CommitFile(label, c, next) ==
  /\ pc = label /\ live' = [live EXCEPT ![c] = "awg31"] /\ Goto(next)
  /\ UNCHANGED <<doc, journal, outcome, pending, revision, used, host, budget>>

CommitGenerated == CommitFile("commit", "generated", "commit2")
CommitRuntime   == CommitFile("commit2", "runtime", "reload")

CommitReload ==
  /\ pc = "reload" /\ kernel # "down"
  /\ kernel' = live["runtime"]
  /\ Goto("reloaded")
  /\ UNCHANGED <<disk, timer, due, proof, expiry, budget>>

(* The reload fails: commit_server_config restores both files and reloads    *)
(* again, whose result it only reports.                                       *)
CommitReloadFails ==
  /\ pc = "reload" /\ MayFail
  /\ live' = [live EXCEPT !["generated"] = "classic", !["runtime"] = "classic"]
  /\ kernel' \in {"classic", live["runtime"]}
  /\ Goto("failed")
  /\ UNCHANGED <<doc, journal, outcome, pending, revision, used, timer, due, proof, expiry>>

JournalReloaded == WriteJournal("reloaded", "reloaded", "activate")

InTime == <<tx, "recovery">> \notin due

ActivateDocument ==     \* compare_and_swap_transition(prepared -> active)
  /\ pc = "activate" /\ InTime /\ expiry # "passed"
  /\ doc = [id |-> tx, state |-> "prepared"]
  /\ doc' = [doc EXCEPT !.state = "active"]
  /\ due' = due \ {<<tx, "final">>}
  /\ proof' = FALSE
  /\ Goto("activated")
  /\ UNCHANGED <<journal, outcome, pending, live, revision, used, timer, kernel, expiry, budget>>

JournalActive == WriteJournal("activated", "active", "armFinal")

FinalNotArmed ==        \* deviation: activation goes on without the final timer
  /\ pc = "armFinal" /\ InTime
  /\ Goto("prove")
  /\ UNCHANGED <<disk, host, budget>>

ArmFinal ==             \* the deadline is the one recorded in the document
  /\ pc = "armFinal" /\ InTime
  /\ timer' = [timer EXCEPT ![<<tx, "final">>] = "armed"]
  /\ Goto("prove")
  /\ UNCHANGED <<disk, due, kernel, proof, expiry, budget>>

JournalFinalArmed == InTime /\ WriteJournal("prove", "final-armed", "cancelRecovery")

CancelRecovery ==
  /\ pc = "cancelRecovery"
  /\ timer' = [timer EXCEPT ![<<tx, "recovery">>] = "absent"]
  /\ Goto("cancelled")
  /\ UNCHANGED <<disk, due, kernel, proof, expiry, budget>>

ActivationCommitted ==
  /\ pc = "cancelled" /\ InTime
  /\ journal' = NoJournal
  /\ Finish
  /\ UNCHANGED <<doc, outcome, pending, live, revision, used, host, budget>>

ActivationOverdue ==    \* the recovery deadline, or the expiry window, was reached
  /\ \/ pc \in {"activate", "armFinal", "prove", "cancelled"} /\ ~InTime
     \/ pc = "activate" /\ expiry = "passed"
  /\ Goto("failed")
  /\ UNCHANGED <<disk, host, budget>>

ActivationPcs == {"arm", "intent", "armed", "install", "commit", "commit2", "reloaded",
                  "activate", "activated", "armFinal", "prove", "cancelRecovery", "cancelled"}

ActivationFails ==
  /\ pc \in ActivationPcs /\ MayFail
  /\ Goto("failed")
  /\ UNCHANGED <<disk, host>>

(* The handler's except clause: the final timer is cancelled, errors          *)
(* suppressed, and classic is restored.                                       *)
ActivationAbandoned ==
  /\ pc = "failed"
  /\ \/ timer' = [timer EXCEPT ![<<tx, "final">>] = "absent"] /\ UNCHANGED budget
     \/ MayFail /\ UNCHANGED timer
  /\ restored' = TRUE /\ pc' = "restore"
  /\ UNCHANGED <<disk, due, kernel, proof, expiry, cmd, tx, origin, stage, step, saved, unitError>>

-----------------------------------------------------------------------------
(* cmd_obfuscation_confirm *)

ConfirmReady ==
  /\ doc = [id |-> tx, state |-> "active"] /\ outcome.id # tx
  /\ <<tx, "final">> \notin due
  /\ Healthy("awg31") /\ kernel = "awg31" /\ proof /\ expiry # "passed"

ConfirmAgain ==         \* idempotent: the checkpoint of this transaction resumes
  /\ Running("confirm") /\ outcome.id = tx /\ outcome.reason = "confirmed"
  /\ Goto("cleanup")
  /\ UNCHANGED <<disk, host, budget>>

ConfirmChecked ==
  /\ Running("confirm") /\ ConfirmReady
  /\ Goto("confirmArm")
  /\ UNCHANGED <<disk, host, budget>>

ConfirmRefused ==
  /\ ~ConfirmReady /\ ~(outcome.id = tx /\ outcome.reason = "confirmed")
  /\ Refuse("confirm")

ConfirmUnarmed ==       \* deviation: no recovery timer before the final one goes
  /\ pc = "confirmArm" /\ Goto("confirmCancel")
  /\ UNCHANGED <<disk, host, budget>>

ConfirmArmRecovery ==
  /\ pc = "confirmArm" /\ ArmTimer(tx, "recovery") /\ Goto("confirmCancel")
  /\ UNCHANGED <<disk, kernel, proof, expiry, budget>>

ConfirmCancelFinal ==
  /\ pc = "confirmCancel"
  /\ timer' = [timer EXCEPT ![<<tx, "final">>] = "absent"]
  /\ Goto("confirmed")
  /\ UNCHANGED <<disk, due, kernel, proof, expiry, budget>>

ConfirmOutcome ==
  /\ pc = "confirmed"
  /\ RecordOutcome("confirmed", revision)
  /\ Goto("cleanup")
  /\ UNCHANGED <<host, budget>>

ConfirmPcs == {"confirmArm", "confirmCancel", "confirmed"}

ConfirmFails ==
  /\ pc \in ConfirmPcs /\ MayFail
  /\ Finish
  /\ UNCHANGED <<disk, host>>

-----------------------------------------------------------------------------
(* _rollback_obfuscation_transition, for the operator and for both timers *)

EnsureCleanupJournal ==     \* a timer leaves a checkpoint before anything else
  journal' = IF origin # "none" /\ journal = NoJournal
             THEN [id |-> tx, phase |-> IF origin = "recovery" THEN "recovery-armed"
                                        ELSE "final-armed"]
             ELSE journal

RollbackCommand == cmd \in {"rollback", "timeout"}
ForeignJournal  == origin # "none" /\ journal # NoJournal /\ journal.id # tx

RollbackAgain ==
  /\ pc = "body" /\ RollbackCommand /\ outcome.id = tx /\ ~ForeignJournal
  /\ EnsureCleanupJournal /\ Goto("cleanup")
  /\ UNCHANGED <<doc, outcome, pending, live, revision, used, host, budget>>

MayRollbackAny == doc # NoDoc   \* deviation: the identifier is not compared

MayRollback == doc.id = tx /\ (origin = "final" => doc.state = "active")

RollbackStartUnchecked ==   \* deviation: the recorded outcome is not consulted
  /\ pc = "body" /\ RollbackCommand /\ MayRollback /\ ~ForeignJournal
  /\ EnsureCleanupJournal
  /\ restored' = TRUE /\ pc' = "restore"
  /\ UNCHANGED <<doc, outcome, pending, live, revision, used, host, budget,
                 cmd, tx, origin, stage, step, saved, unitError>>

RollbackStart ==
  /\ pc = "body" /\ RollbackCommand /\ outcome.id # tx /\ MayRollback /\ ~ForeignJournal
  /\ EnsureCleanupJournal
  /\ restored' = TRUE /\ pc' = "restore"
  /\ UNCHANGED <<doc, outcome, pending, live, revision, used, host, budget,
                 cmd, tx, origin, stage, step, saved, unitError>>

RollbackRefused ==
  /\ pc = "body" /\ RollbackCommand
  /\ \/ outcome.id = tx /\ ForeignJournal
     \/ outcome.id # tx /\ ~MayRollback
  /\ Finish
  /\ UNCHANGED <<disk, host, budget>>

(* "automatic rollback checkpoint could not be proven; interface stopped" *)
RollbackCheckpointFails ==
  /\ pc = "body" /\ RollbackCommand /\ outcome.id # tx /\ MayRollback
  /\ \/ ForeignJournal /\ UNCHANGED budget
     \/ origin # "none" /\ ~ForeignJournal /\ MayFail
  /\ Goto("stop")
  /\ UNCHANGED <<disk, host>>

-----------------------------------------------------------------------------
(* cmd_expire_clients: ends a prepared transition, then removes the peer *)

ExpireRefused ==
  /\ doc.state = "active" \/ (expiry = "passed" /\ ~(Healthy("classic") \/ Healthy("awg31")))
  /\ Refuse("expire")

ExpireNothing == doc.state # "active" /\ expiry # "passed" /\ Refuse("expire")

ExpireReady == doc.state # "active" /\ expiry = "passed"
               /\ (Healthy("classic") \/ Healthy("awg31"))

ExpirePrepared ==
  /\ Running("expire") /\ ExpireReady /\ doc # NoDoc
  /\ outcome.phase = "complete"
  /\ outcome' = [id |-> doc.id, reason |-> "expiry", phase |-> "checkpoint",
                 updates |-> NoUpdates]
  /\ Goto("cleanup")
  /\ UNCHANGED <<doc, journal, pending, live, revision, used, host, budget>>

ExpireIdle ==
  /\ Running("expire") /\ ExpireReady /\ doc = NoDoc
  /\ Goto("expire")
  /\ UNCHANGED <<disk, host, budget>>

ExpireCommit ==
  /\ pc = "expire" /\ expiry' = "none"
  /\ Finish
  /\ UNCHANGED <<disk, timer, due, kernel, proof, budget>>

ExpireFails ==
  /\ pc = "expire" /\ MayFail /\ Finish /\ UNCHANGED <<disk, host>>

-----------------------------------------------------------------------------
(* awgctl start and stop, and systemd starting the unit: the PostUp hook     *)
(* refuses while a transition document exists (mutation_lock, service         *)
(* lifecycle), and awg-quick then takes the interface down again.             *)

StartService ==
  /\ pc = "body" /\ cmd \in {"start", "boot"} /\ doc = NoDoc
  /\ cmd = "start" => NoDrift
  /\ kernel' = live["runtime"]
  /\ Finish
  /\ UNCHANGED <<disk, timer, due, proof, expiry, budget>>

StartRefused ==
  /\ pc = "body" /\ cmd \in {"start", "boot"}
  /\ doc # NoDoc \/ (cmd = "start" /\ ~NoDrift)
  /\ Finish
  /\ UNCHANGED <<disk, host, budget>>

StopService ==
  /\ Running("stop") /\ doc = NoDoc
  /\ kernel' = "down"
  /\ Finish
  /\ UNCHANGED <<disk, timer, due, proof, expiry, budget>>

StopRefused == doc # NoDoc /\ Refuse("stop")

-----------------------------------------------------------------------------
(* The environment: time, systemd, the managed client, crashes *)

(* Deadlines are minutes away while a command runs; the final deadline of an *)
(* activation is never before its recovery deadline, and a recovery deadline *)
(* armed by confirm is never before the final one.                           *)
DeadlinePasses(t, k) ==
  /\ timer[<<t, k>>] = "armed" \/ (doc = [id |-> t, state |-> "active"] /\ k = "final")
     \/ (pc = "cancelled" /\ tx = t /\ k = "recovery")
  /\ <<t, k>> \notin due
  /\ (pc \in ActivationPcs /\ k = "final") => <<t, "recovery">> \in due
  /\ (pc \in ConfirmPcs /\ k = "recovery") => <<t, "final">> \in due
  /\ due' = due \cup {<<t, k>>}
  /\ UNCHANGED <<disk, timer, kernel, proof, expiry, local, pc, budget>>

TimerElapses(t, k) ==
  /\ timer[<<t, k>>] = "armed" /\ <<t, k>> \in due
  /\ timer' = [timer EXCEPT ![<<t, k>>] = "fired"]
  /\ UNCHANGED <<disk, due, kernel, proof, expiry, local, pc, budget>>

(* ensure_activation_window: no client expires before the rollback deadline *)
ExpiryPasses ==
  /\ expiry = "ahead"
  /\ doc.state = "active" => <<doc.id, "final">> \in due
  /\ expiry' = "passed"
  /\ UNCHANGED <<disk, timer, due, kernel, proof, local, pc, budget>>

(* Handshakes and traffic after the activation, and their going stale: one    *)
(* older than 180 seconds proves nothing.                                      *)
ClientSession ==
  /\ kernel = "awg31" /\ doc.state = "active"
  /\ proof' = ~proof
  /\ UNCHANGED <<disk, timer, due, kernel, expiry, local, pc, budget>>

Crash ==                \* the lock holder dies; a failed oneshot is retried
  /\ pc # "idle" /\ crashes < MaxCrashes
  /\ crashes' = crashes + 1
  /\ Finish
  /\ UNCHANGED <<disk, host, reboots, failures>>

(* The interface, the lock and running services are gone.  Enabled timers     *)
(* start again; one that already elapsed has its persistent stamp and does    *)
(* not elapse a second time.                                                   *)
Reboot ==
  /\ reboots < MaxReboots
  /\ reboots' = reboots + 1
  /\ kernel' = "down" /\ proof' = FALSE
  /\ timer' = [u \in Tx \X Kinds |-> IF timer[u] = "fired" THEN "spent" ELSE timer[u]]
  /\ Finish
  /\ UNCHANGED <<disk, due, expiry, crashes, failures>>

-----------------------------------------------------------------------------
Init ==
  /\ doc = NoDoc /\ journal = NoJournal /\ outcome = NoOutcome
  /\ pending = {} /\ live = Uniform("classic") /\ used = {}
  /\ revision = [p \in Profiles |-> 1]
  /\ timer = [u \in Tx \X Kinds |-> "absent"] /\ due = {}
  /\ kernel = "classic" /\ proof = FALSE
  /\ expiry = IF Expires THEN "ahead" ELSE "none"
  /\ cmd = "none" /\ tx = None /\ origin = "none" /\ stage = "body" /\ pc = "idle"
  /\ step = 0 /\ saved = Uniform("classic") /\ restored = FALSE /\ unitError = FALSE
  /\ crashes = 0 /\ reboots = 0 /\ failures = 0

Reconcile ==
  \/ ReconcileCleanup \/ ReconcileNothing \/ ReconcileCompleted
  \/ ReconcileRefused \/ ReconcileRestore

Restore ==
  \/ RestoreRejected \/ RestoreStaged \/ RestoreDisplace \/ RestorePlace
  \/ RestoreReload \/ RestoreUndo \/ FailSafeStop \/ BeginRolledBack

Cleanup ==
  \/ \E p \in Profiles : ApplyProfileUpdate(p)
  \/ ProfilesUpdated \/ RemovePending \/ PendingRemoved \/ RemoveDocument
  \/ DocumentRemoved \/ CancelOwnRecovery \/ CleanupComplete \/ CleanupFails
  \/ CleanupRefused \/ CleanupReturns
  \/ RemoveFirstUnit \/ RemoveSecondUnit \/ UnitsRemoved \/ DeleteJournal

Prepare ==
  \/ \E t \in Tx : PreparePending(t)
  \/ PrepareDocument \/ PrepareFails \/ PrepareRefused

Activate ==
  \/ ActivateChecked \/ ActivateRefused \/ ArmRecovery \/ JournalIntent \/ JournalArmed
  \/ InstallArtifact \/ JournalInstalled \/ CommitGenerated \/ CommitRuntime
  \/ CommitReload \/ CommitReloadFails \/ JournalReloaded \/ ActivateDocument
  \/ JournalActive \/ ArmFinal \/ JournalFinalArmed \/ CancelRecovery
  \/ ActivationCommitted \/ ActivationOverdue \/ ActivationFails \/ ActivationAbandoned

Confirm ==
  \/ ConfirmAgain \/ ConfirmChecked \/ ConfirmRefused \/ ConfirmArmRecovery
  \/ ConfirmCancelFinal \/ ConfirmOutcome \/ ConfirmFails

Rollback ==
  \/ RollbackAgain \/ RollbackStart \/ RollbackRefused \/ RollbackCheckpointFails

Expire ==
  \/ ExpireRefused \/ ExpireNothing \/ ExpirePrepared \/ ExpireIdle
  \/ ExpireCommit \/ ExpireFails

Service == StartService \/ StartRefused \/ StopService \/ StopRefused

Holder ==               \* a step of whoever holds the mutation lock
  Reconcile \/ Restore \/ Cleanup \/ Prepare \/ Activate \/ Confirm \/ Rollback
  \/ Expire \/ Service

Arrive ==
  \/ \E c \in LockedCommands : \E t \in Tx \cup {None} : Acquire(c, t)
  \/ \E t \in Tx, k \in Kinds : TimerService(t, k)

Clock ==
  \/ \E t \in Tx, k \in Kinds : DeadlinePasses(t, k) \/ TimerElapses(t, k)
  \/ ExpiryPasses

Next == Holder \/ Arrive \/ Clock \/ ClientSession \/ Crash \/ Reboot

Spec == Init /\ [][Next]_vars

(* A command that holds the lock runs on; deadlines come; an elapsed timer's   *)
(* service is retried every five seconds without a start limit, and the expiry *)
(* timer runs daily, so each of them wins the lock if it is free again and     *)
(* again; systemd starts the enabled unit.  Operators and failures are free.   *)
Fairness ==
  /\ WF_vars(Holder)
  /\ \A t \in Tx, k \in Kinds :
       /\ WF_vars(DeadlinePasses(t, k)) /\ WF_vars(TimerElapses(t, k))
       /\ SF_vars(TimerService(t, k))
  /\ SF_vars(Acquire("expire", None)) /\ SF_vars(Acquire("boot", None))

FairSpec == Spec /\ Fairness

(* The operator, besides, keeps asking for the rollback. *)
InsistentSpec == FairSpec /\ \A t \in Tx : SF_vars(Acquire("rollback", t))

-----------------------------------------------------------------------------
(* Properties *)

DocType     == [id : Tx, state : DocStates] \cup {NoDoc}
JournalType == [id : Tx, phase : JournalPhases] \cup {NoJournal}
UpdateType  == [Profiles -> Nat] \cup {NoUpdates}
OutcomeType == [id : Tx, reason : Reasons, phase : CleanupPhases, updates : UpdateType]
               \cup {NoOutcome}

SharedPcs == {"idle", "reconcile", "body", "cleanup", "restore", "replace", "outcome",
              "stop", "units", "units2", "units3", "journal", "expire", "failed"}
Labels == SharedPcs \cup ConfirmPcs \cup ActivationPcs \cup {"reload", "prepare"}

DiskTyped ==
  /\ doc \in DocType /\ journal \in JournalType /\ outcome \in OutcomeType
  /\ pending \subseteq Tx /\ used \subseteq Tx
  /\ live \in [Components -> Images] /\ revision \in [Profiles -> Nat]

HostTyped ==
  /\ timer \in [Tx \X Kinds -> {"absent", "armed", "fired", "spent"}]
  /\ due \subseteq Tx \X Kinds
  /\ kernel \in {"classic", "awg31", "down"}
  /\ proof \in BOOLEAN /\ expiry \in {"ahead", "passed", "none"}

LocalTyped ==
  /\ cmd \in LockedCommands \cup {"none", "timeout"} /\ tx \in Tx \cup {None}
  /\ origin \in Kinds \cup {"none"} /\ stage \in {"entry", "body"}
  /\ step \in 0..6 /\ saved \in [Components -> Images]
  /\ restored \in BOOLEAN /\ unitError \in BOOLEAN

BudgetTyped == crashes \in Nat /\ reboots \in Nat /\ failures \in Nat

TypeOK == DiskTyped /\ HostTyped /\ LocalTyped /\ pc \in Labels /\ BudgetTyped

Ended(t) == outcome # NoOutcome /\ outcome.id = t

(* Once a transaction is confirmed, no timer, retry, reconciliation or late   *)
(* rollback puts a classic component back, whatever crashed in between.       *)
ConfirmedStaysAwg31 ==
  outcome.reason = "confirmed" => Healthy("awg31") /\ kernel # "classic"

(* From the moment a rollback is recorded as the outcome until another        *)
(* transaction is prepared, every component is classic and the interface      *)
(* runs classic or is stopped: no mixture of the two images is left behind.   *)
RolledBackIsClassic ==
  (outcome # NoOutcome /\ outcome.reason # "confirmed" /\ doc.id \in {outcome.id, None})
     => Healthy("classic") /\ kernel # "awg31"

(* Nobody holding the lock, an unconfirmed AWG 3.1 interface has a way back:  *)
(* a timer that will fire or is being retried, or the journal that makes the  *)
(* next command roll it back.                                                  *)
UnconfirmedIsGuarded ==
  (pc = "idle" /\ doc # NoDoc /\ ~Ended(doc.id) /\ kernel = "awg31")
     => \/ journal.id = doc.id
        \/ \E k \in Kinds : timer[<<doc.id, k>>] \in {"armed", "fired"}

(* The cleanup checkpoint never runs ahead of its side effects: a phase says  *)
(* exactly which artifacts of the transaction may still exist, so a resumed    *)
(* cleanup can neither lose an artifact nor find one it must not find.         *)
CheckpointMatchesArtifacts ==
  outcome # NoOutcome =>
    /\ outcome.phase \in {"checkpoint", "metadata"} => doc.id = outcome.id
    /\ outcome.phase \in {"current", "complete"} => doc.id # outcome.id
    /\ outcome.phase \in {"pending", "current", "complete"} => outcome.id \notin pending
    /\ outcome.phase # "complete" => doc.id \in {outcome.id, None}

(* A confirmation raises every managed profile's revision exactly once,        *)
(* however often the checkpoint is replayed.                                    *)
RevisedExactlyOnce ==
  outcome.reason = "confirmed" =>
    \A p \in Profiles :
      /\ revision[p] \in {outcome.updates[p], outcome.updates[p] + 1}
      /\ outcome.phase # "checkpoint" => revision[p] = outcome.updates[p] + 1

(* Nobody holding the lock, the activation journal belongs to the current      *)
(* transaction, or to the completed one while no other is current: otherwise   *)
(* every later command is refused at the lock.                                  *)
JournalHasOwner ==
  (pc = "idle" /\ journal # NoJournal) =>
    \/ journal.id = doc.id
    \/ journal.id = outcome.id /\ doc.id \in {outcome.id, None}

(* A timer of another transaction than the current one changes neither that    *)
(* transaction nor the configuration it runs: a stale timer cannot roll back a   *)
(* later cutover.                                                                *)
StaleTimerHarmless ==
  [][(Holder /\ cmd = "timeout" /\ doc # NoDoc /\ doc.id # tx)
       => UNCHANGED <<doc, outcome, live, revision, kernel>>]_vars

(* The transaction as TransitionLifecycle sees it: it is over as soon as its     *)
(* outcome is recorded, whatever is left to clean up.                            *)
Lifecycle == INSTANCE TransitionLifecycle WITH
  current <- IF doc.id = outcome.id THEN NoDoc ELSE doc,
  last    <- [id |-> outcome.id, reason |-> outcome.reason],
  mode    <- kernel

Implements == Lifecycle!Spec

(* An activated transaction is confirmed or rolled back: nothing leaves it      *)
(* active for ever.                                                              *)
ActiveResolves ==
  \A t \in Tx : (doc = [id |-> t, state |-> "active"]) ~> Ended(t)

(* A rollback timer that elapsed is eventually disposed of: its service does not *)
(* fail and restart for ever.                                                    *)
TimersDrain ==
  \A t \in Tx, k \in Kinds : timer[<<t, k>>] = "fired" ~> timer[<<t, k>>] # "fired"

(* A prepared transaction whose rollback the operator keeps requesting ends.     *)
RollbackSucceeds ==
  \A t \in Tx : (doc.id = t) ~> (doc.id # t)
=============================================================================
