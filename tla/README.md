# TLA+ model of amneziawg-manager

`awgctl` manages one AmneziaWG interface of a host: its configuration and keys,
its clients, its firewall, its systemd unit, and the cutover of the interface
from the *classic* protocol to AWG 3.1. `awginstall` deploys releases of it.
This directory holds TLA+ modules translated from the Python sources, the TLC
configurations that check them on small instances, and proofs checked by TLAPS.
`PROJECT.json` maps every definition to the source lines it stands for. Line
numbers below are those of `src/awgctl/core.py` unless a file is named.

## 1. The system

| Part | State it keeps | Operations | Here |
|---|---|---|---|
| Transition (cutover) | `transitions/obfuscation.json` (document), `obfuscation-activation.json` (journal), `obfuscation-outcome.json` (outcome and cleanup checkpoint), `pending/<id>/` | prepare 6502, activate 6737, confirm 6937, rollback 7072, reconciliation 6293, cleanup 6121 | `Transition` |
| Rollback timers | two systemd timer/service pairs per transaction (5525-5910) | arm, verify, cancel, elapse, retry | `Transition` |
| Mutation lock | a `flock` on a file under `/run`, re-entrant per process (350-479) | acquire with the entry checks, release around systemctl | `Transition` (holder), `ServiceOp` |
| Service operation | a service intent (899-1074), the unit's state, the nftables table | start/stop/restart 3056, hooks 2786, reconcile 3005, compensate 2952 (reload, which records no intent, 3064) | `ServiceOp`; effect and reload in `Transition` |
| Managed state | `config.json`, `keys/`, `clients/`, `generated/`, the runtime configuration of awg-quick | `commit_server_config` 3137, drift check 2294, `config set` | `ClientState`; images in `Transition` |
| Clients | client metadata, profiles and keys, archive | add, import, edit, revoke, rotate, expire (7376-8191) | `ClientState`; expiry in `Transition` |
| Backups | backup directories and their manifests | create 3299, restore 3612, validate 3528 | `ClientState`; restore of the cutover in `Transition`; retention not modelled |
| Migration, fresh initialisation | the same files, schema 1 to 2 | 8887, 8988 | `ClientState` (fresh host and hand-made server) |
| Update and deployment | release directories, the selecting link, entry points (`awginstall/deploy.py`, `releases.py`) | stage, publish, select, roll back | `Installer` |
| Installer host changes | accounts, sudoers, drop-in, units, timer, `installation.json` (`awginstall/host.py`, `identity.py`, `settings.py`) | configure, install, adopt, upgrade, undo (`awginstall/cli.py`) | `Installer`; the worker handshake not modelled |
| Command line, contracts, diagnostics, self-test, tools | none across commands | parse, format, report | not modelled |

How they interact: every command of `awgctl` that changes state runs in its own
process under the mutation lock. On entry (`mutation_lock`, 350-450) it refuses
while a live process owns a service intent, finishes or compensates an abandoned
one, and reconciles the transition: an unfinished cleanup checkpoint is resumed,
a journal left by a crash rolls its transaction back. The rollback timer
services skip that last part, since they are the recovery. `service_action`
writes an intent, releases the lock around `systemctl`, and the unit's PostUp
and PostDown hooks, separate processes, take the lock and are let through by
the intent; a hook that finds no intent (a boot, a manual `systemctl start`) is
refused while a transition document exists. Processes share nothing but files,
the interface and systemd, and each may die between any two system calls.
`install.py` and `awgctl update` deploy through the same functions and, unlike
the other commands, exclude nobody: they may overlap.

Hard behaviours: crashes between a durable effect and the record of it; two
timers, an operator and the daily expiry racing for one lock; timers that
survive the transaction, and the reboot, they were made for; a lock given up in
the middle of a command; compensation that can itself fail; deadlines crossed
while the work that must beat them runs. `PROJECT.json` lists each under
"hazards" with its line and the property that covers it.

What makes each part correct:

- *Transition*: classic and AWG 3.1 never mix once an outcome is recorded; a
  confirmation is final; an active, unconfirmed transaction always has a way
  back and takes it; replaying a checkpoint repeats and loses nothing; a timer
  acts on its own transaction only.
- *Service operation*: a hook changes the firewall only for an intent in force;
  interface and firewall end together, up or down; an abandoned intent is
  finished or compensated before anything else happens.
- *Clients and configuration*: metadata, keys, generated and runtime
  configuration and the interface agree after every command that reports
  success or a verified rollback; a removed peer is never served again.
- *Backups*: a restore that reports success makes the host consistent again,
  whatever happened before; one that fails leaves it as it was.
- *Deployment*: `bin/awgctl` never selects a release that is not there, and a
  release in place never changes; a failed run leaves the host as it found it;
  `installation.json` never stands without the accounts it vouches for, since the
  next run believes it.

## 2. Modules

| Module | Contents |
|---|---|
| `Transition` | the cutover with its durable files, timers, lock holder, crashes, reboots, failing operations |
| `TransitionLifecycle` | what the cutover promises, without any of those |
| `MCTransition` | instances of `Transition` for TLC |
| `TransitionProofs` | the type invariant of `Transition`, proved |
| `TransitionCleanupProofs` | the cleanup checkpoint and harmless stale timers, proved |
| `TransitionOutcomeProofs` | what confirmation, rollback and an open transition leave behind, the revisions, and the refinement of `TransitionLifecycle`, proved |
| `ServiceOp` | start, stop and restart of the unit: intent, lock given up around systemctl, hooks, systemd, Docker, deaths, timeouts |
| `ServiceSwitch` | what a service operation promises, without locks, intents and hooks |
| `MCServiceOp` | instances of `ServiceOp` for TLC |
| `ServiceOpProofs` | types of `ServiceOp`, and the intent stays its owner's, proved |
| `ServiceSwitchProofs` | no firewall is loaded while a transition is open; the refinement of `ServiceSwitch`; without Docker, "stopped" is true when reported: proved |
| `ClientState` | the client commands, `config set`, initialisation, migration, expiry and restore as programs of durable steps over files and interface, with failures, compensation, kills, reboots and the calendar |
| `ClientRegistry` | what those commands promise: each is atomic as it is reported |
| `MCClientState` | instances of `ClientState` for TLC |
| `ClientProofs` | types of `ClientState`, and retired keys stay out of the interface, proved |
| `ClientFilesProofs` | a host at rest is consistent; the refinement of `ClientRegistry`: proved |
| `Installer` | configure, install, adopt, upgrade and update: accounts, policy files, timer, entry points, releases, and the compensation of each |
| `MCInstaller` | the instance of `Installer` for TLC |
| `InstallerProofs` | types of `Installer`; the selected release is there and releases are immutable; installation.json stands with its accounts, entry points lead to a product, the next run is accepted, a reported success is complete, a reported failure is undone: proved |

### Transition

State. `doc`, `journal`, `outcome`, `pending` are the four kinds of durable
files of a transition; `live` says for each managed component, and for the
runtime configuration, whether the file on disk is the classic image, the AWG
3.1 image or (between two renames of a restore) missing; `revision` holds the
profile revisions that a confirmation raises; `timer` and `due` are systemd's
view of the two pairs of each transaction and which deadlines have passed;
`kernel` is what the interface runs; `proof` whether the managed client has a
fresh handshake and rising counters; `expiry` whether a client's expiry date is
ahead, passed or dealt with; `used` the identifiers drawn. The rest describes the process
that holds the lock: `cmd`, `tx` (its argument), `origin` (the timer it was
started by), `stage` (reconciling on entry, or the handler's body), `pc`,
`step` (next file group), `saved` (displaced components), `restored` (an
exception is now answered by the fail-safe stop), `unitError`.

Actions. One per durable step, in the order of the code, so a crash may fall
between any two: `Prepare`, `Activate` (`_install_active_transition` 6363-6499
and the except clause of 6831), `Confirm`, `Rollback`, `Expire`, `Service`,
and the shared `Reconcile` (6293-6360), `Restore` (6209-6290) and `Cleanup`
(6121-6185, 7098-7140). `Acquire` and `TimerService` are a process winning the
lock. A failure of a step is the same disjunct or action with `MayFail`, and
`Crash` and `Reboot` end the holder anywhere.

Abstractions. The contents of files are their image; digests, snapshots and
schema checks are the predicates `Healthy`, `NoDrift`, `ActivationReady`. Time
is which deadlines passed: the final deadline of an activation (ten minutes from
a later instant) is never before its recovery deadline, the recovery deadline
armed by confirm is never before the final one, and a client expiry never falls
inside the activation window (`ensure_activation_window`, 5089). A command
shorter than a deadline is not assumed. `service_action` is one step here: the
lock released inside it is the subject of `ServiceOp`. Its reload needs an
active unit; its stop may fail. One backup exists per transaction and it is
classic and complete. An identifier is never drawn twice. The archive of
revoked clients is not among the components: the cutover does not change it. A
boot whose hook runs in the hardened unit (`awginstall/sandbox.py`: the
transition files are read-only there) is refused where it would have to
reconcile, and one in an unhardened unit reconciles: both are behaviours.
Three compound steps are coarse: `RestoreUndo` puts the displaced components back
in one step that does not fail (6274-6290; half of it is a mixture again, which the
next reconciliation treats like any other), `CommitReloadFails` both files with the
second reload (3157-3172), and a check that `activate` repeats after 6769 and that
raises is a plain refusal, since what fails later is `ActivationFails`.

### ServiceOp

State. `intent` is `/run/awgctl/service-operation.json`; `open` whether a
transition document exists and `generation` what the digest of the managed files
tells apart; `lock` the holder of the flock. `pc`, `request`, `stage` (reconciling
on entry, or in the handler) and `failed` (systemctl raised) belong to each
command. `unit`, `link`, `again` and `client` are systemd and awg-quick: the
unit's state, the interface, a start queued behind a stop, the command whose
systemctl waits for the job. `hook`, `hookAction` and `sawDocker` are the hook
process of the running job; `managed`, `bridge` and `docker` our tables, our rules
in `DOCKER-USER`, and that chain.

Actions. `Entry` is `mutation_lock` with `reconcile_service_operation_locked`,
one action per verdict; `ServiceAction` is `service_action`, cut at each write of
the intent and where the lock is given up and taken back; `Compensation` is
`compensate_service_operation_locked`; `Hook` is `run_firewall_action_locked`
with `apply_firewall` cut at its three nft calls, since a hook can die between
them. `Call...` says what a systemctl call does in each state of the unit. The
`Environment` kills commands and hooks, lets nft fail, lets systemctl outlive its
45 seconds while the job goes on, starts or stops the unit from outside, and
starts Docker.

Abstractions. systemd and awg-quick are external and modelled from how the code
relies on them: one job at a time, PostUp after the interface exists, PostDown
after it is gone, a failed start removes the interface, a restart is a stop and
a start, a stop cancels a start. The owner of an intent is its command; when the
process ends it counts as gone, which is what pid and start time establish. The
transition is reduced to open or not, opened and ended by a command that holds
the lock (`prepare`, `end`), and its reconciliation is the subject of
`Transition`. `expire` stands for any other command under the lock: it changes
nothing here but reconciles on entry; so does the lock that `dispatch` takes and
gives back before a handler takes its own. The managed files change only by the
temporary file a killed hook leaves behind. Reading the service or firewall
state does not fail here. `RemoveFirewall` removes the rules and advances the
intent in one step, both under the lock.

### ClientState

State. `disk` is the managed root and the runtime file: `config` (None before
initialisation), `identity` (whether the server's key pair is there), `meta` (each client's
`metadata.json`, None, or `Partial` for a directory without one), `keys`,
`generated` and `runtime`. `link` is the configuration the running interface
holds. `day` is the UTC date, `backup` one backup an operator may restore. The
running command is `doing` (its arguments, what it found, whether it compensates)
and `todo` (its remaining steps). `report` is what the last command said and
`retired` the keys reported as no longer accepted. `wreck` names what an earlier
command left for an operator: "damaged" after a kill between two writes that
belong together, after a compensation that could not be verified, and after a
write of the runtime file that fails outside `commit_server_config`'s try block
(3151); "retry" after an interrupted expiry; "renewed" after the edit described
below.

Actions. A command is started by an action of its own (`Add`, `Rotate`, ...),
whose guard is the handler's checks, and runs the steps of `Program(op)`, one
durable write each. `StepFails` replaces what is left by `Undo`: the handler's
except clause, preceded by the commit taken back. `Crash` forgets `todo`.
`Reboot`, `ServiceStart`, `ServiceStop` and `Midnight` belong to the environment,
and midnight may fall inside a command.

Abstractions. A text is what it is rendered from: the server text its port and
peers, a profile the configuration it was made with. "endpoint" stands for
`endpoint` and `dns`, which only profiles carry, "port" for `listen-port` and
`mtu`, which the server text carries too. Directories and key files are one step,
and so are profile, QR code and `metadata.json`; taking files away or putting
them back during a compensation does not fail (`OldMetadata` puts the records of
all clients back in one write, 8352-8369). `revoked/` and the archive are
what the command found (`doing.before`). The backup a command makes is the
action `Backup` just before it. The nftables text, which `config set` leaves
alone, dry runs, the obfuscation mode (in `Transition`), owner, device and
distribution metadata, hooks of a legacy configuration and an exhausted subnet
are left out. Bounds: `Expiring`, `MaxDay`, `MaxCommands`, `MaxTroubles`; the
daily expiry, backups and service calls are not bounded.

### Installer

State. `host` is what is installed: accounts and membership, the six policy
files, the timer (enablement links and whether it is active), the five entry
points, the release directories, what `bin/awgctl` selects, and whether a VPN
is there, ours or not. `run` holds for each process, `install.py` and
`awgctl update`, its steps `todo`, which grow as checks are made, and `undo`, the
compensation the code would run if the next step failed, innermost except block
first. `report` is how the last command ended, `spoiled` whether one was killed or
ended with an incomplete compensation, `alone` whether a command had the host to
itself.

Actions. `Configure`, `Install`, `Adopt`, `Upgrade`, `Update` begin a command;
`Plan`, `Snapshot`, `Select`, `Release` make its checks and schedule the steps
that depend on them; `Advance` is a step that changes the host. `StepFails` may
come before or after the effect (a subprocess that times out).
Compensation tries every step, whatever became of the ones before. `Kill` and
`Reboot` may come anywhere.

Abstractions. A file is the policy it was rendered from: the bootstrap policy
(no sudo, no hardening) of a first configuration, or the operator's. A release is
known by who made it: the installer builds it from the checkout ("ours"), `update`
downloads it ("signed"), and two builds of one version differ. The newest signed
release may be a later one or have the version of the checkout; both processes may
then find it absent (`deploy.py:112`) and the second rename fails, since `os.replace`
does not replace a directory that holds something (`deploy.py:145`). The temporary
directory of a release has a name nothing else uses. `upgrade_product` reports an
incomplete compensation when selecting the old release again raises a
`DeploymentError`; any other error leaves it as a traceback (`installer.py:44-50`),
which is "incomplete" here as well. Accounts found on the host are well formed. Options that name a policy explicitly, packages, the runtime
settings applied after `configure`, the copy of an adopted configuration, dry
runs and the signature and version checks of `update` are left out; `userdel`
may remove the group of the same name. Bounds: `MaxCommands`, `MaxTroubles`.

## 3. Plan

Done, in this order: `Transition` and `TransitionLifecycle`; `ServiceOp` and
`ServiceSwitch`; `ClientState` and `ClientRegistry`, which took in restore, fresh
initialisation and migration; `Installer`. Left:

1. `ServiceTransition`: the first two composed, the fail-safe stop in its real
   steps.
2. Backup retention and the choice among several backups; the choice and
   verification of a published release; the worker handshake.
3. Pure algorithms against reference definitions: port selection (3746), semver
   precedence (`semver.py`), retention.

## 4. Runs

The `transition_` runs instantiate `MCTransition`, the `service_` runs
`MCServiceOp`, the `client_` runs `MCClientState`, the `installer_` run
`MCInstaller`. Deadlock is checked in the first two: while no command runs, one
can always be started. In the last two commands and midnights are bounded and the
system may stop when they are used up (`CHECK_DEADLOCK FALSE`).

| Run | Instance | Shows |
|---|---|---|
| `transition_faults` | 1 transaction, 2 profiles, an expiry date, 1 crash, 1 reboot, 1 failing operation | `TypeOK`, `ConfirmedStaysAwg31`, `RolledBackIsClassic`, `UnconfirmedIsGuarded`, `CheckpointMatchesArtifacts`, `RevisedExactlyOnce` |
| `transition_successive` | 2 transactions (symmetric), 1 profile, 2 crashes | `CheckpointMatchesArtifacts`, `StaleTimerHarmless`, `Implements` |
| `transition_liveness` | 1 transaction, 1 crash, fair | `ActiveResolves`, `TimersDrain` |
| `transition_reboot` | 1 transaction, 1 reboot, fair | `ActiveResolves` is violated |
| `transition_stopped` | 1 transaction, fair, insistent operator | `RollbackSucceeds` is violated |
| `transition_stale_timer` | 2 transactions, 1 crash | `JournalHasOwner` is violated |
| `service_faults` | 2 commands (symmetric), 2 deaths, 1 timeout, 1 call from outside, Docker may start | `TypeOK`, `OwnerKeepsIntent`, `ClosedDuringTransition`, `Implements` |
| `service_liveness` | 2 commands, 1 death, 1 timeout, Docker does not start late, fair | `ReportedStopped`, `IntentResolves` |
| `service_docker` | 2 commands, no fault, Docker may start | `ReportedStopped` is violated |
| `client_faults` | 2 clients, one of which may expire, 1 midnight, 2 commands, 2 failures or kills, fair | `TypeOK`, `IdleConsistent`, `RetiredStaysOut`, `Implements`, `ExpiryReconciles` |
| `client_staggered` | 2 clients with dates, 2 midnights, 2 commands, no fault, fair | `ExpiryReconciles` is violated |
| `installer_faults` | 2 commands from every kind of host, 2 failures or kills | `TypeOK`, `SelectorUsable`, `SettingsWitness`, `NextRunAccepted`, `ReleaseImmutable`, `FailureRestores`, `SuccessComplete` |

Bounds. `Tx` bounds how many cutovers a behaviour has, one for what concerns
a single one, two for what an earlier one can do to a later one. `MaxCrashes`,
`MaxReboots`, `MaxFailures` bound faults, each of which may fall at any step; a
second crash meets a state some first crash can already reach, since a crash
only clears the holder's local state, and all three may happen in one behaviour
of `transition_faults`. Two profiles let a crash fall between their updates. In
`ServiceOp` two commands are an operation and the one that meets it (a third waits as the second does),
two deaths are the owner's and its successor's or its hook's; operations are not
bounded. In `ClientState` two commands on two clients are a change and the one
that meets what it left (on the client it concerns or on the other one), two
troubles a failure and the failure of its compensation, or a kill and a failure of
what repairs it; the first state is a bare host, a hand-made server, or a managed
host with one client. One date suffices
for whatever a single expiry does, and two dates show what the second does to the
first. In `Installer` the first command is any of five on any of the kinds of host
`Init` lists, the second meets what it left or runs beside it (two processes are all
there are, so an installer and an update of the same version meet at every point of
both), and two troubles are again a failure and a failing compensation.

Fairness (`Fairness`): the lock holder goes on (its subprocesses have timeouts);
deadlines pass and armed timers elapse; the service of an elapsed timer, which
systemd restarts every five seconds without a start limit
(`_transition_unit_text`, 5537-5577), and the daily expiry and the enabled unit,
win the lock when it is free infinitely often. Operators, clients, crashes and
failures are not fair. `InsistentSpec` adds an operator who keeps asking for a
rollback. In `ServiceOp` commands, hooks and systemd's jobs go on; whoever waits
in `flock` gets the lock when it is free infinitely often (a command taking it
back, 469-475, and a hook wait without a timeout); the daily expiry keeps coming
and is what finds an abandoned intent. Deaths, timeouts and operators are not fair.
In `ClientState` a running command takes its next step and the expiry timer, which
systemd elapses daily and after a missed day (`Persistent=true`), starts its
service when it has something to do. `Installer` states safety only.

### What the violated runs show

- `transition_reboot`: after a reboot inside the activation window the unit
  cannot start (its PostUp hook is refused while the document exists, 415-421)
  and the rollback cannot succeed (it reloads a unit that is not active, 6257
  and 3066-3070). The document stays active, the interface stays down.
  `docs/ARCHITECTURE.md:102-108` promises the deadline survives a reboot and
  that a timeout restores the classic backup.
- `transition_stopped`: stop, prepare, rollback. Prepare does not require an
  active interface, rollback does, and start is refused meanwhile.
  `docs/RECOVERY.md:63` offers a normal rollback for a prepared transaction.
- `transition_stale_timer`: an operator's rollback of the first transaction
  crashes when its checkpoint is complete and its units are still installed. The
  second transaction is prepared; the first one's timer elapses, writes its
  journal (7082-7096) and is then refused by the checkpoint (6130-6138).
  Reconciliation refuses every later command, the second transaction's timers
  included. `docs/RECOVERY.md:88` says the next command reconciles an
  interrupted cleanup.
- `service_docker`: Docker creates its chain while the interface is up. Neither
  "up" nor "down" holds of the firewall then, `current_firewall_up` (2871-2876)
  raises, and `service_action` gets no further than line 3093. The fail-safe stop
  of a failed rollback (7205-7206) suppresses that and reports "interface
  stopped" while it is active. `docs/RECOVERY.md:89` promises it is stopped.
- `client_staggered`: one client has expired and was taken out; a day later a
  second one's date passes. `cmd_expire_clients` selects both (7436-7440) and
  `ensure_expiry_reconcilable` (5040-5045) accepts the generated configuration
  only with both of their peers or neither. It has the second one's only, so this
  and every later run raises "managed-state drift detected", the second client
  stays served and, since metadata and configuration now disagree, `ensure_no_drift`
  refuses every other command. The docstring (5028) says the exact pre-expiry
  peers are accepted, `docs/OPERATIONS.md:125-130` that the daily timer performs the
  reconciliation.

### Where the passing runs say less than one might hope

These are behaviours of the code that the properties above state around,
each by a condition named in the property.

`ClientState`:

- Renewing a client whose date has passed but which is not yet marked expired
  (`client edit`, 7922) makes it eligible without rendering the server again: a
  drift that no command removes (`wreck` = "renewed").
- The runtime file is written outside the try block of `commit_server_config`
  (3151): when that write fails, the generated file keeps the new text.
- A client whose date has passed is listed, and served, until the expiry timer acts;
  `IdleConsistent` allows it (`Serves`) as long as it is not marked expired.
- A failed rotation puts the client back as "active" (8078) whatever it was, so
  rotating an expired client may bring it back to life.
- A backup taken before an expiry date cannot be restored after it, because
  validation renders it with today's clock (3591-3606).
- A kill inside `config set`, or between a client's directory and its metadata,
  leaves files that every later command refuses; there is no journal here.

`Installer`:

- `install` and `adopt` configure the host twice. Once the second configuration
  enrolled the operator, repeating them fails while planning the first, which
  declares no operator, with an exception `main` does not catch: `NextRunAccepted`
  leaves them out there.
- A stop between the two configurations leaves the bootstrap `installation.json`.
  A later `configure` or `upgrade` starts from it and reports success with no sudo
  and no hardening: `SuccessComplete` says so.
- `upgrade` configures the host with the operator's policy, sudoers included, before
  it deploys, while the docstring at `awginstall/cli.py:157` says the first
  configuration is there to grant the product being replaced no sudo.
- A kill between `groupadd` and `useradd` makes every later run refuse, with
  `--adopt-existing-identities` too (`spoiled` = "killed").
- `install.py` and `awgctl update` take no common lock: a failing update selects
  the release it read at its start, undoing an upgrade in between (`alone`).
- The undo of accounts removes those never created too, and its complaint makes a
  clean failure "incomplete". On a host that selected nothing, a failed health check
  leaves the new release selected (`Same` asks for the product back only if there
  was one).

## 5. Proofs

TLAPS checks twenty-five theorems a reader should know of, and the lemmas they rest
on, for every set of transactions, profiles, commands, clients and releases and
every bound, from the named assumptions of `Transition` (`NoneAssumption`,
`BoundAssumption`, `ExpiresAssumption`), of `ServiceOp` (`NoneAssumption`,
`BoundAssumption`, `DockerAssumption`), of `ClientState` (`NamesAssumption`,
`BoundAssumption`, `NoneAssumption`, `RegistryAssumption`) and of `Installer` (`DistinctReleases`,
`BoundsAssumption`, `NoneAssumption`). They say that a missing value is none of the real ones, that
bounds are numbers, that there are finitely many client names and that releases
differ. One theorem has a hypothesis of its own: `StoppedWhenReported` assumes that
Docker does not create its chain while the program runs, and the run
`service_docker` shows what happens when it does.

`Transition`:

- `TypeCorrect`: `Spec => []TypeOK`. `TypeOK` alone is not inductive: an action
  that writes `Target` or `tx` into a file needs to know it is an identifier, and
  `live[RestoreOrder[step]]` needs `step` in range. `TypeInv` adds which `pc`
  values have which owner and which `step`. One lemma per group of
  actions, the unchanged parts by shared lemmas.
- `CleanupIsResumable`: `Spec => []CheckpointMatchesArtifacts`. The invariant is
  strengthened by `IdentifiersDrawn` (an identifier in any file was drawn, so
  prepare's new one is nobody's) and `SettledIsComplete` (no document is open and
  no new outcome begins while an older checkpoint is unfinished).
- `StaleTimersAreHarmless`: `Spec => StaleTimerHarmless`, an action property. The
  strengthening `TimerInv` says where a timer service for another transaction than
  the current one can be: it never gets to the restore or to recording an outcome.
- `ConfirmationIsFinal`, `RollbackIsClassic`, `AlwaysAWayBack`, `RevisionsRaisedOnce`.
  They share one invariant, `OutcomeInv`. `ImageInv` says what files and interface
  hold while no transaction is open (`ClosedInv`: all of what the last outcome left)
  and while one is (`OpenInv`: a prepared one changed nothing or has its journal, an
  active one has a journal, no AWG 3.1 interface, or a timer that will ring).
  `HolderInv` says what the holder of the lock has established at each step, so
  that the step that records an outcome finds it true: a restore at component
  n has put back the first n, an activation before its reload has its journal,
  a confirmation has both timers' fate decided. `RevisionInv` ties the revisions
  already raised to the checkpoint that is replayed.
- `ImplementsLifecycle`: `Spec => Implements`. The document and the outcome are
  `TransitionLifecycle`'s state; each action is one of its steps or a stutter,
  the recording of an outcome because of `OutcomeInv`.

`ServiceOp`:

- `TypeCorrect` and `IntentStaysWithOwner`: `Spec => []TypeOK` and
  `Spec => []OwnerKeepsIntent`. `Inv` adds what they need: whoever is between
  taking and giving up the lock holds it, a running hook included (`LockInv`), so
  at most one process writes the intent; systemctl returns to a command that
  waits for it (`ClientInv`); a handler starts without an intent and a verified
  intent has no owner (`IntentInv`), so neither recording nor deleting an intent
  can hit another's.
- `ClosedWhileOpen`: `Spec => ClosedDuringTransition`. Only `HookLoad` loads the
  tables (`OnlyHookLoads`), and `ClosedInv` says that a hook gets there only while
  no transition is open: an intent that starts the interface was recorded when
  none was, none is opened while an intent exists, compensation forgets the start.
- `ImplementsSwitch`: `Spec => Implements`. `PhaseInv` says which phases of the
  intent each step of a command can meet, so a write of the intent is the step of
  `ServiceSwitch` it should be; `UnitInv` says that a start job whose hook passed has
  its interface and its firewall, so systemd's completion of the job is the
  abstract entry into service.
- `StoppedWhenReported`: `~DockerStarts /\ Spec => []ReportedStopped`. A served
  interface is behind a complete firewall (`ProvenInv`), so a failed rollback always
  attempts the stop, and once that is called no start can complete (`StoppingInv`).

`ClientState`. A command is a sequence of steps still to take, so its theorems
need to know which sequences occur. `FlowInv` says that `todo` is a path through
the steps of its command, forwards (`Forward`) or back (`Backward`) from whichever
step failed; `RestoreInv` says the same of restore, whose way back takes back as
many components as its way forth placed. That is why no induction over the
sequence is needed: the step at its head and the one after it are an edge.

- `TypeCorrect`: `Spec => []TypeOK`, with `CallInv` (the arguments fit the command)
  and `PlaceInv` (the files a step reads hold what it reads).
- `RetiredKeysStayOut`: `Spec => []RetiredStaysOut`. A key is retired at the end of
  a command and could return by a text written later or by a client rendered later.
  `MintInv`: keys are numbered as they are minted and no two clients share one.
  `BarredInv`: nothing that may still be written to the runtime file or the
  interface, a compensation's old text included, serves a retired key, and neither
  does a client that may still be rendered. `KeptInv` and `GoneInv`: the key about
  to be retired has left the rendered text, then the runtime file, then the
  interface, by the time its command ends well.
- `RestIsConsistent`: `Spec => []IdleConsistent`. The property speaks of a host at
  rest, so it is far from inductive; `FilesInv` says what every step has done to
  the files, and is preserved together with the invariants above. `RestInv` is the
  property with what a later command relies on, in the states an interrupted expiry
  or a renewal leaves as well. `BeforeInv` is what a command found when it began
  (it is what a compensation has to bring back) and what it is about to write.
  `ClientsInv` gives, for each command and each step of it, forwards and backwards,
  the record and key of the client at hand, the settings and everybody else's
  records; `TextInv` the generated and the runtime configuration and what was set
  aside of them; `LinkInv` what the interface may hold; `SwapInv` tells a restore by
  the components it has moved out and in; `ExpireFlow` separates the two ways back
  of an expiry. Midnight may fall inside a command: where a text rendered on an
  earlier day is meant, they say that it serves everyone to be served today, and
  nobody but those and clients whose date has passed (`Serving`). The steps are
  grouped by what they write (`Passes`, `Fails`, `Profiles`, `Marks`, `Checks`), so
  that each invariant is proved against five relations and not thirty actions.
- `ImplementsRegistry`: `Spec => Implements`. Until a command ends, the registry is
  what the command found (`doing.before`), so every step but the last is a stutter,
  or loses the registry when it leaves damage. At the end, `FilesInv` says what the
  files hold: what was found, if the command reports a failure (`ReportsFailure`),
  or that with exactly the change it reports (one lemma per kind of command:
  `SetupSeen`, `ClientSeen`, `SettingSeen`, `ExpirySeen`, `RestoreSeen`). An expiry
  killed between marks is the one step that is seen to change something without a
  report (`CrashMaps`).

`Installer`:

- `TypeCorrect`, `SelectorAlwaysWhole` and `ReleasesAreImmutable`:
  `Spec => []TypeOK`, `Spec => []SelectorWhole` (the part of `SelectorUsable` that
  holds even while commands overlap, fail and die) and `Spec => ReleaseImmutable`. `Inv` adds
  `StepInv`: what `undo`, and a failing command's `todo`, may hold are
  compensations, whose effect is defined on what they saved. What no step may do to
  the host is one relation, `Safe(host, host')`, proved once for forward steps and
  once for compensations: a release is published only where none is, whoever else
  published since the check. One lemma per action preserves `Inv`.
- `SettingsAlwaysWitness`, `SelectorAlwaysUsable` and `NextRunAlwaysAccepted`:
  `Spec => []SettingsWitness`, `Spec => []SelectorUsable`, `Spec => []NextRunAccepted`.
  They share `BoundaryInv`, which relates the host to the steps still to take. On the
  way forward the settings are written after the accounts they declare are there
  or about to be created (`Ordered`, `Progress`); on the way back they are put back
  before an account is dropped (`Retreat`), the selector is chosen before entry
  points are removed (`Chosen`), and what a step puts back is consistent with what
  the steps after it leave (`Consistent`). It asks nothing once a compensation
  failed, and no order of accounts once a run was killed: those are `spoiled`.
  `awgctl update` touches neither accounts, nor files, nor entry points, so what is
  said of these holds while it overlaps.
- `SuccessIsComplete`: `Spec => SuccessComplete`. `SuccessInv` says of a run that
  has not failed and has the host to itself that each thing a success leaves is
  there already or the step that makes it is still in `todo` (`Reaches`), so that an
  empty `todo` means all of it is there. The release meant is the one the command
  began with, in the build its process makes (`Artifact`).
- `FailureAlwaysRestores`: `Spec => FailureRestores`. `RestoreInv` says of a run that
  has the host to itself, and none of whose compensations failed, that the steps
  recorded to take back what it did make the host one to go back to (`Restorable`):
  the one it found or, for install and adopt from their second configuration on,
  the complete deployment with a boundary. A sequence
  restores (`Restores`) when, for every file, entry point, the timer and the product,
  the last step that writes it writes the value to go back to, or no step writes it
  and it has that value now; and when it drops exactly the accounts that are new.
  A compensation keeps that true of the steps after it; a forward step does because
  whatever the steps ahead change is among what the recorded steps put back
  (`Covers`); a check, because what it records is the host at that moment, with the
  older steps after it. `OrderInv` supplies the order of the steps ahead: the
  old product is recorded before another is selected, the operators' group exists
  before the member does, and what is not taken back comes last.

The invariants were checked by TLC on the instances of the runs before they were
proved. Only model-checked: all liveness (fairness and ENABLED are outside the
prover's reach). No module that holds a theorem reaches a RECURSIVE operator.

## 6. Not modelled

Formatting, parsing, JSON contracts and log text; cryptography and key
generation; file permissions, ownership and symlink checks (a file is read
exactly as it was written, or the command is refused); the diagnostics, the
self-test, and the build and qualification scripts: they keep no state and change
none. Signature verification and version comparison of releases (`releases.py`,
`semver.py`), and the port selection of a transition, are computations on data and
stand in the plan. Clock changes: time only
advances. A disk that loses a completed `fsync`. Components of which some operation
is missing are `partly` modelled in `PROJECT.json`, with what is missing.

## 7. Running

    tlc -workers 2 -config transition_faults.cfg MCTransition.tla
    tlc -workers 2 -config service_faults.cfg MCServiceOp.tla
    tlc -workers 2 -config client_faults.cfg MCClientState.tla
    tlc -workers 2 -config installer_faults.cfg MCInstaller.tla
    tlapm TransitionOutcomeProofs.tla
    tlapm ServiceSwitchProofs.tla
    tlapm ClientFilesProofs.tla
    tlapm InstallerProofs.tla
