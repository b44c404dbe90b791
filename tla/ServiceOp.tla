------------------------------ MODULE ServiceOp ------------------------------
(***************************************************************************)
(* The service operation protocol of awgctl (src/src/awgctl/core.py):      *)
(* starting, stopping and restarting the awg-quick unit under a mutation   *)
(* lock that is given up while systemctl runs, so that the unit's PostUp   *)
(* and PostDown hooks, processes of their own, can take it.  An intent     *)
(* file under /run says which operation is in force, who owns it and which *)
(* hook comes next.  Commands and hooks may die, systemctl may time out    *)
(* while its job runs on, the unit may be started or stopped from outside, *)
(* and Docker may appear after the interface came up.                      *)
(***************************************************************************)
EXTENDS Naturals, Sequences

CONSTANTS Commands,     \* awgctl processes
          None,         \* "no process"
          MaxCrashes,   \* bound: commands and hooks that die, nft calls that fail
          MaxTimeouts,  \* bound: systemctl calls that outlive their 45 seconds
          MaxOutside,   \* bound: systemctl calls that awgctl did not make
          DockerStarts  \* whether Docker may create DOCKER-USER later

ASSUME NoneAssumption == None \notin Commands /\ "hook" \notin Commands /\ None # "hook"
ASSUME BoundAssumption == MaxCrashes \in Nat /\ MaxTimeouts \in Nat /\ MaxOutside \in Nat
ASSUME DockerAssumption == DockerStarts \in BOOLEAN

VARIABLES
  intent,      \* /run/awgctl/service-operation.json
  lock,        \* holder of the flock: a command, "hook" or None
  open,        \* a transition document exists
  generation,  \* the managed files, as their digest tells them apart
  pc, request, stage, failed,         \* of every command
  unit, link, again, client,          \* systemd: unit, interface, queued start, waiter
  hook, hookAction, sawDocker,        \* the hook process of the running job
  managed, bridge, docker,            \* nftables: our tables, our rules in Docker's chain, that chain
  crashes, timeouts, outside

files   == <<intent, open, generation>>
local   == <<pc, request, stage, failed>>
systemd == <<unit, link, again, client>>
hooking == <<hook, hookAction, sawDocker>>
filter  == <<managed, bridge, docker>>
budget  == <<crashes, timeouts, outside>>
vars    == <<files, lock, local, systemd, hooking, filter, budget>>

-----------------------------------------------------------------------------
(* Values and predicates *)

Actions  == {"start", "stop", "restart"}
Requests == Actions \cup {"failsafe", "expire", "prepare", "end"}
Requested(r) == IF r = "failsafe" THEN "stop" ELSE r
Plan     == [start |-> <<"up">>, stop |-> <<"down">>, restart |-> <<"down", "up">>]
Starting(action) == action \in {"start", "restart"}

NoIntent == [op |-> None, phase |-> "none", owner |-> None]
Expected(i) == IF i.goal = "stopped" THEN <<"down">> ELSE Plan[i.action]

(* firewall_action_postcondition: our tables, and a bridge exactly when       *)
(* Docker's chain exists.                                                      *)
FirewallIs(action) ==
  IF action = "up" THEN managed /\ (bridge <=> docker) ELSE ~managed /\ ~bridge

Active  == unit = "active"                 \* systemctl is-active
StoppedUnchecked == TRUE                   \* deviation: firewall down at any time
Stopped == ~Active /\ ~link                \* ensure_service_stopped_for_firewall_down

PrestateInterlocked == FirewallIs("up") /\ ~open  \* deviation: refused during a transition
PrestateProven == FirewallIs("up") \/ FirewallIs("down")   \* current_firewall_up

Unchanged(i) == i.open = open /\ i.generation = generation

RequestedPostcondition(i) ==
  /\ Active <=> Starting(i.action)
  /\ FirewallIs(IF Starting(i.action) THEN "up" ELSE "down")
  /\ \/ i.next = Len(Expected(i))
     \/ i.action = "start" /\ i.wasActive /\ i.wasUp
     \/ i.action = "stop" /\ ~i.wasActive /\ ~i.wasUp

PrestatePostcondition(i) ==
  (Active <=> i.wasActive) /\ FirewallIs(IF i.wasUp THEN "up" ELSE "down")

StoppedPostcondition == Stopped /\ FirewallIs("down")

(* Which hook an intent in force accepts: the next one, or the last one again *)
IsCurrent(i, action)   == i.next < Len(Expected(i)) /\ action = Expected(i)[i.next + 1]
IsDuplicate(i, action) == i.next > 0 /\ action = Expected(i)[i.next]

-----------------------------------------------------------------------------
(* Control of a command *)

Goto(c, label) == pc' = [pc EXCEPT ![c] = label] /\ UNCHANGED <<request, stage, failed>>

(* The process ends and leaves the intent i: nobody alive owns it any more.  *)
End(c, i) ==
  /\ pc' = [pc EXCEPT ![c] = "idle"]
  /\ request' = [request EXCEPT ![c] = "none"]
  /\ stage' = [stage EXCEPT ![c] = "entry"]
  /\ failed' = [failed EXCEPT ![c] = FALSE]
  /\ lock' = IF lock = c THEN None ELSE lock
  /\ intent' = IF i.owner = c THEN [i EXCEPT !.owner = None] ELSE i

(* service_action returns or raises; the callers of the fail-safe stop        *)
(* suppress the exception and report "interface stopped".                     *)
Return(c, i) ==
  IF stage[c] = "action" /\ request[c] = "failsafe"
  THEN Goto(c, "report") /\ intent' = i /\ UNCHANGED lock
  ELSE End(c, i)

-----------------------------------------------------------------------------
(* Lock entry: mutation_lock and reconcile_service_operation_locked *)

Acquire(c, r) ==
  /\ pc[c] = "idle" /\ lock = None
  /\ lock' = c
  /\ pc' = [pc EXCEPT ![c] = "entry"] /\ request' = [request EXCEPT ![c] = r]
  /\ UNCHANGED <<files, stage, failed, systemd, hooking, filter, budget>>

OwnerIgnored == FALSE           \* deviation: process_identity_is_alive is not asked
OwnerAlive == intent.owner # None

EntryRefused(c) ==              \* "service operation is pending"
  /\ pc[c] = "entry" /\ OwnerAlive
  /\ End(c, intent)
  /\ UNCHANGED <<open, generation, systemd, hooking, filter, budget>>

EntryVerified(c) ==             \* the operation had succeeded; only its owner died
  /\ pc[c] = "entry" /\ ~OwnerAlive
  /\ intent.phase = "invoking" /\ Unchanged(intent) /\ RequestedPostcondition(intent)
  /\ intent' = [intent EXCEPT !.phase = "verified"]
  /\ UNCHANGED <<lock, open, generation, local, systemd, hooking, filter, budget>>

EntryDeleted(c) ==
  /\ pc[c] = "entry" /\ ~OwnerAlive
  /\ \/ intent.phase = "verified"
     \/ intent.phase = "prepared" /\ Unchanged(intent) /\ PrestatePostcondition(intent)
  /\ intent' = NoIntent
  /\ UNCHANGED <<lock, open, generation, local, systemd, hooking, filter, budget>>

EntryClaimed(c) ==
  /\ pc[c] = "entry" /\ ~OwnerAlive
  /\ \/ intent.phase = "compensating"
     \/ intent.phase = "invoking" /\ ~(Unchanged(intent) /\ RequestedPostcondition(intent))
     \/ intent.phase = "prepared" /\ ~(Unchanged(intent) /\ PrestatePostcondition(intent))
  /\ intent' = [intent EXCEPT !.owner = c]
  /\ Goto(c, "compensate")
  /\ UNCHANGED <<lock, open, generation, systemd, hooking, filter, budget>>

EntryPassed(c) ==
  /\ pc[c] = "entry" /\ intent = NoIntent
  /\ pc' = [pc EXCEPT ![c] = "body"] /\ stage' = [stage EXCEPT ![c] = "action"]
  /\ UNCHANGED <<files, lock, request, failed, systemd, hooking, filter, budget>>

-----------------------------------------------------------------------------
(* The handlers: service commands are refused while a transition is open,     *)
(* lifecycle commands open and end one, and a rollback that fails stops the   *)
(* interface.                                                                  *)

Permitted(r) ==
  CASE r \in Actions \cup {"prepare"} -> ~open
    [] r \in {"failsafe", "end"}      -> open
    [] OTHER                          -> TRUE

BodyRefused(c) ==
  /\ pc[c] = "body" /\ ~Permitted(request[c])
  /\ End(c, intent)
  /\ UNCHANGED <<open, generation, systemd, hooking, filter, budget>>

BodyElse(c) ==
  /\ pc[c] = "body" /\ Permitted(request[c])
  /\ request[c] \in {"expire", "prepare", "end"}
  /\ open' = CASE request[c] = "prepare" -> TRUE
               [] request[c] = "end"     -> FALSE
               [] OTHER                  -> open
  /\ End(c, intent)
  /\ UNCHANGED <<generation, systemd, hooking, filter, budget>>

-----------------------------------------------------------------------------
(* service_action *)

Recording(c) == pc[c] = "body" /\ Permitted(request[c]) /\ Requested(request[c]) \in Actions

RecordIntent(c) ==
  /\ Recording(c) /\ PrestateProven
  /\ intent' = [op |-> c, action |-> Requested(request[c]), phase |-> "prepared",
                goal |-> "requested", next |-> 0, open |-> open,
                generation |-> generation, owner |-> c,
                wasActive |-> Active, wasUp |-> FirewallIs("up")]
  /\ Goto(c, "prepared")
  /\ UNCHANGED <<lock, open, generation, systemd, hooking, filter, budget>>

PrestateUnproven(c) ==          \* "firewall lifecycle state is inconsistent"
  /\ Recording(c) /\ ~PrestateProven
  /\ Return(c, intent)
  /\ UNCHANGED <<open, generation, systemd, hooking, filter, budget>>

IntentInvoking(c) ==
  /\ pc[c] = "prepared"
  /\ intent' = [intent EXCEPT !.phase = "invoking"]
  /\ Goto(c, "invoking")
  /\ UNCHANGED <<lock, open, generation, systemd, hooking, filter, budget>>

(* The lock is released around the systemctl call.  What the call starts     *)
(* depends on what the unit is doing.                                         *)
Calling(c) == pc[c] = "invoking" /\ lock' = None /\ UNCHANGED <<files, filter, budget>>

CallNothing(c) ==               \* already so
  /\ Calling(c)
  /\ intent.action = (IF Active THEN "start" ELSE "stop") /\ unit \in {"active", "inactive"}
  /\ Goto(c, "reacquire")
  /\ UNCHANGED <<systemd, hooking>>

CallStart(c) ==
  /\ Calling(c)
  /\ Starting(intent.action) /\ unit = "inactive"
  /\ unit' = "activating" /\ client' = c
  /\ Goto(c, "waiting")
  /\ UNCHANGED <<link, again, hooking>>

BeginStop(c, startAgain) ==     \* awg-quick down: the link goes, then PostDown
  /\ unit = "active"
  /\ unit' = "deactivating" /\ link' = FALSE /\ again' = startAgain /\ client' = c
  /\ hook' = "waiting" /\ hookAction' = "down" /\ UNCHANGED sawDocker

CallStop(c) ==
  /\ Calling(c)
  /\ intent.action \in {"stop", "restart"} /\ BeginStop(c, intent.action = "restart")
  /\ Goto(c, "waiting")

CallJoin(c) ==                  \* the job of an earlier call is still running
  /\ Calling(c)
  /\ \/ unit = "activating" /\ intent.action = "start" /\ UNCHANGED again
     \/ unit = "deactivating" /\ again' = Starting(intent.action)
  /\ client' = c
  /\ Goto(c, "waiting")
  /\ UNCHANGED <<unit, link, hooking>>

CallCancel(c) ==                \* a start in progress is killed; awg-quick's trap drops the link
  /\ Calling(c)
  /\ unit = "activating" /\ intent.action \in {"stop", "restart"}
  /\ link' = FALSE /\ hook' = "none"
  /\ \/ intent.action = "stop" /\ unit' = "inactive" /\ Goto(c, "reacquire") /\ UNCHANGED client
     \/ intent.action = "restart" /\ client' = c /\ Goto(c, "waiting") /\ UNCHANGED unit
  /\ UNCHANGED <<again, hookAction, sawDocker>>

TimedOut(c) ==
  /\ pc[c] \in {"waiting", "stopwait"} /\ timeouts < MaxTimeouts
  /\ timeouts' = timeouts + 1
  /\ pc' = [pc EXCEPT ![c] = IF @ = "waiting" THEN "reacquire" ELSE "restop"]
  /\ failed' = [failed EXCEPT ![c] = TRUE]
  /\ client' = None
  /\ UNCHANGED <<files, lock, request, stage, unit, link, again, hooking, filter, crashes, outside>>

Reacquired(c) ==
  /\ pc[c] \in {"reacquire", "restop"} /\ lock = None
  /\ lock' = c
  /\ Goto(c, IF pc[c] = "reacquire" THEN "check" ELSE "settle")
  /\ UNCHANGED <<files, systemd, hooking, filter, budget>>

CheckPassed(c) ==
  /\ pc[c] = "check" /\ ~failed[c] /\ RequestedPostcondition(intent)
  /\ intent' = [intent EXCEPT !.phase = "verified", !.owner = None]
  /\ Goto(c, "verified")
  /\ UNCHANGED <<lock, open, generation, systemd, hooking, filter, budget>>

CheckFailed(c) ==
  /\ pc[c] = "check" /\ (failed[c] \/ ~RequestedPostcondition(intent))
  /\ pc' = [pc EXCEPT ![c] = "compensate"] /\ failed' = [failed EXCEPT ![c] = FALSE]
  /\ UNCHANGED <<files, lock, request, stage, systemd, hooking, filter, budget>>

IntentDeleted(c) ==
  /\ pc[c] = "verified"
  /\ \/ stage[c] = "action" /\ Return(c, NoIntent)
     \/ stage[c] = "entry" /\ Goto(c, "entry") /\ intent' = NoIntent /\ UNCHANGED lock
  /\ UNCHANGED <<open, generation, systemd, hooking, filter, budget>>

-----------------------------------------------------------------------------
(* compensate_service_operation_locked *)

CompensateKeepingProgress(c) == \* deviation: next_action is only capped
  /\ pc[c] = "compensate"
  /\ intent' = [intent EXCEPT !.phase = "compensating", !.goal = "stopped",
                              !.next = IF @ = 0 THEN 0 ELSE 1, !.open = open,
                              !.generation = generation]
  /\ Goto(c, "compensating")
  /\ UNCHANGED <<lock, open, generation, systemd, hooking, filter, budget>>

Compensate(c) ==
  /\ pc[c] = "compensate"
  /\ intent' = [intent EXCEPT !.phase = "compensating", !.goal = "stopped", !.next = 0,
                              !.open = open, !.generation = generation]
  /\ Goto(c, "compensating")
  /\ UNCHANGED <<lock, open, generation, systemd, hooking, filter, budget>>

StopActive(c) ==                \* the lock is released again
  /\ pc[c] = "compensating" /\ BeginStop(c, FALSE)
  /\ lock' = None /\ Goto(c, "stopwait")
  /\ UNCHANGED <<files, filter, budget>>

StopNotNeeded(c) ==
  /\ pc[c] = "compensating" /\ ~Active
  /\ Goto(c, "settle")
  /\ UNCHANGED <<files, lock, systemd, hooking, filter, budget>>

StopSettled(c) == pc[c] = "settle" /\ ~failed[c] /\ ~Active

RemoveFirewall(c) ==            \* run_firewall_action_locked("down") by the command itself
  /\ StopSettled(c) /\ intent.next = 0 /\ Unchanged(intent) /\ Stopped
  /\ managed' = FALSE /\ bridge' = FALSE
  /\ intent' = [intent EXCEPT !.next = 1]
  /\ UNCHANGED <<open, generation, lock, local, systemd, hooking, docker, budget>>

CompensationVerified(c) ==
  /\ StopSettled(c) /\ intent.next # 0 /\ StoppedPostcondition
  /\ intent' = [intent EXCEPT !.phase = "verified", !.owner = None]
  /\ Goto(c, "verified")
  /\ UNCHANGED <<lock, open, generation, systemd, hooking, filter, budget>>

(* "fail-safe service compensation failed": the intent stays *)
CompensationFailed(c) ==
  /\ pc[c] = "settle"
  /\ \/ ~StopSettled(c)
     \/ StopSettled(c) /\ intent.next = 0 /\ ~(Unchanged(intent) /\ Stopped)
     \/ StopSettled(c) /\ intent.next # 0 /\ ~StoppedPostcondition
  /\ Return(c, intent)
  /\ UNCHANGED <<open, generation, systemd, hooking, filter, budget>>

Report(c) ==                    \* "... interface stopped"
  /\ pc[c] = "report"
  /\ End(c, intent)
  /\ UNCHANGED <<open, generation, systemd, hooking, filter, budget>>

-----------------------------------------------------------------------------
(* The hook: _firewall up and _firewall down *)

HookAcquired ==
  /\ hook = "waiting" /\ lock = None
  /\ lock' = "hook" /\ hook' = "entered"
  /\ UNCHANGED <<files, local, systemd, hookAction, sawDocker, filter, budget>>

AcceptedAnyway == TRUE          \* deviation: a boot ignores the transition
AcceptedWithoutIntent == ~open

HookAccepted ==
  /\ \/ intent = NoIntent /\ AcceptedWithoutIntent
     \/ /\ intent.phase \in {"invoking", "compensating"} /\ Unchanged(intent)
        /\ IsCurrent(intent, hookAction) \/ IsDuplicate(intent, hookAction)
  /\ hookAction = "down" => Stopped

HookRefused ==
  /\ hook = "entered" /\ ~HookAccepted
  /\ hook' = "failed" /\ lock' = None
  /\ UNCHANGED <<files, local, systemd, hookAction, sawDocker, filter, budget>>

HookRepeats == intent # NoIntent /\ ~IsCurrent(intent, hookAction)

HookRepeated ==                 \* a duplicate only proves the postcondition
  /\ hook = "entered" /\ HookAccepted /\ HookRepeats
  /\ hook' = "prove"
  /\ UNCHANGED <<files, lock, local, systemd, hookAction, sawDocker, filter, budget>>

HookCleanup ==                  \* firewall_cleanup, which apply_firewall begins with
  /\ hook = "entered" /\ HookAccepted /\ ~HookRepeats
  /\ managed' = FALSE /\ bridge' = FALSE /\ sawDocker' = docker
  /\ hook' = IF hookAction = "up" THEN "load" ELSE "prove"
  /\ UNCHANGED <<files, lock, local, systemd, hookAction, docker, budget>>

HookLoad ==
  /\ hook = "load"
  /\ managed' = TRUE /\ hook' = IF sawDocker THEN "bridge" ELSE "prove"
  /\ UNCHANGED <<files, lock, local, systemd, hookAction, sawDocker, bridge, docker, budget>>

HookBridge ==
  /\ hook = "bridge"
  /\ bridge' = TRUE /\ hook' = "prove"
  /\ UNCHANGED <<files, lock, local, systemd, hookAction, sawDocker, managed, docker, budget>>

HookAdvancesTwice == intent # NoIntent   \* deviation: a repeated hook counts again
HookAdvances == intent # NoIntent /\ IsCurrent(intent, hookAction)

HookProved ==
  /\ hook = "prove" /\ FirewallIs(hookAction)
  /\ intent' = IF HookAdvances
               THEN [intent EXCEPT !.next = @ + 1] ELSE intent
  /\ hook' = "passed" /\ lock' = None
  /\ UNCHANGED <<open, generation, local, systemd, hookAction, sawDocker, filter, budget>>

HookUnproven ==
  /\ hook = "prove" /\ ~FirewallIs(hookAction)
  /\ hook' = "failed" /\ lock' = None
  /\ UNCHANGED <<files, local, systemd, hookAction, sawDocker, filter, budget>>

HookRunning == hook \in {"entered", "load", "bridge", "prove"}

(* The temporary file of apply_firewall exists from before the cleanup on; a   *)
(* hook that is killed leaves it in generated/, which the digest covers.        *)
LeavesTemporary ==
  CASE hook \in {"load", "bridge"} -> {TRUE}
    [] hook = "entered" /\ hookAction = "up" /\ HookAccepted /\ ~HookRepeats -> BOOLEAN
    [] OTHER -> {FALSE}

HookKilled ==
  /\ hook = "waiting" \/ HookRunning
  /\ crashes < MaxCrashes /\ crashes' = crashes + 1
  /\ \E left \in LeavesTemporary : generation' = IF left THEN generation + 1 ELSE generation
  /\ hook' = "failed" /\ lock' = IF HookRunning THEN None ELSE lock
  /\ UNCHANGED <<intent, open, local, systemd, hookAction, sawDocker, filter, timeouts, outside>>

HookFails ==                    \* nft refuses: after the bridge, everything is removed again
  /\ hook \in {"load", "bridge"}
  /\ crashes < MaxCrashes /\ crashes' = crashes + 1
  /\ managed' = FALSE /\ bridge' = FALSE
  /\ hook' = "failed" /\ lock' = None
  /\ UNCHANGED <<files, local, systemd, hookAction, sawDocker, docker, timeouts, outside>>

-----------------------------------------------------------------------------
(* systemd and awg-quick *)

JobEnds(ok) ==                  \* systemctl returns to the command that waits for it
  /\ client' = None
  /\ IF client = None THEN UNCHANGED <<pc, failed>>
     ELSE /\ pc' = [pc EXCEPT ![client] = IF @ = "waiting" THEN "reacquire" ELSE "restop"]
          /\ failed' = [failed EXCEPT ![client] = ~ok]

BringUp ==
  /\ unit = "activating" /\ ~link
  /\ link' = TRUE /\ hook' = "waiting" /\ hookAction' = "up"
  /\ UNCHANGED <<files, lock, local, unit, again, client, sawDocker, filter, budget>>

StartDone ==
  /\ unit = "activating" /\ hook = "passed"
  /\ unit' = "active" /\ hook' = "none" /\ JobEnds(TRUE)
  /\ UNCHANGED <<files, lock, request, stage, link, again, hookAction, sawDocker, filter, budget>>

StartFailed ==                  \* awg-quick deletes the link it made
  /\ unit = "activating" /\ hook = "failed"
  /\ unit' = "inactive" /\ link' = FALSE /\ hook' = "none" /\ JobEnds(FALSE)
  /\ UNCHANGED <<files, lock, request, stage, again, hookAction, sawDocker, filter, budget>>

StopDone ==                     \* whatever PostDown returned, the unit is no longer active
  /\ unit = "deactivating" /\ hook \in {"passed", "failed"}
  /\ hook' = "none" /\ again' = FALSE
  /\ \/ again /\ unit' = "activating" /\ UNCHANGED <<client, pc, failed>>
     \/ ~again /\ unit' = "inactive" /\ JobEnds(TRUE)
  /\ UNCHANGED <<files, lock, request, stage, link, hookAction, sawDocker, filter, budget>>

Outside == outside < MaxOutside /\ outside' = outside + 1 /\ UNCHANGED <<crashes, timeouts>>

OutsideStart ==                 \* boot, or an administrator's systemctl start
  /\ Outside /\ unit = "inactive" /\ client = None
  /\ unit' = "activating"
  /\ UNCHANGED <<files, lock, local, link, again, client, hooking, filter>>

OutsideStop ==
  /\ Outside /\ client = None /\ BeginStop(None, FALSE)
  /\ UNCHANGED <<files, lock, local, filter>>

DockerStarted ==                \* Docker creates its chain, without our rules
  /\ DockerStarts /\ ~docker
  /\ docker' = TRUE
  /\ UNCHANGED <<files, lock, local, systemd, hooking, managed, bridge, budget>>

Crash(c) ==                     \* the command dies; flock is released with it
  /\ pc[c] # "idle" /\ crashes < MaxCrashes /\ crashes' = crashes + 1
  /\ End(c, intent)
  /\ client' = IF client = c THEN None ELSE client
  /\ UNCHANGED <<open, generation, unit, link, again, hooking, filter, timeouts, outside>>

-----------------------------------------------------------------------------
Init ==
  /\ intent = NoIntent /\ lock = None /\ open = FALSE /\ generation = 0
  /\ pc = [c \in Commands |-> "idle"] /\ request = [c \in Commands |-> "none"]
  /\ stage = [c \in Commands |-> "entry"] /\ failed = [c \in Commands |-> FALSE]
  /\ unit \in {"active", "inactive"} /\ link = (unit = "active")
  /\ again = FALSE /\ client = None
  /\ hook = "none" /\ hookAction = "up" /\ sawDocker = FALSE
  /\ docker \in BOOLEAN /\ managed = link /\ bridge = (link /\ docker)
  /\ crashes = 0 /\ timeouts = 0 /\ outside = 0

Entry(c) ==
  EntryRefused(c) \/ EntryVerified(c) \/ EntryDeleted(c) \/ EntryClaimed(c) \/ EntryPassed(c)

Body(c) == BodyRefused(c) \/ BodyElse(c)

ServiceAction(c) ==
  \/ RecordIntent(c) \/ PrestateUnproven(c) \/ IntentInvoking(c)
  \/ CallNothing(c) \/ CallStart(c) \/ CallStop(c) \/ CallJoin(c) \/ CallCancel(c)
  \/ Reacquired(c) \/ CheckPassed(c) \/ CheckFailed(c) \/ IntentDeleted(c) \/ Report(c)

Compensation(c) ==
  \/ Compensate(c) \/ StopActive(c) \/ StopNotNeeded(c) \/ RemoveFirewall(c)
  \/ CompensationVerified(c) \/ CompensationFailed(c)

Command(c) == Entry(c) \/ Body(c) \/ ServiceAction(c) \/ Compensation(c)

Hook ==
  \/ HookAcquired \/ HookRefused \/ HookRepeated \/ HookCleanup \/ HookLoad
  \/ HookBridge \/ HookProved \/ HookUnproven

Systemd == BringUp \/ StartDone \/ StartFailed \/ StopDone

Environment ==
  \/ OutsideStart \/ OutsideStop \/ DockerStarted \/ HookKilled \/ HookFails
  \/ \E c \in Commands : Crash(c) \/ TimedOut(c)

Next ==
  \/ \E c \in Commands : Command(c) \/ \E r \in Requests : Acquire(c, r)
  \/ Hook \/ Systemd \/ Environment

Spec == Init /\ [][Next]_vars

(* Processes that can take a step do: a command that waits for the lock gets  *)
(* it among those that contend for it, as does a hook; the daily expiry        *)
(* command keeps coming.  Operators, deaths and timeouts are not fair.         *)
Fairness ==
  /\ \A c \in Commands : WF_vars(Command(c)) /\ SF_vars(Reacquired(c))
  /\ WF_vars(Hook) /\ SF_vars(HookAcquired) /\ WF_vars(Systemd)
  /\ \A c \in Commands : SF_vars(Acquire(c, "expire"))

FairSpec == Spec /\ Fairness

-----------------------------------------------------------------------------
(* Properties *)

Phases == {"prepared", "invoking", "compensating", "verified"}
InForce ==
  [op : Commands, action : Actions, phase : Phases, goal : {"requested", "stopped"},
   next : 0..2, open : BOOLEAN, generation : Nat, owner : Commands \cup {None},
   wasActive : BOOLEAN, wasUp : BOOLEAN]

Owning == {"prepared", "invoking", "waiting", "reacquire", "check", "compensate",
           "compensating", "stopwait", "restop", "settle"}
Labels == Owning \cup {"idle", "entry", "body", "verified", "report"}

FilesTyped ==
  /\ intent \in InForce \cup {NoIntent}
  /\ intent # NoIntent => intent.next <= Len(Expected(intent))
  /\ open \in BOOLEAN /\ generation \in Nat

LocalTyped ==
  /\ lock \in Commands \cup {None, "hook"}
  /\ pc \in [Commands -> Labels]
  /\ request \in [Commands -> Requests \cup {"none"}]
  /\ stage \in [Commands -> {"entry", "action"}] /\ failed \in [Commands -> BOOLEAN]

SystemdTyped ==
  /\ unit \in {"inactive", "activating", "active", "deactivating"}
  /\ link \in BOOLEAN /\ again \in BOOLEAN /\ client \in Commands \cup {None}
  /\ hook \in {"none", "waiting", "entered", "load", "bridge", "prove", "passed", "failed"}
  /\ hookAction \in {"up", "down"} /\ sawDocker \in BOOLEAN

FilterTyped == managed \in BOOLEAN /\ bridge \in BOOLEAN /\ docker \in BOOLEAN
BudgetTyped == crashes \in Nat /\ timeouts \in Nat /\ outside \in Nat

TypeOK == FilesTyped /\ LocalTyped /\ SystemdTyped /\ FilterTyped /\ BudgetTyped

(* The intent in force is the one of the process that works on it, from its    *)
(* first record to its verification, although the lock is given up twice in    *)
(* between: nobody claims, replaces or deletes it under a live owner.          *)
OwnerKeepsIntent ==
  \A c \in Commands : pc[c] \in Owning => intent # NoIntent /\ intent.owner = c

(* While a transition is open, nothing loads the firewall of the interface:    *)
(* no late start job, boot or retried hook brings it into service.             *)
ClosedDuringTransition == [][open => (managed' => managed)]_vars

(* When a failed rollback reports "interface stopped", it is not active         *)
(* (docs/RECOVERY.md:89: "If recovery cannot prove classic state, the manager   *)
(* stops the interface rather than serving an uncertain configuration").       *)
ReportedStopped == \A c \in Commands : pc[c] = "report" => ~Active

(* The service as ServiceSwitch sees it: one operation at a time, which ends    *)
(* with what was requested or with the interface out of service, and an         *)
(* interface that serves only behind a firewall nobody touches meanwhile.       *)
Switch == INSTANCE ServiceSwitch WITH
  operation <- IF intent.phase \in {"none", "verified"} THEN "none" ELSE intent.action,
  progress  <- IF intent.phase = "prepared" /\ (Active <=> intent.wasActive) THEN "untouched"
               ELSE IF intent.phase = "compensating" THEN "abandoned"
               ELSE IF intent.phase \in {"none", "verified"} THEN "none" ELSE "acting",
  serving   <- Active,
  filtered  <- managed

Implements == Switch!Spec

(* An operation does not stay in force for ever, whoever died in the middle:    *)
(* it ends, or the next command takes it over and compensates it.               *)
IntentResolves == intent # NoIntent ~> intent = NoIntent
=============================================================================
