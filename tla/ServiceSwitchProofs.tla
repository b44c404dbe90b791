------------------------- MODULE ServiceSwitchProofs -------------------------
(***************************************************************************)
(* What the service promises to those who look at it from outside.         *)
(*                                                                         *)
(* No hook loads the firewall while a transition is open: a hook that is   *)
(* about to load it has been accepted when none was open, and an operation *)
(* that starts the interface is recorded only then (ClosedInv).            *)
(*                                                                         *)
(* ServiceOp implements ServiceSwitch: the phase of the intent is the one  *)
(* its owner's step expects (PhaseInv), and a start job whose hook passed  *)
(* has an interface behind a loaded firewall (UnitInv).                    *)
(*                                                                         *)
(* Where Docker does not start, "interface stopped" is true when reported: *)
(* a served interface is behind a complete firewall (ProvenInv), so the    *)
(* stop is always attempted, and from its call on no start can complete    *)
(* (StoppingInv).                                                          *)
(***************************************************************************)
EXTENDS ServiceOpProofs

StartsClosed ==
  intent # NoIntent /\ Starting(intent.action) /\ intent.goal = "requested" => intent.open = FALSE

ClosedInv ==
  /\ hook = "load" => open = FALSE
  /\ StartsClosed

(* How a step that opens no transition and records no operation may change   *)
(* the intent.                                                               *)
Harmless(i, j) ==
  \/ j = i \/ j = NoIntent \/ j.goal = "stopped"
  \/ /\ i # NoIntent
     /\ j.action = i.action /\ j.goal = i.goal /\ j.open = i.open

(* A step that changes the intent harmlessly and brings no hook to the load. *)
LEMMA HarmlessKeeps ==
  ASSUME ClosedInv, Harmless(intent, intent'), open' = open, hook' = "load" => hook = "load"
  PROVE  ClosedInv'
  BY DEF ClosedInv, StartsClosed, Harmless

LEMMA EndHarmless ==
  ASSUME Inv, NEW c \in Commands, NEW i, i \in {intent, NoIntent}, End(c, i)
  PROVE  Harmless(intent, intent')
<1>1. CASE i = NoIntent
  BY <1>1, NoIntentApart, NoneAssumption DEF End, Harmless
<1>2. CASE i = intent /\ intent.owner # c
  BY <1>2 DEF End, Harmless
<1>3. CASE i = intent /\ intent.owner = c
  <2>1. intent \in InForce /\ intent # NoIntent
    BY <1>3, NoIntentApart, NoneAssumption DEF Inv, TypeOK, FilesTyped
  <2> QED BY <1>3, <2>1 DEF End, Harmless, InForce
<1> QED BY <1>1, <1>2, <1>3

LEMMA ReturnHarmless ==
  ASSUME Inv, NEW c \in Commands, NEW i, i \in {intent, NoIntent}, Return(c, i)
  PROVE  Harmless(intent, intent')
<1>1. CASE End(c, i)
  BY <1>1, EndHarmless
<1>2. CASE intent' = i
  BY <1>2 DEF Harmless
<1> QED BY <1>1, <1>2 DEF Return

-----------------------------------------------------------------------------
LEMMA EntryClosed == ASSUME Inv, ClosedInv, NEW c \in Commands, Entry(c) PROVE ClosedInv'
<1>1. open' = open /\ hook' = hook
  BY DEF Entry, EntryRefused, EntryVerified, EntryDeleted, EntryClaimed, EntryPassed, files, hooking
<1>2. CASE EntryRefused(c)
  BY <1>1, <1>2, EndHarmless, HarmlessKeeps DEF EntryRefused
<1>3. CASE EntryVerified(c) \/ EntryClaimed(c)
  <2>1. intent \in InForce /\ intent # NoIntent
    BY <1>3, NoIntentApart DEF EntryVerified, EntryClaimed, Inv, TypeOK, FilesTyped
  <2>2. Harmless(intent, intent')
    BY <1>3, <2>1 DEF EntryVerified, EntryClaimed, Harmless, InForce
  <2> QED BY <1>1, <2>2, HarmlessKeeps
<1>4. CASE EntryDeleted(c) \/ EntryPassed(c)
  <2>1. Harmless(intent, intent')
    BY <1>4 DEF EntryDeleted, EntryPassed, Harmless, files
  <2> QED BY <1>1, <2>1, HarmlessKeeps
<1> QED BY <1>2, <1>3, <1>4 DEF Entry

LEMMA BodyClosed == ASSUME Inv, ClosedInv, NEW c \in Commands, Body(c) PROVE ClosedInv'
<1>1. CASE BodyRefused(c)
  BY <1>1, EndHarmless, HarmlessKeeps DEF BodyRefused, hooking
<1>2. CASE BodyElse(c)
  <2>1. lock = c /\ intent = NoIntent
    BY <1>2 DEF BodyElse, Inv, LockInv, IntentInv, Locked
  <2>2. hook' # "load"
    BY <1>2, <2>1, NoneAssumption DEF BodyElse, Inv, LockInv, HookRunning, hooking
  <2>3. intent' = NoIntent
    BY <1>2, <2>1, NoIntentApart, NoneAssumption DEF BodyElse, End
  <2> QED BY <2>2, <2>3 DEF ClosedInv, StartsClosed
<1> QED BY <1>1, <1>2 DEF Body

LEMMA ServiceActionClosed ==
  ASSUME Inv, ClosedInv, NEW c \in Commands, ServiceAction(c) PROVE ClosedInv'
<1>1. CASE RecordIntent(c)
  <2>1. intent'.open = open /\ intent'.action = Requested(request[c])
    BY <1>1 DEF RecordIntent
  <2>2. Starting(Requested(request[c])) => open = FALSE
    <3>1. open \in BOOLEAN
      BY DEF Inv, TypeOK, FilesTyped
    <3>2. ASSUME Starting(Requested(request[c])) PROVE ~open
      <4>1. request[c] \in {"start", "restart"}
        BY <3>2 DEF Starting, Requested
      <4> QED BY <1>1, <4>1 DEF RecordIntent, Recording, Permitted, Actions
    <3> QED BY <3>1, <3>2
  <2>3. open' = open /\ hook' = hook
    BY <1>1 DEF RecordIntent, hooking
  <2> QED BY <2>1, <2>2, <2>3 DEF ClosedInv, StartsClosed
<1>2. CASE PrestateUnproven(c)
  BY <1>2, ReturnHarmless, HarmlessKeeps DEF PrestateUnproven, hooking
<1>3. CASE IntentInvoking(c) \/ CheckPassed(c)
  <2>1. intent \in InForce /\ intent # NoIntent
    BY <1>3, NoIntentApart
       DEF IntentInvoking, CheckPassed, Owning, Inv, TypeOK, FilesTyped, IntentInv, OwnerKeepsIntent
  <2>2. Harmless(intent, intent')
    BY <1>3, <2>1 DEF IntentInvoking, CheckPassed, Harmless, InForce
  <2>3. open' = open /\ hook' = hook
    BY <1>3 DEF IntentInvoking, CheckPassed, hooking
  <2> QED BY <2>2, <2>3, HarmlessKeeps
<1>4. CASE CallNothing(c) \/ CallStart(c) \/ CallStop(c) \/ CallJoin(c) \/ CallCancel(c)
  <2>1. UNCHANGED files
    BY <1>4 DEF CallNothing, CallStart, CallStop, CallJoin, CallCancel, Calling
  <2>2. hook' \in {hook, "waiting", "none"}
    <3>1. CASE CallNothing(c) \/ CallStart(c) \/ CallJoin(c)
      BY <3>1 DEF CallNothing, CallStart, CallJoin, hooking
    <3>2. CASE CallStop(c) \/ CallCancel(c)
      BY <3>2 DEF CallStop, CallCancel, BeginStop
    <3> QED BY <1>4, <3>1, <3>2
  <2> QED BY <2>1, <2>2, HarmlessKeeps DEF files, Harmless
<1>5. CASE Reacquired(c) \/ CheckFailed(c)
  BY <1>5, HarmlessKeeps DEF Reacquired, CheckFailed, files, hooking, Harmless
<1>6. CASE IntentDeleted(c)
  <2>1. Harmless(intent, intent')
    BY <1>6, ReturnHarmless DEF IntentDeleted, Harmless
  <2> QED BY <1>6, <2>1, HarmlessKeeps DEF IntentDeleted, hooking
<1>7. CASE Report(c)
  BY <1>7, EndHarmless, HarmlessKeeps DEF Report, hooking
<1> QED BY <1>1, <1>2, <1>3, <1>4, <1>5, <1>6, <1>7 DEF ServiceAction

LEMMA CompensationClosed ==
  ASSUME Inv, ClosedInv, NEW c \in Commands, Compensation(c) PROVE ClosedInv'
<1>1. intent \in InForce /\ intent # NoIntent
  <2>1. pc[c] \in Owning
    BY DEF Compensation, Compensate, StopActive, StopNotNeeded, RemoveFirewall, StopSettled,
           CompensationVerified, CompensationFailed, Owning
  <2> QED BY <2>1 DEF Inv, TypeOK, FilesTyped, IntentInv, OwnerKeepsIntent
<1>2. open' = open /\ hook' \in {hook, "waiting"}
  BY DEF Compensation, Compensate, StopActive, BeginStop, StopNotNeeded, RemoveFirewall,
         CompensationVerified, CompensationFailed, files, hooking
<1>3. CASE Compensate(c)
  <2>1. intent'.goal = "stopped"
    BY <1>1, <1>3 DEF Compensate, InForce
  <2> QED BY <1>2, <2>1, HarmlessKeeps DEF Harmless
<1>4. CASE StopActive(c) \/ StopNotNeeded(c)
  BY <1>2, <1>4, HarmlessKeeps DEF StopActive, StopNotNeeded, files, Harmless
<1>5. CASE RemoveFirewall(c) \/ CompensationVerified(c)
  <2>1. Harmless(intent, intent')
    BY <1>1, <1>5 DEF RemoveFirewall, CompensationVerified, Harmless, InForce
  <2> QED BY <1>2, <2>1, HarmlessKeeps
<1>6. CASE CompensationFailed(c)
  BY <1>2, <1>6, ReturnHarmless, HarmlessKeeps DEF CompensationFailed
<1> QED BY <1>3, <1>4, <1>5, <1>6 DEF Compensation

LEMMA HookClosed == ASSUME Inv, ClosedInv, Hook PROVE ClosedInv'
<1>1. CASE HookCleanup
  <2>1. UNCHANGED <<intent, open>>
    BY <1>1 DEF HookCleanup, files
  <2>2. hookAction = "up" => open = FALSE
    <3>1. open \in BOOLEAN
      BY DEF Inv, TypeOK, FilesTyped
    <3>2. CASE intent = NoIntent
      BY <1>1, <3>1, <3>2, NoIntentApart DEF HookCleanup, HookAccepted, AcceptedWithoutIntent
    <3>3. ASSUME intent # NoIntent, hookAction = "up" PROVE open = FALSE
      <4>1. intent \in InForce /\ IsCurrent(intent, "up")
        BY <1>1, <3>3 DEF HookCleanup, HookRepeats, Inv, TypeOK, FilesTyped
      <4>2. intent.open = open
        BY <1>1, <3>3 DEF HookCleanup, HookAccepted, Unchanged
      <4>3. intent.goal = "requested" /\ Starting(intent.action)
        BY <4>1 DEF IsCurrent, Expected, Plan, Starting, InForce, Actions
      <4> QED BY <3>3, <4>2, <4>3 DEF ClosedInv, StartsClosed
    <3> QED BY <3>2, <3>3
  <2>3. hook' = "load" => hookAction = "up"
    BY <1>1 DEF HookCleanup
  <2> QED BY <2>1, <2>2, <2>3 DEF ClosedInv, StartsClosed
<1>2. CASE HookProved
  <2>1. Harmless(intent, intent')
    <3>1. CASE HookAdvances
      <4>1. intent \in InForce /\ intent # NoIntent
        BY <3>1 DEF HookAdvances, Inv, TypeOK, FilesTyped
      <4> QED BY <1>2, <3>1, <4>1 DEF HookProved, Harmless, InForce
    <3>2. CASE ~HookAdvances
      BY <1>2, <3>2, Zenon DEF HookProved, Harmless
    <3> QED BY <3>1, <3>2
  <2> QED BY <1>2, <2>1, HarmlessKeeps DEF HookProved
<1>3. CASE HookAcquired \/ HookRefused \/ HookRepeated \/ HookLoad \/ HookBridge \/ HookUnproven
  <2>1. UNCHANGED files /\ hook' # "load"
    BY <1>3 DEF HookAcquired, HookRefused, HookRepeated, HookLoad, HookBridge, HookUnproven
  <2> QED BY <2>1, HarmlessKeeps DEF files, Harmless
<1> QED BY <1>1, <1>2, <1>3 DEF Hook

LEMMA SystemdClosed == ASSUME ClosedInv, Systemd PROVE ClosedInv'
<1>1. UNCHANGED files /\ hook' # "load"
  BY DEF Systemd, BringUp, StartDone, StartFailed, StopDone
<1> QED BY <1>1, HarmlessKeeps DEF files, Harmless

LEMMA EnvironmentClosed == ASSUME Inv, ClosedInv, Environment PROVE ClosedInv'
<1>1. CASE OutsideStart \/ OutsideStop \/ DockerStarted
  <2>1. UNCHANGED files /\ hook' \in {hook, "waiting"}
    BY <1>1 DEF OutsideStart, OutsideStop, BeginStop, DockerStarted, hooking
  <2> QED BY <2>1, HarmlessKeeps DEF files, Harmless
<1>2. CASE HookKilled \/ HookFails
  <2>1. UNCHANGED <<intent, open>> /\ hook' = "failed"
    BY <1>2 DEF HookKilled, HookFails, files
  <2> QED BY <2>1, HarmlessKeeps DEF Harmless
<1>3. ASSUME NEW c \in Commands, Crash(c) PROVE ClosedInv'
  BY <1>3, EndHarmless, HarmlessKeeps DEF Crash, hooking
<1>4. ASSUME NEW c \in Commands, TimedOut(c) PROVE ClosedInv'
  BY <1>4, HarmlessKeeps DEF TimedOut, files, hooking, Harmless
<1> QED BY <1>1, <1>2, <1>3, <1>4 DEF Environment

-----------------------------------------------------------------------------
LEMMA ClosedKept == Inv /\ ClosedInv /\ [Next]_vars => ClosedInv'
<1> SUFFICES ASSUME Inv, ClosedInv, [Next]_vars PROVE ClosedInv'
  OBVIOUS
<1>1. CASE UNCHANGED vars
  BY <1>1, HarmlessKeeps DEF vars, files, hooking, Harmless
<1>2. ASSUME NEW c \in Commands, Command(c) PROVE ClosedInv'
  BY <1>2, EntryClosed, BodyClosed, ServiceActionClosed, CompensationClosed DEF Command
<1>3. ASSUME NEW c \in Commands, NEW r \in Requests, Acquire(c, r) PROVE ClosedInv'
  BY <1>3, HarmlessKeeps DEF Acquire, files, hooking, Harmless
<1> QED BY <1>1, <1>2, <1>3, HookClosed, SystemdClosed, EnvironmentClosed DEF Next

(* Only a hook at the load loads the tables. *)
LEMMA OnlyHookLoads == [Next]_vars => (managed' => managed) \/ HookLoad
<1> SUFFICES ASSUME [Next]_vars, managed', ~HookLoad PROVE managed
  OBVIOUS
<1>1. CASE UNCHANGED vars
  BY <1>1 DEF vars, filter
<1>2. ASSUME NEW c \in Commands, Command(c) PROVE managed
  <2>1. CASE Entry(c) \/ Body(c)
    BY <2>1 DEF Entry, EntryRefused, EntryVerified, EntryDeleted, EntryClaimed, EntryPassed,
               Body, BodyRefused, BodyElse, filter
  <2>2. CASE ServiceAction(c)
    BY <2>2 DEF ServiceAction, RecordIntent, PrestateUnproven, IntentInvoking, CallNothing,
               CallStart, CallStop, CallJoin, CallCancel, Calling, Reacquired, CheckPassed,
               CheckFailed, IntentDeleted, Report, filter
  <2>3. CASE Compensation(c)
    BY <2>3 DEF Compensation, Compensate, StopActive, StopNotNeeded, RemoveFirewall,
               CompensationVerified, CompensationFailed, filter
  <2> QED BY <1>2, <2>1, <2>2, <2>3 DEF Command
<1>3. ASSUME NEW c \in Commands, NEW r \in Requests, Acquire(c, r) PROVE managed
  BY <1>3 DEF Acquire, filter
<1>4. CASE Hook
  BY <1>4 DEF Hook, HookAcquired, HookRefused, HookRepeated, HookCleanup, HookBridge, HookProved,
             HookUnproven, filter
<1>5. CASE Systemd
  BY <1>5 DEF Systemd, BringUp, StartDone, StartFailed, StopDone, filter
<1>6. CASE Environment
  BY <1>6 DEF Environment, OutsideStart, OutsideStop, DockerStarted, HookKilled, HookFails,
             Crash, TimedOut, filter
<1> QED BY <1>1, <1>2, <1>3, <1>4, <1>5, <1>6 DEF Next

(* Whatever dies, times out or is started from outside, no hook brings the      *)
(* interface's firewall up while a transition is open.                          *)
THEOREM ClosedWhileOpen == Spec => ClosedDuringTransition
<1>1. Init => ClosedInv
  BY DEF Init, ClosedInv, StartsClosed
<1>2. Spec => []ClosedInv
  BY <1>1, ClosedKept, Invariant, PTL DEF Spec
<1>3. Inv /\ ClosedInv /\ [Next]_vars => [open => (managed' => managed)]_vars
  <2> SUFFICES ASSUME ClosedInv, [Next]_vars, open, managed' PROVE managed
    OBVIOUS
  <2>1. ~HookLoad
    BY DEF HookLoad, ClosedInv
  <2> QED BY <2>1, OnlyHookLoads
<1> QED BY <1>2, <1>3, Invariant, PTL DEF Spec, ClosedDuringTransition

-----------------------------------------------------------------------------
(* The refinement of ServiceSwitch *)

(* The phases in which the intent of a process may be, by its next step. *)
PhaseOf(label) ==
  CASE label = "prepared" -> {"prepared"}
    [] label \in {"invoking", "waiting", "reacquire", "check"} -> {"invoking"}
    [] label = "compensate" -> {"prepared", "invoking", "compensating"}
    [] label \in {"compensating", "stopwait", "restop", "settle"} -> {"compensating"}
    [] label = "verified" -> {"verified"}
    [] OTHER -> Phases \cup {"none"}

PhaseInv ==
  /\ intent.phase = "verified" => intent.owner = None
  /\ \A c \in Commands : intent.phase \in PhaseOf(pc[c])

UnitInv ==
  /\ hook # "none" => unit \in {"activating", "deactivating"}
  /\ unit = "activating" /\ hook # "none" => link /\ hookAction = "up"
  /\ unit = "activating" /\ hook = "passed" => managed

SwitchInv == Inv /\ PhaseInv /\ UnitInv

LEMMA IntentPhases == Inv => intent.phase \in Phases \cup {"none"}
  BY NoIntentApart DEF Inv, TypeOK, FilesTyped, InForce

(* Labels at which the intent may be in any phase, and moves that stay in one. *)
LEMMA PhasesOfLabels ==
  /\ \A l \in {"idle", "entry", "body", "report"} : PhaseOf(l) = Phases \cup {"none"}
  /\ PhaseOf("waiting") = PhaseOf("reacquire") /\ PhaseOf("stopwait") = PhaseOf("restop")
  BY DEF PhaseOf

(* A step that keeps the phase and moves commands between labels of one phase. *)
LEMMA PhaseKept ==
  ASSUME Inv, PhaseInv, intent'.phase = intent.phase, intent'.owner \in {intent.owner, None},
         Inv', \A c \in Commands : \/ pc'[c] = pc[c]
                                   \/ pc'[c] \in {"idle", "entry", "body", "report"}
                                   \/ pc[c] = "waiting" /\ pc'[c] = "reacquire"
                                   \/ pc[c] = "stopwait" /\ pc'[c] = "restop"
  PROVE  PhaseInv'
<1>1. \A c \in Commands : intent'.phase \in PhaseOf(pc'[c])
  BY IntentPhases, PhasesOfLabels DEF PhaseInv
<1> QED BY <1>1 DEF PhaseInv, PhaseOf

(* A step of the intent's owner, or of a command that claims an ownerless one *)
(* under the lock: nobody else works on the intent.                            *)
LEMMA PhaseMoved ==
  ASSUME Inv, PhaseInv, NEW c \in Commands, NEW l \in Labels, pc' = [pc EXCEPT ![c] = l],
         \A d \in Commands \ {c} : pc[d] \notin Owning \cup {"verified"},
         intent'.phase \in PhaseOf(l), intent'.phase \in Phases \cup {"none"},
         intent'.phase = "verified" => intent'.owner = None
  PROVE  PhaseInv'
<1>1. ASSUME NEW d \in Commands \ {c} PROVE intent'.phase \in PhaseOf(pc'[d])
  <2>1. pc'[d] = pc[d] /\ pc[d] \in {"idle", "entry", "body", "report"}
    BY DEF Inv, TypeOK, LocalTyped, Labels
  <2> QED BY <2>1, PhasesOfLabels
<1>2. pc'[c] = l
  BY DEF Inv, TypeOK, LocalTyped
<1>3. \A d \in Commands : intent'.phase \in PhaseOf(pc'[d])
  BY <1>1, <1>2
<1> QED BY <1>3 DEF PhaseInv, PhaseOf

(* Who owns the intent, or holds the lock without anybody owning it, is the    *)
(* only command that works on one.                                             *)
LEMMA OthersIdle ==
  ASSUME Inv, NEW c \in Commands, lock = c, intent.owner \in {None, c}
  PROVE  \A d \in Commands \ {c} : pc[d] \notin Owning \cup {"verified"}
  BY NoneAssumption DEF Inv, LockInv, Locked, IntentInv, OwnerKeepsIntent, Owning

LEMMA OwnersAlone ==
  ASSUME Inv, NEW c \in Commands, pc[c] \in Owning
  PROVE  \A d \in Commands \ {c} : pc[d] \notin Owning \cup {"verified"}
  BY NoneAssumption DEF Inv, IntentInv, OwnerKeepsIntent

(* A process that ends or raises leaves the intent as it is, or deletes it     *)
(* when it is the only one to work on it.                                       *)
LEMMA EndPhases ==
  ASSUME Inv, Inv', PhaseInv, NEW c \in Commands, NEW i, i \in {intent, NoIntent},
         \/ End(c, i)
         \/ pc' = [pc EXCEPT ![c] = "report"] /\ intent' = i,
         i = NoIntent => lock = c /\ intent.owner \in {None, c}
  PROVE  PhaseInv'
<1>1. PICK l \in {"idle", "report"} : pc' = [pc EXCEPT ![c] = l]
  BY DEF End
<1>2. CASE i = intent
  <2>1. intent'.phase = intent.phase /\ intent'.owner \in {intent.owner, None}
    <3>1. CASE intent' = intent
      BY <3>1
    <3>2. CASE intent' # intent
      <4>1. intent.owner = c /\ intent' = [intent EXCEPT !.owner = None]
        BY <1>2, <3>2 DEF End
      <4>2. intent \in InForce
        BY <4>1, NoIntentApart, NoneAssumption DEF Inv, TypeOK, FilesTyped
      <4> QED BY <4>1, <4>2 DEF InForce
    <3> QED BY <3>1, <3>2
  <2>2. \A d \in Commands : pc'[d] = pc[d] \/ pc'[d] \in {"idle", "entry", "body", "report"}
    BY <1>1 DEF Inv, TypeOK, LocalTyped
  <2> QED BY <2>1, <2>2, PhaseKept
<1>3. CASE i = NoIntent
  <2>1. intent' = NoIntent
    BY <1>3, NoIntentApart, NoneAssumption DEF End
  <2>2. \A d \in Commands \ {c} : pc[d] \notin Owning \cup {"verified"}
    BY <1>3, OthersIdle
  <2>3. l \in Labels /\ intent'.phase \in PhaseOf(l)
    BY <2>1, PhasesOfLabels, NoIntentApart DEF Labels
  <2> QED BY <1>1, <2>1, <2>2, <2>3, PhaseMoved, NoIntentApart
<1> QED BY <1>2, <1>3

LEMMA EntryPhases ==
  ASSUME Inv, Inv', PhaseInv, NEW c \in Commands, Entry(c) PROVE PhaseInv'
<1>1. CASE EntryRefused(c)
  <2>1. intent = NoIntent => intent.owner = None
    BY NoIntentApart
  <2>2. ~(intent = NoIntent)
    BY <1>1, <2>1 DEF EntryRefused, OwnerAlive
  <2> QED BY <1>1, <2>2, EndPhases DEF EntryRefused
<1>2. CASE EntryVerified(c) \/ EntryDeleted(c) \/ EntryClaimed(c)
  <2>1. lock = c /\ intent.owner = None /\ pc[c] = "entry" /\ intent \in InForce
    BY <1>2, NoIntentApart
       DEF EntryVerified, EntryDeleted, EntryClaimed, OwnerAlive, Inv, TypeOK, FilesTyped, LockInv,
           Locked
  <2>2. PICK l \in {"entry", "compensate"} :
           pc' = [pc EXCEPT ![c] = l] /\ (l = "compensate" => EntryClaimed(c))
    <3>1. CASE EntryVerified(c) \/ EntryDeleted(c)
      BY <2>1, <3>1 DEF EntryVerified, EntryDeleted, local, Inv, TypeOK, LocalTyped
    <3>2. CASE EntryClaimed(c)
      BY <3>2 DEF EntryClaimed, Goto
    <3> QED BY <1>2, <3>1, <3>2
  <2>3. /\ intent'.phase \in Phases \cup {"none"}
        /\ intent'.phase = "verified" => intent'.owner = None
        /\ EntryClaimed(c) => intent'.phase \in {"prepared", "invoking", "compensating"}
    BY <1>2, <2>1, NoIntentApart
       DEF EntryVerified, EntryDeleted, EntryClaimed, InForce, Phases
  <2>4. l \in Labels /\ intent'.phase \in PhaseOf(l)
    BY <2>2, <2>3, PhasesOfLabels DEF PhaseOf, Labels, Owning
  <2> QED BY <2>1, <2>2, <2>3, <2>4, PhaseMoved, OthersIdle
<1>3. CASE EntryPassed(c)
  <2>1. \A d \in Commands : pc'[d] = pc[d] \/ pc'[d] = "body"
    BY <1>3 DEF EntryPassed, Inv, TypeOK, LocalTyped
  <2> QED BY <1>3, <2>1, PhaseKept DEF EntryPassed, files
<1> QED BY <1>1, <1>2, <1>3 DEF Entry

LEMMA BodyPhases ==
  ASSUME Inv, Inv', PhaseInv, NEW c \in Commands, Body(c) PROVE PhaseInv'
<1>1. End(c, intent) /\ lock = c /\ intent = NoIntent
  BY DEF Body, BodyRefused, BodyElse, Inv, LockInv, IntentInv, Locked
<1> QED BY <1>1, EndPhases, NoIntentApart

LEMMA ServiceActionPhases ==
  ASSUME Inv, Inv', PhaseInv, NEW c \in Commands, ServiceAction(c) PROVE PhaseInv'
<1>1. CASE RecordIntent(c)
  <2>1. lock = c /\ intent = NoIntent
    BY <1>1 DEF RecordIntent, Recording, Inv, LockInv, IntentInv, Locked
  <2>2. "prepared" \in Labels /\ intent'.phase = "prepared"
    BY <1>1 DEF RecordIntent, Labels, Owning
  <2>3. "prepared" \in PhaseOf("prepared") /\ "prepared" \in Phases
    BY DEF PhaseOf, Phases
  <2>4. \A d \in Commands \ {c} : pc[d] \notin Owning \cup {"verified"}
    BY <2>1, OthersIdle, NoIntentApart
  <2> QED BY <1>1, <2>2, <2>3, <2>4, PhaseMoved DEF RecordIntent, Goto
<1>2. CASE PrestateUnproven(c) \/ Report(c)
  <2>1. lock = c
    BY <1>2 DEF PrestateUnproven, Recording, Report, Inv, LockInv, Locked
  <2>2. \/ End(c, intent)
        \/ pc' = [pc EXCEPT ![c] = "report"] /\ intent' = intent
    BY <1>2 DEF PrestateUnproven, Report, Return, Goto
  <2> QED BY <2>1, <2>2, EndPhases, NoIntentApart
<1>3. CASE \/ IntentInvoking(c) \/ CheckPassed(c)
           \/ CallNothing(c) \/ CallStart(c) \/ CallStop(c) \/ CallJoin(c) \/ CallCancel(c)
           \/ Reacquired(c) \/ CheckFailed(c)
  <2>1. pc[c] \in {"prepared", "invoking", "check", "reacquire", "restop"} /\ pc[c] \in Owning
    BY <1>3 DEF IntentInvoking, CheckPassed, CallNothing, CallStart, CallStop, CallJoin, CallCancel,
                Calling, Reacquired, CheckFailed, Owning
  <2>2. intent \in InForce /\ intent.phase \in PhaseOf(pc[c])
    BY <2>1 DEF Inv, TypeOK, FilesTyped, IntentInv, OwnerKeepsIntent, PhaseInv
  <2>3. PICK l \in Labels : /\ pc' = [pc EXCEPT ![c] = l]
                            /\ intent'.phase \in PhaseOf(l)
                            /\ intent'.phase = "verified" => intent'.owner = None
    <3>1. CASE IntentInvoking(c)
      <4>1. intent'.phase = "invoking" /\ "invoking" \in Labels
        BY <2>2, <3>1 DEF IntentInvoking, InForce, Labels, Owning
      <4>2. "invoking" \in PhaseOf("invoking") /\ pc' = [pc EXCEPT ![c] = "invoking"]
        BY <3>1 DEF IntentInvoking, Goto, PhaseOf
      <4> QED BY <4>1, <4>2
    <3>2. CASE CheckPassed(c)
      <4>1. intent'.phase = "verified" /\ intent'.owner = None /\ "verified" \in Labels
        BY <2>2, <3>2 DEF CheckPassed, InForce, Labels
      <4>2. "verified" \in PhaseOf("verified") /\ pc' = [pc EXCEPT ![c] = "verified"]
        BY <3>2 DEF CheckPassed, Goto, PhaseOf
      <4> QED BY <4>1, <4>2
    <3>3. CASE CallNothing(c) \/ CallStart(c) \/ CallStop(c) \/ CallJoin(c) \/ CallCancel(c)
      <4>1. intent' = intent /\ pc[c] = "invoking"
        BY <3>3 DEF CallNothing, CallStart, CallStop, CallJoin, CallCancel, Calling, files
      <4>2. PICK l \in {"waiting", "reacquire"} : pc' = [pc EXCEPT ![c] = l]
        BY <3>3 DEF CallNothing, CallStart, CallStop, CallJoin, CallCancel, Goto
      <4>3. l \in Labels /\ PhaseOf(l) = {"invoking"} /\ PhaseOf("invoking") = {"invoking"}
        BY <4>2 DEF Labels, Owning, PhaseOf
      <4> QED BY <2>2, <4>1, <4>2, <4>3
    <3>4. CASE Reacquired(c)
      <4>1. intent' = intent /\ PhaseOf(pc[c]) = PhaseOf(IF pc[c] = "reacquire" THEN "check" ELSE "settle")
        BY <3>4 DEF Reacquired, files, PhaseOf
      <4>2. (IF pc[c] = "reacquire" THEN "check" ELSE "settle") \in Labels
        BY DEF Labels, Owning
      <4>3. intent'.phase # "verified"
        BY <2>2, <3>4, <4>1 DEF Reacquired, PhaseOf
      <4> QED BY <2>2, <3>4, <4>1, <4>2, <4>3 DEF Reacquired, Goto
    <3>5. CASE CheckFailed(c)
      <4>1. intent'.phase = "invoking" /\ "compensate" \in Labels
        BY <2>2, <3>5 DEF CheckFailed, files, PhaseOf, Labels, Owning
      <4> QED BY <3>5, <4>1 DEF CheckFailed, PhaseOf
    <3> QED BY <1>3, <3>1, <3>2, <3>3, <3>4, <3>5
  <2>4. intent'.phase \in Phases \cup {"none"}
    BY NoIntentApart DEF Inv, TypeOK, FilesTyped, InForce
  <2> QED BY <2>1, <2>3, <2>4, PhaseMoved, OwnersAlone
<1>4. CASE IntentDeleted(c)
  <2>1. lock = c /\ intent.owner = None
    BY <1>4 DEF IntentDeleted, Inv, LockInv, IntentInv, Locked
  <2>2. CASE Return(c, NoIntent)
    <3>1. \/ End(c, NoIntent)
          \/ pc' = [pc EXCEPT ![c] = "report"] /\ intent' = NoIntent
      BY <2>2 DEF Return, Goto
    <3> QED BY <2>1, <3>1, EndPhases
  <2>3. CASE Goto(c, "entry") /\ intent' = NoIntent
    <3>1. intent'.phase \in PhaseOf("entry") /\ "entry" \in Labels
      BY <2>3, PhasesOfLabels, NoIntentApart DEF Labels
    <3> QED BY <2>1, <2>3, <3>1, OthersIdle, PhaseMoved, NoIntentApart DEF Goto
  <2> QED BY <1>4, <2>2, <2>3 DEF IntentDeleted
<1> QED BY <1>1, <1>2, <1>3, <1>4 DEF ServiceAction

LEMMA CompensationPhases ==
  ASSUME Inv, Inv', PhaseInv, NEW c \in Commands, Compensation(c) PROVE PhaseInv'
<1>1. /\ pc[c] \in {"compensate", "compensating", "settle"} /\ pc[c] \in Owning
      /\ pc[c] \in Locked
  BY DEF Compensation, Compensate, StopActive, StopNotNeeded, RemoveFirewall, StopSettled,
         CompensationVerified, CompensationFailed, Owning, Locked
<1>2. intent \in InForce /\ intent # NoIntent /\ intent.phase \in PhaseOf(pc[c]) /\ lock = c
  BY <1>1 DEF Inv, TypeOK, FilesTyped, IntentInv, OwnerKeepsIntent, LockInv, PhaseInv
<1>3. CASE CompensationFailed(c)
  <2>1. \/ End(c, intent)
        \/ pc' = [pc EXCEPT ![c] = "report"] /\ intent' = intent
    BY <1>3 DEF CompensationFailed, Return, Goto
  <2> QED BY <1>2, <2>1, EndPhases
<1>4. CASE CompensationVerified(c)
  <2>1. intent'.phase = "verified" /\ intent'.owner = None /\ "verified" \in Labels
    BY <1>2, <1>4 DEF CompensationVerified, InForce, Labels
  <2>2. "verified" \in PhaseOf("verified") /\ "verified" \in Phases
    BY DEF PhaseOf, Phases
  <2> QED BY <1>1, <1>4, <2>1, <2>2, PhaseMoved, OwnersAlone DEF CompensationVerified, Goto
<1>5. CASE Compensate(c) \/ StopActive(c) \/ StopNotNeeded(c) \/ RemoveFirewall(c)
  <2>1. intent'.phase = "compensating"
    <3>1. CASE Compensate(c)
      BY <1>2, <3>1 DEF Compensate, InForce
    <3>2. CASE StopActive(c) \/ StopNotNeeded(c)
      BY <1>2, <3>2 DEF StopActive, StopNotNeeded, files, PhaseOf
    <3>3. CASE RemoveFirewall(c)
      <4>1. intent.phase = "compensating"
        BY <1>2, <3>3 DEF RemoveFirewall, StopSettled, PhaseOf
      <4> QED BY <1>2, <3>3, <4>1 DEF RemoveFirewall, InForce
    <3> QED BY <1>5, <3>1, <3>2, <3>3
  <2>2. PICK l \in {"compensating", "stopwait", "settle"} : pc' = [pc EXCEPT ![c] = l]
    <3>1. CASE Compensate(c) \/ StopActive(c) \/ StopNotNeeded(c)
      BY <3>1 DEF Compensate, StopActive, StopNotNeeded, Goto
    <3>2. CASE RemoveFirewall(c)
      BY <3>2 DEF RemoveFirewall, StopSettled, local, Inv, TypeOK, LocalTyped
    <3> QED BY <1>5, <3>1, <3>2
  <2>3. l \in Labels /\ PhaseOf(l) = {"compensating"} /\ "compensating" \in Phases
    BY <2>2 DEF Labels, Owning, PhaseOf, Phases
  <2> QED BY <1>1, <2>1, <2>2, <2>3, PhaseMoved, OwnersAlone
<1> QED BY <1>3, <1>4, <1>5 DEF Compensation

(* Hooks, systemd and the environment never change the phase. *)
LEMMA OthersPhases ==
  ASSUME Inv, Inv', PhaseInv, Hook \/ Systemd \/ Environment PROVE PhaseInv'
<1>1. CASE Hook
  <2>1. UNCHANGED pc
    BY <1>1 DEF Hook, HookAcquired, HookRefused, HookRepeated, HookCleanup, HookLoad, HookBridge,
               HookProved, HookUnproven, local
  <2>2. intent'.phase = intent.phase /\ intent'.owner = intent.owner
    <3>1. CASE HookProved /\ HookAdvances
      <4>1. intent \in InForce
        BY <3>1 DEF HookAdvances, Inv, TypeOK, FilesTyped
      <4> QED BY <3>1, <4>1 DEF HookProved, InForce
    <3>2. CASE HookProved /\ ~HookAdvances
      BY <3>2, Zenon DEF HookProved
    <3>3. CASE ~HookProved
      BY <1>1, <3>3 DEF Hook, HookAcquired, HookRefused, HookRepeated, HookCleanup, HookLoad,
                        HookBridge, HookUnproven, files
    <3> QED BY <3>1, <3>2, <3>3
  <2> QED BY <2>1, <2>2, PhaseKept
<1>2. CASE Systemd
  <2>1. \A c \in Commands : \/ pc'[c] = pc[c]
                            \/ pc[c] = "waiting" /\ pc'[c] = "reacquire"
                            \/ pc[c] = "stopwait" /\ pc'[c] = "restop"
    BY <1>2 DEF Systemd, BringUp, StartDone, StartFailed, StopDone, JobEnds, local, Inv, TypeOK,
               LocalTyped, ClientInv
  <2>2. UNCHANGED intent
    BY <1>2 DEF Systemd, BringUp, StartDone, StartFailed, StopDone, files
  <2> QED BY <2>1, <2>2, PhaseKept
<1>3. CASE Environment
  <2>1. CASE OutsideStart \/ OutsideStop \/ DockerStarted \/ HookKilled \/ HookFails
    <3>1. UNCHANGED <<intent, pc>>
      BY <2>1 DEF OutsideStart, OutsideStop, DockerStarted, HookKilled, HookFails, files, local
    <3> QED BY <3>1, PhaseKept
  <2>2. ASSUME NEW c \in Commands, Crash(c) PROVE PhaseInv'
    <3>1. CASE intent = NoIntent
      <4>1. intent' = intent
        BY <2>2, <3>1, NoIntentApart, NoneAssumption DEF Crash, End
      <4>2. \A d \in Commands : pc'[d] = pc[d] \/ pc'[d] = "idle"
        BY <2>2 DEF Crash, End, Inv, TypeOK, LocalTyped
      <4> QED BY <4>1, <4>2, PhaseKept
    <3>2. CASE intent # NoIntent
      BY <2>2, <3>2, EndPhases DEF Crash
    <3> QED BY <3>1, <3>2
  <2>3. ASSUME NEW c \in Commands, TimedOut(c) PROVE PhaseInv'
    <3>1. \A d \in Commands : \/ pc'[d] = pc[d]
                              \/ pc[d] = "waiting" /\ pc'[d] = "reacquire"
                              \/ pc[d] = "stopwait" /\ pc'[d] = "restop"
      BY <2>3 DEF TimedOut, Inv, TypeOK, LocalTyped
    <3> QED BY <2>3, <3>1, PhaseKept DEF TimedOut, files
  <2> QED BY <1>3, <2>1, <2>2, <2>3 DEF Environment
<1> QED BY <1>1, <1>2, <1>3

-----------------------------------------------------------------------------
LEMMA UnitSame ==
  ASSUME UnitInv, UNCHANGED <<unit, link, hook, hookAction>>, unit = "activating" => managed' = managed
  PROVE  UnitInv'
  BY DEF UnitInv

LEMMA CommandUnit == ASSUME UnitInv, NEW c \in Commands, Command(c) PROVE UnitInv'
<1>1. CASE Entry(c) \/ Body(c)
  <2>1. UNCHANGED <<systemd, hooking, filter>>
    BY <1>1 DEF Entry, EntryRefused, EntryVerified, EntryDeleted, EntryClaimed, EntryPassed,
               Body, BodyRefused, BodyElse
  <2> QED BY <2>1, UnitSame DEF systemd, hooking, filter
<1>2. CASE ServiceAction(c)
  <2>1. CASE CallStart(c)
    BY <2>1 DEF CallStart, UnitInv, hooking
  <2>2. CASE CallStop(c)
    BY <2>2 DEF CallStop, BeginStop, UnitInv
  <2>3. CASE CallCancel(c)
    BY <2>3 DEF CallCancel, UnitInv
  <2>4. CASE CallJoin(c)
    BY <2>4, UnitSame DEF CallJoin, Calling, hooking, filter
  <2>5. CASE ~(CallStart(c) \/ CallStop(c) \/ CallCancel(c) \/ CallJoin(c))
    <3>1. UNCHANGED <<systemd, hooking, filter>>
      BY <1>2, <2>5 DEF ServiceAction, RecordIntent, PrestateUnproven, IntentInvoking, CallNothing,
                 Calling, Reacquired, CheckPassed, CheckFailed, IntentDeleted, Report
    <3> QED BY <3>1, UnitSame DEF systemd, hooking, filter
  <2> QED BY <2>1, <2>2, <2>3, <2>4, <2>5
<1>3. CASE Compensation(c)
  <2>1. CASE StopActive(c)
    BY <2>1 DEF StopActive, BeginStop, UnitInv
  <2>2. CASE RemoveFirewall(c)
    BY <2>2 DEF RemoveFirewall, Stopped, UnitInv, systemd, hooking
  <2>3. CASE ~(StopActive(c) \/ RemoveFirewall(c))
    <3>1. UNCHANGED <<systemd, hooking, filter>>
      BY <1>3, <2>3 DEF Compensation, Compensate, StopNotNeeded, CompensationVerified,
                        CompensationFailed
    <3> QED BY <3>1, UnitSame DEF systemd, hooking, filter
  <2> QED BY <2>1, <2>2, <2>3
<1> QED BY <1>1, <1>2, <1>3 DEF Command

LEMMA UnitKept == UnitInv /\ [Next]_vars => UnitInv'
<1> SUFFICES ASSUME UnitInv, [Next]_vars PROVE UnitInv'
  OBVIOUS
<1>1. CASE UNCHANGED vars
  BY <1>1, UnitSame DEF vars, systemd, hooking, filter
<1>2. ASSUME NEW c \in Commands, NEW r \in Requests, Acquire(c, r) PROVE UnitInv'
  BY <1>2, UnitSame DEF Acquire, systemd, hooking, filter
<1>3. CASE Hook
  <2>1. UNCHANGED <<unit, link, hookAction>>
    BY <1>3 DEF Hook, HookAcquired, HookRefused, HookRepeated, HookCleanup, HookLoad, HookBridge,
               HookProved, HookUnproven, systemd
  <2>2. hook # "none" /\ hook' = "passed" => managed' = managed /\ FirewallIs(hookAction)
    BY <1>3 DEF Hook, HookAcquired, HookRefused, HookRepeated, HookCleanup, HookLoad, HookBridge,
               HookProved, HookUnproven, filter
  <2>3. hook # "none"
    BY <1>3 DEF Hook, HookAcquired, HookRefused, HookRepeated, HookCleanup, HookLoad, HookBridge,
               HookProved, HookUnproven
  <2> QED BY <2>1, <2>2, <2>3 DEF UnitInv, FirewallIs
<1>4. CASE Systemd
  BY <1>4 DEF Systemd, BringUp, StartDone, StartFailed, StopDone, UnitInv
<1>5. CASE Environment
  <2>1. CASE OutsideStart
    BY <2>1 DEF OutsideStart, hooking, UnitInv
  <2>2. CASE OutsideStop
    BY <2>2 DEF OutsideStop, BeginStop, UnitInv
  <2>3. CASE DockerStarted
    BY <2>3, UnitSame DEF DockerStarted, systemd, hooking
  <2>4. CASE HookKilled \/ HookFails
    BY <2>4 DEF HookKilled, HookFails, HookRunning, UnitInv, systemd
  <2>5. ASSUME NEW c \in Commands, Crash(c) \/ TimedOut(c) PROVE UnitInv'
    BY <2>5, UnitSame DEF Crash, TimedOut, hooking, filter
  <2> QED BY <1>5, <2>1, <2>2, <2>3, <2>4, <2>5 DEF Environment
<1> QED BY <1>1, <1>2, <1>3, <1>4, <1>5, CommandUnit DEF Next

LEMMA PhasesKept == Inv /\ PhaseInv /\ [Next]_vars => PhaseInv'
<1> SUFFICES ASSUME Inv, PhaseInv, [Next]_vars PROVE PhaseInv'
  OBVIOUS
<1>1. Inv'
  BY NextKeeps
<1>2. CASE UNCHANGED vars
  BY <1>1, <1>2, PhaseKept DEF vars, files, local
<1>3. ASSUME NEW c \in Commands, Command(c) PROVE PhaseInv'
  BY <1>1, <1>3, EntryPhases, BodyPhases, ServiceActionPhases, CompensationPhases DEF Command
<1>4. ASSUME NEW c \in Commands, NEW r \in Requests, Acquire(c, r) PROVE PhaseInv'
  <2>1. \A d \in Commands : pc'[d] = pc[d] \/ pc'[d] = "entry"
    BY <1>4 DEF Acquire, Inv, TypeOK, LocalTyped
  <2> QED BY <1>1, <1>4, <2>1, PhaseKept DEF Acquire, files
<1> QED BY <1>1, <1>2, <1>3, <1>4, OthersPhases DEF Next

LEMMA SwitchInvariant == Spec => []SwitchInv
<1>1. Init => PhaseInv /\ UnitInv
  BY NoIntentApart, PhasesOfLabels DEF Init, PhaseInv, UnitInv
<1> QED BY <1>1, InitTyped, NextKeeps, PhasesKept, UnitKept, PTL DEF Spec, SwitchInv

-----------------------------------------------------------------------------
(* Every step is a step of ServiceSwitch, or none *)

(* What ServiceSwitch sees of an intent. *)
View(i) == <<i.phase, i.action, i.wasActive>>

SwitchStep == [Switch!Next]_(Switch!vars)

(* A step that keeps the view of the intent. *)
LEMMA ServiceMoves ==
  ASSUME Inv, Inv',
         \/ intent' = intent
         \/ intent \in InForce /\ intent' \in InForce /\ View(intent') = View(intent),
         \/ Active' = Active /\ managed' = managed
         \/ Active /\ ~Active' /\ managed' = managed
         \/ ~Active /\ Active' /\ managed /\ managed'
         \/ ~Active /\ ~Active'
  PROVE  SwitchStep
<1> DEFINE operation == IF intent.phase \in {"none", "verified"} THEN "none" ELSE intent.action
           progress  == IF intent.phase = "prepared" /\ (Active <=> intent.wasActive) THEN "untouched"
                        ELSE IF intent.phase = "compensating" THEN "abandoned"
                        ELSE IF intent.phase \in {"none", "verified"} THEN "none" ELSE "acting"
<1>1. UNCHANGED operation
  BY DEF View
<1>2. Active' = Active => UNCHANGED progress
  BY DEF View
<1>3. IF operation = "none" THEN progress' = "none" ELSE progress' \in Switch!Stages
  <2>1. intent.action \in Actions \/ intent = NoIntent
    BY DEF Inv, TypeOK, FilesTyped, InForce
  <2>2. intent.phase \in Phases \cup {"none"}
    BY IntentPhases
  <2>3. intent'.phase = intent.phase
    BY DEF View
  <2> QED BY <2>1, <2>2, <2>3, NoIntentApart DEF Switch!Stages, Phases, Actions
<1>4. managed \in BOOLEAN /\ managed' \in BOOLEAN
  BY DEF Inv, TypeOK, FilterTyped
<1>5. CASE Active' = Active /\ managed' = managed
  BY <1>1, <1>2, <1>5 DEF SwitchStep, Switch!vars
<1>6. CASE Active /\ ~Active' /\ managed' = managed
  <2>1. Switch!LeaveService
    BY <1>1, <1>3, <1>6 DEF Switch!LeaveService, Switch!Observed
  <2> QED BY <2>1 DEF SwitchStep, Switch!Next
<1>7. CASE ~Active /\ Active' /\ managed /\ managed'
  <2>1. Switch!EnterService
    BY <1>1, <1>3, <1>4, <1>7 DEF Switch!EnterService, Switch!Observed
  <2> QED BY <2>1 DEF SwitchStep, Switch!Next
<1>8. CASE ~Active /\ ~Active' /\ managed' # managed
  <2>1. Switch!Filter
    <3>1. managed' = ~managed
      BY <1>4, <1>8
    <3>2. Active' = Active
      BY <1>8 DEF Active
    <3> QED BY <1>1, <1>2, <1>8, <3>1, <3>2 DEF Switch!Filter
  <2> QED BY <2>1 DEF SwitchStep, Switch!Next
<1> QED BY <1>5, <1>6, <1>7, <1>8 DEF Active

(* Steps on the intent alone: the interface and its firewall stay as they are. *)
LEMMA RecordIntentMoves ==
  ASSUME Inv, NEW c \in Commands, RecordIntent(c) PROVE SwitchStep
<1>1. intent = NoIntent
  BY DEF RecordIntent, Recording, Inv, IntentInv
<1>2. /\ intent'.phase = "prepared" /\ intent'.action \in Actions
      /\ intent'.wasActive = Active /\ Active' = Active /\ managed' = managed
  BY DEF RecordIntent, Recording, Active, systemd, filter
<1>3. Switch!Begin
  BY <1>1, <1>2, NoIntentApart DEF Switch!Begin, Switch!Actions, Actions
<1> QED BY <1>3 DEF SwitchStep, Switch!Next

LEMMA IntentProceeds ==
  ASSUME Inv, intent # NoIntent, intent.phase \in {"prepared", "invoking", "compensating"},
         intent'.phase \in {"invoking", "compensating"}, intent'.action = intent.action,
         Active' = Active, managed' = managed
  PROVE  SwitchStep
<1>1. intent.action \in Actions
  BY DEF Inv, TypeOK, FilesTyped, InForce
<1>2. Switch!Proceed
  BY <1>1 DEF Switch!Proceed, Switch!Stages, Actions
<1> QED BY <1>2 DEF SwitchStep, Switch!Next

LEMMA IntentEnds ==
  ASSUME Inv, intent # NoIntent, intent'.phase \in {"verified", "none"},
         Active' = Active, managed' = managed,
         \/ intent.phase = "verified"
         \/ intent.phase = "prepared" /\ (Active <=> intent.wasActive)
         \/ intent.phase = "invoking" /\ (Active <=> Starting(intent.action))
         \/ intent.phase = "compensating" /\ ~Active
  PROVE  SwitchStep
<1>1. intent.action \in Actions
  BY DEF Inv, TypeOK, FilesTyped, InForce
<1>2. CASE intent.phase = "verified"
  <2>1. UNCHANGED Switch!vars
    BY <1>2 DEF Switch!vars
  <2> QED BY <2>1 DEF SwitchStep
<1>3. CASE intent.phase # "verified"
  <2>1. intent.action # "none" /\ (Starting(intent.action) <=> intent.action # "stop")
    BY <1>1 DEF Actions, Starting
  <2>2. Switch!End
    BY <1>3, <2>1 DEF Switch!End
  <2> QED BY <2>2 DEF SwitchStep, Switch!Next
<1> QED BY <1>2, <1>3

(* A process that ends or raises, its intent left as it is. *)
LEMMA EndMoves ==
  ASSUME Inv, Inv', NEW c \in Commands,
         End(c, intent) \/ intent' = intent, Active' = Active, managed' = managed
  PROVE  SwitchStep
<1>1. CASE intent' = intent
  BY <1>1, ServiceMoves
<1>2. CASE intent' # intent
  <2>1. intent.owner = c /\ intent' = [intent EXCEPT !.owner = None]
    BY <1>2 DEF End
  <2>2. intent \in InForce
    BY <2>1, NoIntentApart, NoneAssumption DEF Inv, TypeOK, FilesTyped
  <2>3. intent' \in InForce /\ View(intent') = View(intent)
    BY <2>1, <2>2 DEF InForce, View
  <2> QED BY <2>2, <2>3, ServiceMoves
<1> QED BY <1>1, <1>2

LEMMA EntryMoves ==
  ASSUME SwitchInv, SwitchInv', NEW c \in Commands, Entry(c) PROVE SwitchStep
<1>0. Active' = Active /\ managed' = managed /\ Inv /\ Inv'
  BY DEF Entry, EntryRefused, EntryVerified, EntryDeleted, EntryClaimed, EntryPassed, systemd,
         filter, Active, SwitchInv
<1>1. CASE EntryRefused(c) \/ EntryPassed(c)
  BY <1>0, <1>1, EndMoves DEF EntryRefused, EntryPassed, files
<1>2. CASE EntryVerified(c)
  <2>1. intent # NoIntent /\ intent'.phase = "verified"
    BY <1>0, <1>2, NoIntentApart DEF EntryVerified, Inv, TypeOK, FilesTyped, InForce
  <2> QED BY <1>0, <1>2, <2>1, IntentEnds DEF EntryVerified, RequestedPostcondition
<1>3. CASE EntryDeleted(c)
  BY <1>0, <1>3, IntentEnds, NoIntentApart DEF EntryDeleted, PrestatePostcondition
<1>4. CASE EntryClaimed(c)
  <2>1. intent \in InForce
    BY <1>0, <1>4, NoIntentApart DEF EntryClaimed, Inv, TypeOK, FilesTyped
  <2>2. intent' \in InForce /\ View(intent') = View(intent)
    BY <1>4, <2>1 DEF EntryClaimed, InForce, View
  <2> QED BY <1>0, <2>1, <2>2, ServiceMoves
<1> QED BY <1>1, <1>2, <1>3, <1>4 DEF Entry

LEMMA ServiceActionMoves ==
  ASSUME SwitchInv, SwitchInv', NEW c \in Commands, ServiceAction(c) PROVE SwitchStep
<1>0. Inv /\ Inv' /\ managed' = managed
  BY DEF SwitchInv, ServiceAction, RecordIntent, PrestateUnproven, IntentInvoking, CallNothing,
         CallStart, CallStop, CallJoin, CallCancel, Calling, Reacquired, CheckPassed, CheckFailed,
         IntentDeleted, Report, filter
<1>1. CASE RecordIntent(c)
  BY <1>0, <1>1, RecordIntentMoves
<1>2. CASE CallNothing(c) \/ CallStart(c) \/ CallStop(c) \/ CallJoin(c) \/ CallCancel(c)
  <2>1. intent' = intent /\ (Active' = Active \/ (Active /\ ~Active') \/ (~Active /\ ~Active'))
    BY <1>2 DEF CallNothing, CallStart, CallStop, CallJoin, CallCancel, BeginStop, Calling, files,
                systemd, Active
  <2> QED BY <1>0, <2>1, ServiceMoves
<1>3. CASE ~(CallNothing(c) \/ CallStart(c) \/ CallStop(c) \/ CallJoin(c) \/ CallCancel(c))
  <2>0. Active' = Active
    BY <1>3 DEF ServiceAction, RecordIntent, PrestateUnproven, IntentInvoking, Reacquired,
                CheckPassed, CheckFailed, IntentDeleted, Report, Active, systemd
  <2>1. CASE PrestateUnproven(c) \/ Report(c) \/ Reacquired(c) \/ CheckFailed(c)
    BY <1>0, <2>0, <2>1, EndMoves DEF PrestateUnproven, Report, Return, Reacquired, CheckFailed, files
  <2>2. CASE IntentInvoking(c)
    <3>1. pc[c] \in Owning /\ "prepared" \in PhaseOf("prepared")
      BY <2>2 DEF IntentInvoking, Owning, PhaseOf
    <3>2. intent \in InForce /\ intent # NoIntent /\ intent.phase = "prepared"
      BY <2>2, <3>1 DEF IntentInvoking, SwitchInv, PhaseInv, PhaseOf, Inv, TypeOK, FilesTyped,
                        IntentInv, OwnerKeepsIntent
    <3>3. intent'.phase = "invoking" /\ intent'.action = intent.action
      BY <2>2, <3>2 DEF IntentInvoking, InForce
    <3> QED BY <1>0, <2>0, <3>2, <3>3, IntentProceeds
  <2>3. CASE CheckPassed(c)
    <3>1. pc[c] \in Owning
      BY <2>3 DEF CheckPassed, Owning
    <3>2. intent \in InForce /\ intent # NoIntent /\ intent.phase = "invoking"
      BY <2>3, <3>1 DEF CheckPassed, SwitchInv, PhaseInv, PhaseOf, Inv, TypeOK, FilesTyped,
                        IntentInv, OwnerKeepsIntent
    <3>3. intent'.phase = "verified"
      BY <2>3, <3>2 DEF CheckPassed, InForce
    <3> QED BY <1>0, <2>0, <2>3, <3>2, <3>3, IntentEnds DEF CheckPassed, RequestedPostcondition
  <2>4. CASE IntentDeleted(c)
    <3>1. intent.phase = "verified"
      BY <2>4 DEF IntentDeleted, SwitchInv, PhaseInv, PhaseOf
    <3>2. intent' = NoIntent
      BY <2>4, NoIntentApart, NoneAssumption DEF IntentDeleted, Return, End
    <3> QED BY <1>0, <2>0, <3>1, <3>2, IntentEnds, NoIntentApart
  <2> QED BY <1>1, <1>3, <2>1, <2>2, <2>3, <2>4 DEF ServiceAction
<1> QED BY <1>2, <1>3

LEMMA CompensationMoves ==
  ASSUME SwitchInv, SwitchInv', NEW c \in Commands, Compensation(c) PROVE SwitchStep
<1>0. /\ pc[c] \in {"compensate", "compensating", "settle"} /\ pc[c] \in Owning
  BY DEF Compensation, Compensate, StopActive, StopNotNeeded, RemoveFirewall, StopSettled,
         CompensationVerified, CompensationFailed, Owning
<1>1. /\ Inv /\ Inv' /\ intent \in InForce /\ intent # NoIntent
      /\ intent.phase \in {"prepared", "invoking", "compensating"}
      /\ pc[c] # "compensate" => intent.phase = "compensating"
  BY <1>0 DEF SwitchInv, PhaseInv, PhaseOf, Inv, TypeOK, FilesTyped, IntentInv, OwnerKeepsIntent
<1>2. CASE Compensate(c)
  <2>1. /\ intent'.phase = "compensating" /\ intent'.action = intent.action
        /\ Active' = Active /\ managed' = managed
    BY <1>1, <1>2 DEF Compensate, InForce, Active, systemd, filter
  <2> QED BY <1>1, <2>1, IntentProceeds
<1>3. CASE StopActive(c)
  <2>1. intent' = intent /\ Active /\ ~Active' /\ managed' = managed
    BY <1>3 DEF StopActive, BeginStop, Active, files, filter
  <2> QED BY <1>1, <2>1, ServiceMoves
<1>4. CASE StopNotNeeded(c) \/ CompensationFailed(c)
  <2>1. Active' = Active /\ managed' = managed
    BY <1>4 DEF StopNotNeeded, CompensationFailed, Active, systemd, filter
  <2> QED BY <1>1, <1>4, <2>1, EndMoves DEF StopNotNeeded, CompensationFailed, Return, files
<1>5. CASE RemoveFirewall(c)
  <2>1. ~Active /\ ~Active'
    BY <1>5 DEF RemoveFirewall, Stopped, Active, systemd
  <2>2. intent' \in InForce /\ View(intent') = View(intent)
    <3>1. intent' # NoIntent
      BY <1>1, <1>5, NoIntentApart DEF RemoveFirewall, InForce, Phases
    <3> QED BY <1>1, <1>5, <3>1 DEF RemoveFirewall, Inv, TypeOK, FilesTyped, InForce, View
  <2> QED BY <1>1, <2>1, <2>2, ServiceMoves
<1>6. CASE CompensationVerified(c)
  <2>1. /\ intent'.phase = "verified" /\ ~Active /\ Active' = Active /\ managed' = managed
        /\ pc[c] # "compensate"
    BY <1>1, <1>6 DEF CompensationVerified, StopSettled, InForce, Active, systemd, filter
  <2> QED BY <1>1, <2>1, IntentEnds
<1> QED BY <1>2, <1>3, <1>4, <1>5, <1>6 DEF Compensation

LEMMA HookSwitch == SwitchInv /\ SwitchInv' /\ Hook => SwitchStep
<1> SUFFICES ASSUME SwitchInv, SwitchInv', Hook PROVE SwitchStep
  OBVIOUS
<1>1. Inv /\ Inv' /\ Active' = Active
  BY DEF SwitchInv, Hook, HookAcquired, HookRefused, HookRepeated, HookCleanup, HookLoad, HookBridge,
         HookProved, HookUnproven, systemd, Active
<1>2. ~Active
  BY DEF SwitchInv, UnitInv, Active, Hook, HookAcquired, HookRefused, HookRepeated, HookCleanup,
         HookLoad, HookBridge, HookProved, HookUnproven
<1>3. CASE HookProved /\ HookAdvances
  <2>1. intent \in InForce
    BY <1>1, <1>3 DEF HookAdvances, Inv, TypeOK, FilesTyped
  <2>2. View(intent') = View(intent) /\ intent'.phase # "none"
    BY <1>3, <2>1 DEF HookProved, InForce, View, Phases
  <2>3. intent' \in InForce
    BY <1>1, <2>2, NoIntentApart DEF Inv, TypeOK, FilesTyped
  <2> QED BY <1>1, <1>2, <2>1, <2>2, <2>3, ServiceMoves
<1>4. CASE ~(HookProved /\ HookAdvances)
  <2>1. intent' = intent
    <3>1. CASE HookProved
      BY <1>4, <3>1, Zenon DEF HookProved
    <3>2. CASE ~HookProved
      BY <3>2 DEF Hook, HookAcquired, HookRefused, HookRepeated, HookCleanup, HookLoad, HookBridge,
                  HookUnproven, files
    <3> QED BY <3>1, <3>2
  <2> QED BY <1>1, <1>2, <2>1, ServiceMoves
<1> QED BY <1>3, <1>4

LEMMA SystemdSwitch == SwitchInv /\ SwitchInv' /\ Systemd => SwitchStep
<1> SUFFICES ASSUME SwitchInv, SwitchInv', Systemd PROVE SwitchStep
  OBVIOUS
<1>1. Inv /\ Inv' /\ intent' = intent /\ managed' = managed
  BY DEF SwitchInv, Systemd, BringUp, StartDone, StartFailed, StopDone, files, filter
<1>2. CASE StartDone
  <2>1. ~Active /\ Active' /\ managed
    BY <1>2 DEF StartDone, SwitchInv, UnitInv, Active
  <2> QED BY <1>1, <2>1, ServiceMoves
<1>3. CASE BringUp \/ StartFailed \/ StopDone
  <2>1. ~Active /\ ~Active'
    BY <1>3 DEF BringUp, StartFailed, StopDone, Active
  <2> QED BY <1>1, <2>1, ServiceMoves
<1> QED BY <1>2, <1>3 DEF Systemd

LEMMA EnvironmentSwitch == SwitchInv /\ SwitchInv' /\ Environment => SwitchStep
<1> SUFFICES ASSUME SwitchInv, SwitchInv', Environment PROVE SwitchStep
  OBVIOUS
<1>0. Inv /\ Inv'
  BY DEF SwitchInv
<1>1. CASE OutsideStart \/ OutsideStop \/ DockerStarted
  <2>1. /\ intent' = intent /\ managed' = managed
        /\ Active' = Active \/ (Active /\ ~Active') \/ (~Active /\ ~Active')
    BY <1>1 DEF OutsideStart, OutsideStop, BeginStop, DockerStarted, files, filter, systemd, Active
  <2> QED BY <1>0, <2>1, ServiceMoves
<1>2. CASE HookKilled \/ HookFails
  <2>1. intent' = intent /\ ~Active /\ ~Active'
    BY <1>2 DEF HookKilled, HookFails, HookRunning, SwitchInv, UnitInv, files, systemd, Active
  <2> QED BY <1>0, <2>1, ServiceMoves
<1>3. ASSUME NEW c \in Commands, Crash(c) PROVE SwitchStep
  BY <1>0, <1>3, EndMoves DEF Crash, Active, filter
<1>4. ASSUME NEW c \in Commands, TimedOut(c) PROVE SwitchStep
  BY <1>0, <1>4, EndMoves DEF TimedOut, files, Active, filter
<1> QED BY <1>1, <1>2, <1>3, <1>4 DEF Environment

LEMMA StepsMap == SwitchInv /\ SwitchInv' /\ [Next]_vars => [Switch!Next]_(Switch!vars)
<1> SUFFICES ASSUME SwitchInv, SwitchInv', [Next]_vars PROVE SwitchStep
  BY DEF SwitchStep
<1>1. Inv /\ Inv'
  BY DEF SwitchInv
<1>2. CASE UNCHANGED vars
  BY <1>1, <1>2, ServiceMoves DEF vars, files, systemd, filter, Active
<1>3. ASSUME NEW c \in Commands, Command(c) PROVE SwitchStep
  <2>1. CASE Body(c)
    BY <1>1, <2>1, EndMoves DEF Body, BodyRefused, BodyElse, systemd, filter, Active
  <2> QED BY <1>3, <2>1, EntryMoves, ServiceActionMoves, CompensationMoves DEF Command
<1>4. ASSUME NEW c \in Commands, NEW r \in Requests, Acquire(c, r) PROVE SwitchStep
  BY <1>1, <1>4, ServiceMoves DEF Acquire, files, systemd, filter, Active
<1> QED BY <1>2, <1>3, <1>4, HookSwitch, SystemdSwitch, EnvironmentSwitch DEF Next

(* Every behaviour of the lock, the intent, the hooks and systemd is one of    *)
(* ServiceSwitch: one operation at a time, which ends with what was requested,  *)
(* with nothing touched, or abandoned with the interface out of service; and    *)
(* the interface enters service only behind the firewall, which nobody changes  *)
(* until it has left.                                                            *)
THEOREM ImplementsSwitch == Spec => Implements
<1>1. Init => Switch!Init
  BY NoIntentApart DEF Init, Switch!Init, Active
<1> QED BY <1>1, SwitchInvariant, StepsMap, PTL DEF Spec, Implements, Switch!Spec

-----------------------------------------------------------------------------
(* "Interface stopped" on a host where Docker does not start later *)

FailSafe(c) == request[c] = "failsafe" /\ stage[c] = "action"
Stopping    == (Owning \ {"prepared", "invoking"}) \cup {"verified", "report"}

(* A start job that completes unless its hook fails. *)
Coming == unit = "activating" /\ hook \in {"load", "bridge", "prove", "passed"}

ProvenInv == Active \/ (unit = "activating" /\ hook = "passed") => FirewallIs("up")

StoppingInv ==
  /\ \A c \in Commands : pc[c] \in {"idle", "entry"} => stage[c] = "entry"
  /\ \A c \in Commands : pc[c] = "report" => FailSafe(c)
  /\ \A c \in Commands : FailSafe(c) /\ pc[c] \in Owning => intent.action = "stop"
  /\ \A c \in Commands : FailSafe(c) /\ pc[c] \in Stopping => ~Active /\ ~Coming

LEMMA ProvenSame ==
  ASSUME ProvenInv, UNCHANGED filter,
         Active' => Active \/ (unit = "activating" /\ hook = "passed"),
         unit' = "activating" /\ hook' = "passed" => unit = "activating" /\ hook = "passed"
  PROVE  ProvenInv'
  BY DEF ProvenInv, FirewallIs, filter

LEMMA ProvenKept ==
  ASSUME ~DockerStarts, Inv, UnitInv, ProvenInv, [Next]_vars
  PROVE  ProvenInv'
<1>1. CASE UNCHANGED vars
  BY <1>1, ProvenSame DEF vars, systemd, hooking, Active
<1>2. ASSUME NEW c \in Commands, Command(c) PROVE ProvenInv'
  <2>1. CASE RemoveFirewall(c)
    BY <2>1 DEF RemoveFirewall, Stopped, ProvenInv, UnitInv, Active, systemd, hooking
  <2>2. CASE StopActive(c)
    BY <2>2, ProvenSame DEF StopActive, BeginStop, Active
  <2>3. CASE CallNothing(c) \/ CallStart(c) \/ CallStop(c) \/ CallJoin(c) \/ CallCancel(c)
    <3>1. UNCHANGED filter
      BY <2>3 DEF CallNothing, CallStart, CallStop, CallJoin, CallCancel, Calling
    <3>2. Active' => Active
      BY <2>3 DEF CallNothing, CallStart, CallStop, CallJoin, CallCancel, BeginStop, systemd, Active
    <3>3. unit' = "activating" /\ hook' = "passed" => unit = "activating" /\ hook = "passed"
      BY <2>3 DEF CallNothing, CallStart, CallStop, CallJoin, CallCancel, BeginStop, systemd, hooking,
                  UnitInv
    <3> QED BY <3>1, <3>2, <3>3, ProvenSame
  <2>4. CASE ~(\/ RemoveFirewall(c) \/ StopActive(c) \/ CallNothing(c) \/ CallStart(c)
               \/ CallStop(c) \/ CallJoin(c) \/ CallCancel(c))
    <3>1. UNCHANGED <<systemd, hooking, filter>>
      <4>1. CASE Entry(c) \/ Body(c)
        BY <4>1 DEF Entry, EntryRefused, EntryVerified, EntryDeleted, EntryClaimed, EntryPassed,
                    Body, BodyRefused, BodyElse
      <4>2. CASE ServiceAction(c)
        BY <2>4, <4>2 DEF ServiceAction, RecordIntent, PrestateUnproven, IntentInvoking, Reacquired,
                    CheckPassed, CheckFailed, IntentDeleted, Report
      <4>3. CASE Compensation(c)
        BY <2>4, <4>3 DEF Compensation, Compensate, StopNotNeeded, CompensationVerified,
                    CompensationFailed
      <4> QED BY <1>2, <4>1, <4>2, <4>3 DEF Command
    <3> QED BY <3>1, ProvenSame DEF systemd, hooking, Active
  <2> QED BY <2>1, <2>2, <2>3, <2>4
<1>3. ASSUME NEW c \in Commands, NEW r \in Requests, Acquire(c, r) PROVE ProvenInv'
  BY <1>3, ProvenSame DEF Acquire, systemd, hooking, Active
<1>4. CASE Hook
  <2>1. unit' = unit /\ hook # "none"
    BY <1>4 DEF Hook, HookAcquired, HookRefused, HookRepeated, HookCleanup, HookLoad, HookBridge,
               HookProved, HookUnproven, systemd
  <2>2. ~Active /\ ~Active' /\ (unit = "activating" => hookAction = "up")
    BY <2>1 DEF UnitInv, Active
  <2>3. hook' = "passed" => FirewallIs(hookAction) /\ UNCHANGED filter
    BY <1>4 DEF Hook, HookAcquired, HookRefused, HookRepeated, HookCleanup, HookLoad, HookBridge,
               HookProved, HookUnproven
  <2> QED BY <2>1, <2>2, <2>3 DEF ProvenInv, FirewallIs, filter
<1>5. CASE Systemd
  <2>1. UNCHANGED filter
    BY <1>5 DEF Systemd, BringUp, StartDone, StartFailed, StopDone
  <2>2. Active' => Active \/ (unit = "activating" /\ hook = "passed")
    BY <1>5 DEF Systemd, BringUp, StartDone, StartFailed, StopDone, Active
  <2>3. hook' # "passed"
    BY <1>5 DEF Systemd, BringUp, StartDone, StartFailed, StopDone
  <2> QED BY <2>1, <2>2, <2>3, ProvenSame
<1>6. CASE Environment
  <2>1. CASE OutsideStart \/ OutsideStop
    <3>1. /\ UNCHANGED filter /\ (Active' => Active)
          /\ unit' = "activating" /\ hook' = "passed" => unit = "activating" /\ hook = "passed"
      BY <2>1 DEF OutsideStart, OutsideStop, BeginStop, hooking, Active, UnitInv
    <3> QED BY <3>1, ProvenSame
  <2>2. CASE HookKilled \/ HookFails
    <3>1. unit' = unit /\ ~Active /\ hook' = "failed"
      BY <2>2 DEF HookKilled, HookFails, HookRunning, systemd, Active, UnitInv
    <3> QED BY <3>1 DEF ProvenInv, Active
  <2>3. ASSUME NEW c \in Commands, Crash(c) \/ TimedOut(c) PROVE ProvenInv'
    BY <2>3, ProvenSame DEF Crash, TimedOut, hooking, Active
  <2>4. ~DockerStarted
    BY DEF DockerStarted
  <2> QED BY <1>6, <2>1, <2>2, <2>3, <2>4 DEF Environment
<1> QED BY <1>1, <1>2, <1>3, <1>4, <1>5, <1>6 DEF Next

(* Under an intent that only expects a hook down, or under the lock of a        *)
(* command, no start can complete.                                              *)
LEMMA NoneComes ==
  ASSUME Inv, UnitInv, NEW c \in Commands, ~Active, ~Coming, [Next]_vars,
         lock = c \/ (intent # NoIntent /\ Expected(intent) = <<"down">>)
  PROVE  ~Active' /\ ~Coming'
<1>1. CASE UNCHANGED vars
  BY <1>1 DEF vars, systemd, hooking, Active, Coming
<1>2. ASSUME NEW d \in Commands, Command(d) PROVE ~Active' /\ ~Coming'
  <2>1. CASE CallNothing(d) \/ CallStart(d) \/ CallStop(d) \/ CallJoin(d) \/ CallCancel(d)
    BY <2>1 DEF CallNothing, CallStart, CallStop, CallJoin, CallCancel, BeginStop, systemd, hooking,
                UnitInv, Active, Coming
  <2>2. CASE StopActive(d)
    BY <2>2 DEF StopActive, BeginStop, Active
  <2>3. CASE ~(\/ StopActive(d) \/ CallNothing(d) \/ CallStart(d) \/ CallStop(d) \/ CallJoin(d)
               \/ CallCancel(d))
    <3>1. UNCHANGED <<unit, hook>>
      <4>1. CASE Entry(d) \/ Body(d)
        BY <4>1 DEF Entry, EntryRefused, EntryVerified, EntryDeleted, EntryClaimed, EntryPassed,
                    Body, BodyRefused, BodyElse, systemd, hooking
      <4>2. CASE ServiceAction(d)
        BY <2>3, <4>2 DEF ServiceAction, RecordIntent, PrestateUnproven, IntentInvoking, Reacquired,
                    CheckPassed, CheckFailed, IntentDeleted, Report, systemd, hooking
      <4>3. CASE Compensation(d)
        BY <2>3, <4>3 DEF Compensation, Compensate, StopNotNeeded, RemoveFirewall,
                    CompensationVerified, CompensationFailed, systemd, hooking
      <4> QED BY <1>2, <4>1, <4>2, <4>3 DEF Command
    <3> QED BY <3>1 DEF Active, Coming
  <2> QED BY <2>1, <2>2, <2>3
<1>3. ASSUME NEW d \in Commands, NEW r \in Requests, Acquire(d, r) PROVE ~Active' /\ ~Coming'
  BY <1>3 DEF Acquire, systemd, hooking, Active, Coming
<1>4. CASE Hook
  <2>1. unit' = unit
    BY <1>4 DEF Hook, HookAcquired, HookRefused, HookRepeated, HookCleanup, HookLoad, HookBridge,
               HookProved, HookUnproven, systemd
  <2>2. ASSUME HookRepeated \/ HookCleanup, unit = "activating" PROVE FALSE
    <3>1. hookAction = "up" /\ lock = "hook" /\ HookAccepted
      BY <2>2 DEF HookRepeated, HookCleanup, UnitInv, HookRunning, Inv, LockInv
    <3>2. intent # NoIntent /\ Expected(intent) = <<"down">>
      BY <3>1, NoneAssumption
    <3>3. intent.next \in 0..2
      BY <3>2 DEF Inv, TypeOK, FilesTyped, InForce
    <3>4. ~IsCurrent(intent, "up") /\ ~IsDuplicate(intent, "up")
      <4>1. intent.next <= Len(Expected(intent))
        BY <3>2 DEF Inv, TypeOK, FilesTyped
      <4> QED BY <3>2, <3>3, <4>1 DEF IsCurrent, IsDuplicate
    <3> QED BY <3>1, <3>2, <3>4 DEF HookAccepted
  <2>3. CASE unit = "activating" /\ ~(HookRepeated \/ HookCleanup)
    BY <1>4, <2>1, <2>3 DEF Hook, HookAcquired, HookRefused, HookLoad, HookBridge, HookProved,
                            HookUnproven, Coming, Active
  <2> QED BY <1>4, <2>1, <2>2, <2>3 DEF Coming, Active
<1>5. CASE Systemd
  BY <1>5 DEF Systemd, BringUp, StartDone, StartFailed, StopDone, Active, Coming
<1>6. CASE Environment
  <2>1. CASE OutsideStart
    BY <2>1 DEF OutsideStart, UnitInv, Active, Coming, hooking
  <2>2. CASE OutsideStop
    BY <2>2 DEF OutsideStop, BeginStop, Active
  <2>3. CASE DockerStarted \/ HookKilled \/ HookFails
    BY <2>3 DEF DockerStarted, HookKilled, HookFails, systemd, hooking, Active, Coming
  <2>4. ASSUME NEW d \in Commands, Crash(d) \/ TimedOut(d) PROVE ~Active' /\ ~Coming'
    BY <2>4 DEF Crash, TimedOut, hooking, Active, Coming
  <2> QED BY <1>6, <2>1, <2>2, <2>3, <2>4 DEF Environment
<1> QED BY <1>1, <1>2, <1>3, <1>4, <1>5, <1>6 DEF Next

(* The state of one command, after a step of another or of none. *)
Still(c) == pc'[c] = pc[c] /\ request'[c] = request[c] /\ stage'[c] = stage[c]

LEMMA OthersStill ==
  ASSUME Inv, NEW c \in Commands, NEW d \in Commands \ {c}, Command(d) PROVE Still(c)
<1>1. CASE Entry(d) \/ Body(d)
  BY <1>1 DEF Entry, EntryRefused, EntryVerified, EntryDeleted, EntryClaimed, EntryPassed,
              Body, BodyRefused, BodyElse, End, Goto, local, Still, Inv, TypeOK, LocalTyped
<1>2. CASE ServiceAction(d)
  BY <1>2 DEF ServiceAction, RecordIntent, PrestateUnproven, IntentInvoking, CallNothing, CallStart,
              CallStop, CallJoin, CallCancel, Reacquired, CheckPassed, CheckFailed, IntentDeleted,
              Report, Return, End, Goto, Still, Inv, TypeOK, LocalTyped
<1>3. CASE Compensation(d)
  BY <1>3 DEF Compensation, Compensate, StopActive, StopNotNeeded, RemoveFirewall,
              CompensationVerified, CompensationFailed, Return, End, Goto, local, Still, Inv, TypeOK,
              LocalTyped
<1> QED BY <1>1, <1>2, <1>3 DEF Command

Calls(c) == CallNothing(c) \/ CallStart(c) \/ CallStop(c) \/ CallJoin(c) \/ CallCancel(c)

(* How a fail-safe stop comes to one of its labels: on its way already, by its  *)
(* record or its call, or by finding the firewall in neither state.              *)
LEMMA FailSafeMoves ==
  ASSUME Inv, StoppingInv, [Next]_vars, NEW c \in Commands,
         request'[c] = "failsafe", stage'[c] = "action", pc'[c] \in Owning \cup Stopping
  PROVE  /\ FailSafe(c)
         /\ \/ RecordIntent(c) \/ PrestateUnproven(c) \/ Calls(c)
            \/ pc[c] \in Stopping
            \/ pc[c] \in {"prepared", "invoking"} /\ pc'[c] \in {"prepared", "invoking"}
<1>1. CASE Still(c)
  BY <1>1 DEF Still, FailSafe, Stopping, Owning
<1>2. ASSUME NEW d \in Commands, Command(d), ~Still(c)
      PROVE  /\ FailSafe(c)
             /\ \/ RecordIntent(c) \/ PrestateUnproven(c) \/ Calls(c)
                \/ pc[c] \in Stopping
                \/ pc[c] \in {"prepared", "invoking"} /\ pc'[c] \in {"prepared", "invoking"}
  <2>1. Command(c)
    BY <1>2, OthersStill
  <2>2. ~End(c, intent) /\ ~End(c, NoIntent)
    BY DEF End, Inv, TypeOK, LocalTyped, Stopping, Owning
  <2>3. ~Entry(c) /\ ~Body(c)
    BY <2>2 DEF Entry, EntryRefused, EntryVerified, EntryDeleted, EntryClaimed, EntryPassed, Body,
                BodyRefused, BodyElse, Goto, local, StoppingInv, Inv, TypeOK, LocalTyped, Stopping,
                Owning
  <2>4. CASE ServiceAction(c)
    <3>1. UNCHANGED <<request, stage>>
      BY <2>2, <2>4 DEF ServiceAction, RecordIntent, PrestateUnproven, IntentInvoking, CallNothing,
                CallStart, CallStop, CallJoin, CallCancel, Reacquired, CheckPassed, CheckFailed,
                IntentDeleted, Report, Return, Goto
    <3>2. CASE IntentInvoking(c)
      BY <3>1, <3>2 DEF IntentInvoking, Goto, FailSafe, Inv, TypeOK, LocalTyped
    <3>3. CASE Reacquired(c) \/ CheckPassed(c) \/ CheckFailed(c) \/ IntentDeleted(c) \/ Report(c)
      BY <3>1, <3>3 DEF Reacquired, CheckPassed, CheckFailed, IntentDeleted, Report, FailSafe,
                        Stopping, Owning
    <3> QED BY <2>4, <3>1, <3>2, <3>3 DEF ServiceAction, FailSafe, Calls
  <2>5. CASE Compensation(c)
    BY <2>2, <2>5 DEF Compensation, Compensate, StopActive, StopNotNeeded, RemoveFirewall,
              StopSettled, CompensationVerified, CompensationFailed, Return, Goto, local, FailSafe,
              Stopping, Owning
  <2> QED BY <2>1, <2>3, <2>4, <2>5 DEF Command
<1>3. ASSUME NEW d \in Commands, NEW r \in Requests, Acquire(d, r) PROVE Still(c)
  BY <1>3 DEF Acquire, Still, Inv, TypeOK, LocalTyped, Stopping, Owning
<1>4. CASE UNCHANGED vars \/ Hook
  <2>1. UNCHANGED local
    BY <1>4 DEF vars, Hook, HookAcquired, HookRefused, HookRepeated, HookCleanup, HookLoad,
                HookBridge, HookProved, HookUnproven
  <2> QED BY <1>1, <2>1 DEF Still, local
<1>5. CASE Systemd \/ Environment
  <2>1. ASSUME NEW d \in Commands, Crash(d) PROVE Still(c)
    BY <2>1 DEF Crash, End, Still, Inv, TypeOK, LocalTyped, Stopping, Owning
  <2>2. ASSUME NEW d \in Commands, TimedOut(d)
        PROVE  FailSafe(c) /\ (Still(c) \/ pc[c] \in Stopping)
    BY <2>2 DEF TimedOut, Still, FailSafe, Inv, TypeOK, LocalTyped, Stopping, Owning
  <2>3. CASE Systemd
    <3>1. UNCHANGED <<request, stage>> /\ (pc'[c] = pc[c] \/ pc[c] \in {"waiting", "stopwait"})
      BY <2>3 DEF Systemd, BringUp, StartDone, StartFailed, StopDone, JobEnds, ClientInv, local, Inv,
                  TypeOK, LocalTyped
    <3> QED BY <1>1, <3>1 DEF Still, FailSafe, Stopping, Owning
  <2>4. CASE OutsideStart \/ OutsideStop \/ DockerStarted \/ HookKilled \/ HookFails
    <3>1. Still(c)
      BY <2>4 DEF OutsideStart, OutsideStop, DockerStarted, HookKilled, HookFails, local, Still
    <3> QED BY <1>1, <3>1
  <2> QED BY <1>1, <1>5, <2>1, <2>2, <2>3, <2>4 DEF Environment
<1> QED BY <1>1, <1>2, <1>3, <1>4, <1>5 DEF Next

(* While a process works on its intent, the action in it stays. *)
LEMMA ActionStays ==
  ASSUME Inv, [Next]_vars, NEW c \in Commands, pc[c] \in Owning, intent' # NoIntent,
         intent'.owner = c
  PROVE  intent'.action = intent.action
<1>1. intent \in InForce /\ intent.owner = c /\ intent # NoIntent
  BY DEF Inv, TypeOK, FilesTyped, IntentInv, OwnerKeepsIntent
<1>2. CASE UNCHANGED intent
  BY <1>2
<1>3. ASSUME NEW d \in Commands, Command(d) PROVE intent'.action = intent.action
  <2>1. CASE Entry(d)
    BY <1>1, <2>1, NoneAssumption
       DEF Entry, EntryRefused, EntryVerified, EntryDeleted, EntryClaimed, EntryPassed, OwnerAlive, End,
           InForce, files
  <2>2. CASE Body(d)
    BY <1>1, <2>2 DEF Body, BodyRefused, BodyElse, Inv, IntentInv
  <2>3. CASE ServiceAction(d)
    <3>1. ~RecordIntent(d) /\ ~PrestateUnproven(d) /\ ~IntentDeleted(d)
      BY <1>1, NoneAssumption DEF RecordIntent, PrestateUnproven, Recording, IntentDeleted, Inv, IntentInv
    <3>2. CASE IntentInvoking(d) \/ CheckPassed(d) \/ Report(d)
      BY <1>1, <3>2 DEF IntentInvoking, CheckPassed, Report, End, InForce
    <3>3. CASE ~(IntentInvoking(d) \/ CheckPassed(d) \/ Report(d))
      BY <2>3, <3>1, <3>3 DEF ServiceAction, CallNothing, CallStart, CallStop, CallJoin, CallCancel,
                              Calling, Reacquired, CheckFailed, files
    <3> QED BY <3>2, <3>3
  <2>4. CASE Compensation(d)
    <3>1. CASE CompensationFailed(d)
      BY <1>1, <3>1 DEF CompensationFailed, Return, End, InForce
    <3>2. CASE ~CompensationFailed(d)
      BY <1>1, <2>4, <3>2 DEF Compensation, Compensate, StopActive, StopNotNeeded, RemoveFirewall,
                              CompensationVerified, InForce, files
    <3> QED BY <3>1, <3>2
  <2> QED BY <1>3, <2>1, <2>2, <2>3, <2>4 DEF Command
<1>4. ASSUME NEW d \in Commands, NEW r \in Requests, Acquire(d, r) PROVE UNCHANGED intent
  BY <1>4 DEF Acquire, files
<1>5. CASE Hook
  <2>1. CASE HookProved /\ HookAdvances
    BY <1>1, <2>1 DEF HookProved, InForce
  <2>2. CASE HookProved /\ ~HookAdvances
    <3>1. UNCHANGED intent
      BY <2>2, Zenon DEF HookProved
    <3> QED BY <3>1
  <2>3. CASE ~HookProved
    BY <1>5, <2>3 DEF Hook, HookAcquired, HookRefused, HookRepeated, HookCleanup, HookLoad,
                      HookBridge, HookUnproven, files
  <2> QED BY <2>1, <2>2, <2>3
<1>6. CASE Systemd \/ Environment
  <2>1. ASSUME NEW d \in Commands, Crash(d) PROVE intent'.action = intent.action
    BY <1>1, <2>1 DEF Crash, End, InForce
  <2>2. CASE ~(\E d \in Commands : Crash(d))
    BY <1>6, <2>2 DEF Systemd, BringUp, StartDone, StartFailed, StopDone, Environment, OutsideStart,
                      OutsideStop, DockerStarted, HookKilled, HookFails, TimedOut, files
  <2> QED BY <2>1, <2>2
<1>7. UNCHANGED vars => UNCHANGED intent
  BY DEF vars, files
<1> QED BY <1>2, <1>3, <1>4, <1>5, <1>6, <1>7 DEF Next

LEMMA StagesKept ==
  ASSUME Inv, StoppingInv, [Next]_vars, NEW c \in Commands, pc'[c] \in {"idle", "entry"}
  PROVE  stage'[c] = "entry"
<1>1. CASE Still(c)
  BY <1>1 DEF Still, StoppingInv
<1>2. ASSUME End(c, intent) \/ End(c, NoIntent) PROVE stage'[c] = "entry"
  BY <1>2 DEF End, Inv, TypeOK, LocalTyped
<1>3. ASSUME NEW d \in Commands, Command(d), ~Still(c), ~End(c, intent), ~End(c, NoIntent)
      PROVE  stage'[c] = "entry"
  <2>1. Command(c)
    BY <1>3, OthersStill
  <2>2. CASE Entry(c) \/ Body(c) \/ Compensation(c)
    BY <1>3, <2>2 DEF Entry, EntryRefused, EntryVerified, EntryDeleted, EntryClaimed, EntryPassed, Body,
              BodyRefused, BodyElse, Compensation, Compensate, StopActive, StopNotNeeded,
              RemoveFirewall, CompensationVerified, CompensationFailed, Return, Goto, local, Still, Inv,
              TypeOK, LocalTyped
  <2>3. CASE ServiceAction(c)
    <3>1. IntentDeleted(c)
      BY <1>3, <2>3 DEF ServiceAction, RecordIntent, PrestateUnproven, IntentInvoking, CallNothing,
              CallStart, CallStop, CallJoin, CallCancel, Reacquired, CheckPassed, CheckFailed, Report,
              Return, Goto, Inv, TypeOK, LocalTyped
    <3> QED BY <1>3, <3>1 DEF IntentDeleted, Return, Goto, Inv, TypeOK, LocalTyped
  <2> QED BY <2>1, <2>2, <2>3 DEF Command
<1>4. ASSUME NEW d \in Commands, NEW r \in Requests, Acquire(d, r) PROVE stage'[c] = "entry"
  BY <1>4 DEF Acquire, StoppingInv, Inv, TypeOK, LocalTyped
<1>5. CASE UNCHANGED vars \/ Hook \/ Systemd \/ Environment
  <2>1. CASE UNCHANGED local
    BY <1>1, <2>1 DEF Still, local
  <2>2. ASSUME NEW d \in Commands, Crash(d) PROVE stage'[c] = "entry"
    BY <1>1, <2>2 DEF Crash, End, Still, Inv, TypeOK, LocalTyped
  <2>3. ASSUME NEW d \in Commands, TimedOut(d) PROVE Still(c)
    BY <2>3 DEF TimedOut, Still, Inv, TypeOK, LocalTyped
  <2>4. CASE UNCHANGED vars \/ Hook
    <3>1. UNCHANGED local
      BY <2>4 DEF vars, Hook, HookAcquired, HookRefused, HookRepeated, HookCleanup, HookLoad,
                  HookBridge, HookProved, HookUnproven
    <3> QED BY <2>1, <3>1
  <2>5. CASE Systemd
    <3>1. Still(c) \/ pc'[c] \in {"reacquire", "restop"}
      BY <2>5 DEF Systemd, BringUp, StartDone, StartFailed, StopDone, JobEnds, local, Still, Inv,
                  TypeOK, LocalTyped
    <3> QED BY <1>1, <3>1
  <2>6. CASE OutsideStart \/ OutsideStop \/ DockerStarted \/ HookKilled \/ HookFails
    <3>1. UNCHANGED local
      BY <2>6 DEF OutsideStart, OutsideStop, DockerStarted, HookKilled, HookFails
    <3> QED BY <2>1, <3>1
  <2> QED BY <1>1, <1>5, <2>2, <2>3, <2>4, <2>5, <2>6 DEF Environment
<1> QED BY <1>1, <1>2, <1>3, <1>4, <1>5 DEF Next

(* Only a fail-safe stop reports. *)
LEMMA ReportsKept ==
  ASSUME Inv, StoppingInv, [Next]_vars, NEW c \in Commands, pc'[c] = "report"
  PROVE  request'[c] = "failsafe" /\ stage'[c] = "action"
<1>1. CASE Still(c)
  BY <1>1 DEF Still, StoppingInv, FailSafe
<1>2. ASSUME NEW d \in Commands, Command(d), ~Still(c)
      PROVE  request'[c] = "failsafe" /\ stage'[c] = "action"
  <2>1. Command(c)
    BY <1>2, OthersStill
  <2>2. ~End(c, intent) /\ ~End(c, NoIntent)
    BY DEF End, Inv, TypeOK, LocalTyped
  <2>3. ~Entry(c) /\ ~Body(c)
    BY <1>2, <2>2 DEF Entry, EntryRefused, EntryVerified, EntryDeleted, EntryClaimed, EntryPassed, Body,
              BodyRefused, BodyElse, Goto, local, Still, Inv, TypeOK, LocalTyped
  <2>4. CASE ServiceAction(c)
    <3>1. PrestateUnproven(c) \/ IntentDeleted(c)
      BY <2>2, <2>4 DEF ServiceAction, RecordIntent, IntentInvoking, CallNothing, CallStart, CallStop,
              CallJoin, CallCancel, Reacquired, CheckPassed, CheckFailed, Report, Goto, Inv, TypeOK,
              LocalTyped
    <3> QED BY <2>2, <3>1 DEF PrestateUnproven, IntentDeleted, Return, Goto, Inv, TypeOK, LocalTyped
  <2>5. CASE Compensation(c)
    <3>1. CompensationFailed(c)
      BY <1>2, <2>5 DEF Compensation, Compensate, StopActive, StopNotNeeded, RemoveFirewall,
              CompensationVerified, Goto, local, Still, Inv, TypeOK, LocalTyped
    <3> QED BY <2>2, <3>1 DEF CompensationFailed, Return, Goto, Inv, TypeOK, LocalTyped
  <2> QED BY <2>1, <2>3, <2>4, <2>5 DEF Command
<1>3. ASSUME NEW d \in Commands, NEW r \in Requests, Acquire(d, r) PROVE Still(c)
  BY <1>3 DEF Acquire, Still, Inv, TypeOK, LocalTyped
<1>4. CASE UNCHANGED vars \/ Hook
  <2>1. UNCHANGED local
    BY <1>4 DEF vars, Hook, HookAcquired, HookRefused, HookRepeated, HookCleanup, HookLoad,
                HookBridge, HookProved, HookUnproven
  <2> QED BY <1>1, <2>1 DEF Still, local
<1>5. CASE Systemd
  <2>1. Still(c)
    BY <1>5 DEF Systemd, BringUp, StartDone, StartFailed, StopDone, JobEnds, local, Still, Inv, TypeOK,
                LocalTyped
  <2> QED BY <1>1, <2>1
<1>6. CASE Environment
  <2>1. ASSUME NEW d \in Commands, Crash(d) \/ TimedOut(d) PROVE Still(c)
    BY <2>1 DEF Crash, TimedOut, End, Still, Inv, TypeOK, LocalTyped
  <2>2. CASE OutsideStart \/ OutsideStop \/ DockerStarted \/ HookKilled \/ HookFails
    <3>1. Still(c)
      BY <2>2 DEF OutsideStart, OutsideStop, DockerStarted, HookKilled, HookFails, local, Still
    <3> QED BY <1>1, <3>1
  <2> QED BY <1>1, <1>6, <2>1, <2>2 DEF Environment
<1> QED BY <1>1, <1>2, <1>3, <1>4, <1>5, <1>6 DEF Next

(* What an intent expects once the service is to be stopped. *)
LEMMA StopExpectsDown ==
  ASSUME Inv, NEW c \in Commands, intent.action = "stop"
  PROVE  Expected(intent) = <<"down">>
  BY DEF Expected, Plan

LEMMA StoppingKept ==
  ASSUME SwitchInv, ProvenInv, StoppingInv, [Next]_vars
  PROVE  StoppingInv'
<1>0. Inv /\ UnitInv /\ Inv'
  BY NextKeeps DEF SwitchInv
<1>1. ASSUME NEW c \in Commands, FailSafe(c)', pc'[c] \in Owning PROVE intent'.action = "stop"
  <2>1. /\ FailSafe(c)
        /\ \/ RecordIntent(c) \/ PrestateUnproven(c) \/ Calls(c)
           \/ pc[c] \in Stopping
           \/ pc[c] \in {"prepared", "invoking"} /\ pc'[c] \in {"prepared", "invoking"}
    BY <1>0, <1>1, FailSafeMoves DEF FailSafe
  <2>2. CASE RecordIntent(c)
    BY <2>1, <2>2 DEF RecordIntent, FailSafe, Requested
  <2>3. CASE pc[c] \in Owning
    <3>1. intent'.owner = c /\ intent' # NoIntent
      BY <1>0, <1>1 DEF Inv, IntentInv, OwnerKeepsIntent
    <3> QED BY <1>0, <2>1, <2>3, <3>1, ActionStays DEF StoppingInv
  <2>4. CASE pc[c] \in {"verified", "report"} \/ PrestateUnproven(c)
    <3>1. pc'[c] \in {"report", "idle", "entry", "verified"}
      <4>1. CASE Still(c)
        BY <1>1, <2>4, <4>1 DEF Still, PrestateUnproven, Recording, Owning
      <4>2. ASSUME NEW d \in Commands, Command(d), ~Still(c)
            PROVE pc'[c] \in {"report", "idle", "entry", "verified"}
        <5>1. Command(c)
          BY <1>0, <4>2, OthersStill
        <5>2. pc[c] \in {"body", "verified", "report"}
          BY <2>4 DEF PrestateUnproven, Recording
        <5>3. CASE pc[c] = "body"
          <6>1. PrestateUnproven(c)
            BY <2>4, <5>3
          <6> QED BY <1>0, <6>1 DEF PrestateUnproven, Return, End, Goto, Inv, TypeOK, LocalTyped
        <5>4. CASE pc[c] \in {"verified", "report"}
          <6>1. IntentDeleted(c) \/ Report(c)
            BY <5>1, <5>4 DEF Command, Entry, EntryRefused, EntryVerified, EntryDeleted, EntryClaimed,
               EntryPassed, Body, BodyRefused, BodyElse, ServiceAction, RecordIntent, Recording,
               PrestateUnproven, IntentInvoking, CallNothing, CallStart, CallStop, CallJoin, CallCancel,
               Calling, Reacquired, CheckPassed, CheckFailed, Compensation, Compensate, StopActive,
               StopNotNeeded, RemoveFirewall, StopSettled, CompensationVerified, CompensationFailed
          <6> QED BY <1>0, <6>1 DEF IntentDeleted, Report, Return, End, Goto, Inv, TypeOK, LocalTyped
        <5> QED BY <5>2, <5>3, <5>4
      <4>3. CASE ~(\E d \in Commands : Command(d)) /\ ~Still(c)
        <5>1. CASE pc[c] \in {"verified", "report"}
          <6>1. CASE \E d \in Commands : \E r \in Requests : Acquire(d, r)
            BY <1>0, <4>3, <5>1, <6>1 DEF Acquire, Still, Inv, TypeOK, LocalTyped
          <6>2. CASE Hook \/ UNCHANGED vars
            BY <4>3, <6>2
               DEF vars, Hook, HookAcquired, HookRefused, HookRepeated, HookCleanup, HookLoad,
                   HookBridge, HookProved, HookUnproven, local, Still
          <6>3. CASE Systemd
            BY <1>0, <4>3, <5>1, <6>3
               DEF Systemd, BringUp, StartDone, StartFailed, StopDone, JobEnds, local, Still,
                   Inv, TypeOK, LocalTyped, SystemdTyped, ClientInv
          <6>4. CASE OutsideStart \/ OutsideStop \/ DockerStarted \/ HookKilled \/ HookFails
            BY <4>3, <6>4 DEF OutsideStart, OutsideStop, DockerStarted, HookKilled, HookFails, local, Still
          <6>5. CASE \E d \in Commands : Crash(d)
            BY <1>0, <4>3, <6>5 DEF Crash, End, Still, Inv, TypeOK, LocalTyped
          <6>6. CASE \E d \in Commands : TimedOut(d)
            BY <1>0, <4>3, <5>1, <6>6 DEF TimedOut, Still, Inv, TypeOK, LocalTyped
          <6> QED BY <4>3, <6>1, <6>2, <6>3, <6>4, <6>5, <6>6 DEF Next, Environment
        <5>2. ~PrestateUnproven(c)
          BY <4>3 DEF Command, ServiceAction
        <5> QED BY <2>4, <5>1, <5>2
      <4> QED BY <4>1, <4>2, <4>3
    <3> QED BY <1>1, <3>1 DEF Owning
  <2>5. Calls(c) => pc[c] \in Owning
    BY DEF Calls, CallNothing, CallStart, CallStop, CallJoin, CallCancel, Calling, Owning
  <2> QED BY <2>1, <2>2, <2>3, <2>4, <2>5 DEF Stopping, Owning
<1>2. ASSUME NEW c \in Commands, FailSafe(c)', pc'[c] \in Stopping PROVE ~Active' /\ ~Coming'
  <2>1. /\ FailSafe(c)
        /\ \/ RecordIntent(c) \/ PrestateUnproven(c) \/ Calls(c)
           \/ pc[c] \in Stopping
           \/ pc[c] \in {"prepared", "invoking"} /\ pc'[c] \in {"prepared", "invoking"}
    BY <1>0, <1>2, FailSafeMoves DEF FailSafe
  <2>2. pc'[c] \notin {"prepared", "invoking"}
    BY <1>2 DEF Stopping, Owning
  <2>3. ~RecordIntent(c)
    BY <1>0, <2>2 DEF RecordIntent, Goto, Inv, TypeOK, LocalTyped
  <2>4. CASE pc[c] \in Stopping
    <3>1. ~Active /\ ~Coming
      BY <2>1, <2>4 DEF StoppingInv
    <3>2. lock = c \/ (intent # NoIntent /\ Expected(intent) = <<"down">>)
      <4>1. CASE pc[c] \in {"verified", "report"}
        BY <1>0, <4>1 DEF Inv, LockInv, Locked
      <4>2. CASE pc[c] \in Owning
        BY <1>0, <2>1, <4>2, StopExpectsDown DEF StoppingInv, Inv, IntentInv, OwnerKeepsIntent
      <4> QED BY <2>4, <4>1, <4>2 DEF Stopping
    <3> QED BY <1>0, <3>1, <3>2, NoneComes
  <2>5. CASE Calls(c)
    <3>1. pc[c] \in Owning
      BY <2>5 DEF Calls, CallNothing, CallStart, CallStop, CallJoin, CallCancel, Calling, Owning
    <3>2. intent.action = "stop"
      BY <2>1, <3>1 DEF StoppingInv
    <3>3. CASE CallNothing(c) \/ CallStart(c)
      BY <3>2, <3>3 DEF CallNothing, CallStart, Starting, Active, Coming, systemd
    <3>4. CASE CallStop(c) \/ CallJoin(c) \/ CallCancel(c)
      BY <3>2, <3>4 DEF CallStop, CallJoin, CallCancel, BeginStop, Active, Coming
    <3> QED BY <2>5, <3>3, <3>4 DEF Calls
  <2>6. CASE PrestateUnproven(c)
    <3>1. lock = c
      BY <1>0, <2>6 DEF PrestateUnproven, Recording, Inv, LockInv, Locked
    <3>2. ~Active /\ ~Coming
      BY <1>0, <2>6, <3>1, NoneAssumption
         DEF PrestateUnproven, Recording, PrestateProven, ProvenInv, Coming, HookRunning, Inv, LockInv
    <3> QED BY <2>6, <3>2 DEF PrestateUnproven, systemd, hooking, Active, Coming
  <2> QED BY <2>1, <2>2, <2>3, <2>4, <2>5, <2>6
<1>3. \A c \in Commands : pc'[c] \in {"idle", "entry"} => stage'[c] = "entry"
  BY <1>0, StagesKept
<1>4. \A c \in Commands : pc'[c] = "report" => FailSafe(c)'
  BY <1>0, ReportsKept DEF FailSafe
<1> QED BY <1>1, <1>2, <1>3, <1>4 DEF StoppingInv

(* On a host without Docker, or where Docker was up before the service, a      *)
(* rollback that fails and reports "interface stopped" has stopped it: the stop *)
(* was attempted, and neither a late start job nor a boot can bring the          *)
(* interface up before the report.                                               *)
THEOREM StoppedWhenReported == ASSUME ~DockerStarts PROVE Spec => []ReportedStopped
<1>1. Init => ProvenInv /\ StoppingInv
  <2> SUFFICES ASSUME Init PROVE ProvenInv /\ StoppingInv
    OBVIOUS
  <2>1. ProvenInv
    BY DEF Init, ProvenInv, Active, FirewallIs
  <2>2. StoppingInv
    BY DEF Init, StoppingInv, FailSafe
  <2> QED BY <2>1, <2>2
<1>2. SwitchInv /\ ProvenInv /\ [Next]_vars => ProvenInv'
  BY ProvenKept DEF SwitchInv
<1>3. SwitchInv /\ ProvenInv /\ StoppingInv /\ [Next]_vars => StoppingInv'
  BY StoppingKept
<1>4. Inv /\ StoppingInv => ReportedStopped
  <2> SUFFICES ASSUME Inv, StoppingInv, NEW c \in Commands, pc[c] = "report" PROVE ~Active
    BY DEF ReportedStopped
  <2> QED BY DEF StoppingInv, Stopping
<1> QED BY <1>1, <1>2, <1>3, <1>4, SwitchInvariant, Invariant, PTL DEF Spec

=============================================================================
