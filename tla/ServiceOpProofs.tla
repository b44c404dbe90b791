--------------------------- MODULE ServiceOpProofs ---------------------------
(***************************************************************************)
(* Proofs about ServiceOp for any set of commands and any number of        *)
(* deaths, timeouts and calls from outside.                                *)
(*                                                                         *)
(* That an intent stays its owner's is not inductive alone.  It needs the  *)
(* lock discipline (whoever took the lock and has not given it up holds    *)
(* it, a running hook included), that systemctl returns to a command that  *)
(* waits for it, that a handler starts without an intent, and that a       *)
(* verified intent has no owner.                                           *)
(***************************************************************************)
EXTENDS ServiceOp, TLAPS

Locked == {"entry", "body", "prepared", "invoking", "check", "compensate", "compensating",
           "settle", "verified", "report"}

LockInv ==
  /\ \A c \in Commands : pc[c] \in Locked => lock = c
  /\ HookRunning => lock = "hook"

ClientInv == client # None => pc[client] \in {"waiting", "stopwait"}

IntentInv ==
  /\ OwnerKeepsIntent
  /\ \A c \in Commands : pc[c] = "body" => intent = NoIntent
  /\ \A c \in Commands : pc[c] = "verified" => intent.owner = None

Inv == TypeOK /\ LockInv /\ ClientInv /\ IntentInv

-----------------------------------------------------------------------------
(* Values *)

(* The absence of an intent is no intent in force. *)
LEMMA NoIntentApart ==
  NoIntent.owner = None /\ NoIntent.phase = "none" /\ NoIntent \notin InForce
  BY NoneAssumption DEF NoIntent, InForce

(* No plan of hooks has more than two, and none is empty. *)
LEMMA PlansAreShort == \A i \in InForce : Len(Expected(i)) \in 1..2
  BY DEF InForce, Expected, Plan, Actions

-----------------------------------------------------------------------------
(* What a step leaves alone *)

LEMMA FilesSame == FilesTyped /\ UNCHANGED files => FilesTyped'
  BY DEF FilesTyped, files, Expected

LEMMA LocalSame == LocalTyped /\ UNCHANGED <<lock, local>> => LocalTyped'
  BY DEF LocalTyped, local

LEMMA SystemdSame == SystemdTyped /\ UNCHANGED <<systemd, hooking>> => SystemdTyped'
  BY DEF SystemdTyped, systemd, hooking

LEMMA FilterSame == FilterTyped /\ UNCHANGED filter => FilterTyped'
  BY DEF FilterTyped, filter

LEMMA BudgetSame == BudgetTyped /\ UNCHANGED budget => BudgetTyped'
  BY DEF BudgetTyped, budget

(* A command that holds the lock and keeps it disturbs neither the discipline *)
(* nor the one who waits for systemctl.                                        *)
LEMMA HolderStays ==
  ASSUME Inv, NEW c \in Commands, NEW l \in Labels, pc[c] \in Locked,
         pc' = [pc EXCEPT ![c] = l], UNCHANGED <<lock, client, hook>>
  PROVE  LockInv' /\ ClientInv'
<1>1. LockInv'
  BY DEF Inv, TypeOK, LocalTyped, LockInv, HookRunning
<1>2. client # c
  BY NoneAssumption DEF Inv, ClientInv, Locked
<1>3. ClientInv'
  BY <1>2 DEF Inv, TypeOK, LocalTyped, SystemdTyped, ClientInv
<1> QED BY <1>1, <1>3

(* A process that ends leaves a typed state, no lock and no owned intent. *)
LEMMA Ended ==
  ASSUME Inv, NEW c \in Commands, NEW i, i \in {intent, NoIntent}, End(c, i),
         i = NoIntent => intent.owner \in {None, c}, UNCHANGED <<open, generation, hook>>,
         (client' = client /\ client # c) \/ client' = None
  PROVE  FilesTyped' /\ LocalTyped' /\ LockInv' /\ ClientInv' /\ IntentInv'
<1>1. FilesTyped'
  <2>1. i \in InForce \cup {NoIntent} /\ (i # NoIntent => i.next <= Len(Expected(i)))
    BY DEF Inv, TypeOK, FilesTyped
  <2>2. CASE i.owner # c
    BY <2>1, <2>2 DEF Inv, TypeOK, FilesTyped, End, Expected
  <2>3. CASE i.owner = c
    <3>1. i \in InForce
      BY <2>1, <2>3, NoIntentApart, NoneAssumption
    <3>2. intent' \in InForce /\ intent'.next = i.next /\ intent'.goal = i.goal
                             /\ intent'.action = i.action
      BY <2>3, <3>1 DEF End, InForce
    <3> QED BY <2>1, <3>1, <3>2, NoIntentApart DEF Inv, TypeOK, FilesTyped, Expected
  <2> QED BY <2>2, <2>3
<1>2. LocalTyped'
  BY DEF Inv, TypeOK, LocalTyped, End, Labels
<1>3. LockInv'
  BY NoneAssumption DEF Inv, TypeOK, LocalTyped, LockInv, End, HookRunning, Locked
<1>4. ClientInv'
  BY DEF Inv, TypeOK, LocalTyped, SystemdTyped, ClientInv, End
<1>5. IntentInv'
  <2>1. \A d \in Commands : d # c => pc'[d] = pc[d]
    BY DEF Inv, TypeOK, LocalTyped, End
  <2>2. pc'[c] = "idle"
    BY DEF Inv, TypeOK, LocalTyped, End
  <2>3. i.owner = c => intent'.owner = None
    BY NoIntentApart, NoneAssumption DEF Inv, TypeOK, FilesTyped, InForce, End
  <2>4. i.owner # c => intent' = i
    BY DEF End
  <2>5. i = NoIntent => intent' = NoIntent
    BY <2>4, NoIntentApart, NoneAssumption
  <2>6. ASSUME NEW d \in Commands, pc'[d] \in Owning PROVE intent' # NoIntent /\ intent'.owner = d
    <3>1. d # c /\ pc[d] \in Owning
      BY <2>1, <2>2, <2>6 DEF Owning
    <3>2. intent # NoIntent /\ intent.owner = d
      BY <3>1 DEF Inv, IntentInv, OwnerKeepsIntent
    <3>3. i = intent
      BY <3>1, <3>2, NoneAssumption
    <3> QED BY <2>4, <3>1, <3>2, <3>3
  <2>7. ASSUME NEW d \in Commands, pc'[d] = "body" PROVE intent' = NoIntent
    BY <2>1, <2>2, <2>5, <2>7 DEF Inv, IntentInv
  <2>8. ASSUME NEW d \in Commands, pc'[d] = "verified" PROVE intent'.owner = None
    BY <2>1, <2>2, <2>3, <2>4, <2>8, NoIntentApart DEF Inv, IntentInv
  <2> QED BY <2>6, <2>7, <2>8 DEF IntentInv, OwnerKeepsIntent
<1> QED BY <1>1, <1>2, <1>3, <1>4, <1>5

(* service_action returns or raises, with the intent left or deleted. *)
LEMMA Returned ==
  ASSUME Inv, NEW c \in Commands, NEW i, i \in {intent, NoIntent}, Return(c, i),
         i = NoIntent => intent.owner = None, pc[c] \in Locked,
         UNCHANGED <<open, generation, hook, client>>
  PROVE  FilesTyped' /\ LocalTyped' /\ LockInv' /\ ClientInv' /\ IntentInv'
<1>1. client # c
  BY NoneAssumption DEF Inv, ClientInv, Locked
<1>2. CASE End(c, i)
  BY <1>1, <1>2, Ended
<1>3. CASE Goto(c, "report") /\ intent' = i /\ UNCHANGED lock
  <2>1. FilesTyped'
    BY <1>3, NoIntentApart DEF Inv, TypeOK, FilesTyped, Expected
  <2>2. LocalTyped'
    BY <1>3 DEF Inv, TypeOK, LocalTyped, Goto, Labels
  <2>3. "report" \in Labels
    BY DEF Labels
  <2>4. LockInv' /\ ClientInv'
    BY <1>3, <2>3, HolderStays DEF Goto
  <2>5. IntentInv'
    BY <1>3, NoIntentApart, NoneAssumption
       DEF Inv, TypeOK, LocalTyped, IntentInv, OwnerKeepsIntent, Goto, Owning
  <2> QED BY <2>1, <2>2, <2>4, <2>5
<1> QED BY <1>2, <1>3 DEF Return

(* The owner of the intent moves on: the intent is still its own. *)
LEMMA OwnerStays ==
  ASSUME Inv, NEW c \in Commands, NEW l \in Labels \ {"body", "verified"}, pc[c] \in Owning,
         pc' = [pc EXCEPT ![c] = l], intent' # NoIntent, intent'.owner = intent.owner
  PROVE  IntentInv'
  BY NoneAssumption
     DEF Inv, TypeOK, LocalTyped, IntentInv, OwnerKeepsIntent

(* The lock is given up around systemctl. *)
LEMMA Released ==
  ASSUME Inv, NEW c \in Commands, NEW l \in {"waiting", "stopwait", "reacquire"},
         pc[c] \in {"invoking", "compensating"}, pc' = [pc EXCEPT ![c] = l],
         UNCHANGED <<intent, request, stage, failed>>, lock' = None,
         hook' \in {hook, "waiting", "none"},
         client' = client \/ (client' = c /\ l # "reacquire")
  PROVE  LocalTyped' /\ LockInv' /\ ClientInv' /\ IntentInv'
<1>1. lock = c /\ l \in Labels \ {"body", "verified"} /\ pc[c] \in Owning
  BY DEF Inv, LockInv, Locked, Labels, Owning
<1>2. LocalTyped'
  BY <1>1 DEF Inv, TypeOK, LocalTyped
<1>3. LockInv'
  BY <1>1, NoneAssumption DEF Inv, TypeOK, LocalTyped, LockInv, HookRunning, Locked
<1>4. ClientInv'
  BY DEF Inv, TypeOK, LocalTyped, SystemdTyped, ClientInv
<1>5. IntentInv'
  BY <1>1, OwnerStays DEF Inv, IntentInv, OwnerKeepsIntent
<1> QED BY <1>2, <1>3, <1>4, <1>5

(* The operation is verified: the intent has no owner any more. *)
LEMMA Verified ==
  ASSUME Inv, NEW c \in Commands, pc[c] \in Owning, pc[c] \in Locked, Goto(c, "verified"),
         intent' = [intent EXCEPT !.phase = "verified", !.owner = None],
         UNCHANGED <<lock, open, generation, client, hook>>
  PROVE  FilesTyped' /\ LocalTyped' /\ LockInv' /\ ClientInv' /\ IntentInv'
<1>1. intent \in InForce /\ intent.owner = c
  BY DEF Inv, TypeOK, FilesTyped, IntentInv, OwnerKeepsIntent
<1>2. /\ intent' \in InForce /\ intent'.owner = None /\ intent'.next = intent.next
      /\ intent'.goal = intent.goal /\ intent'.action = intent.action
  BY <1>1 DEF InForce, Phases
<1>3. FilesTyped'
  BY <1>1, <1>2, NoIntentApart DEF Inv, TypeOK, FilesTyped, Expected
<1>4. LocalTyped' /\ "verified" \in Labels
  BY DEF Goto, Inv, TypeOK, LocalTyped, Labels
<1>5. LockInv' /\ ClientInv'
  BY <1>4, HolderStays DEF Goto
<1>6. IntentInv'
  <2>1. \A d \in Commands : d # c => pc'[d] = pc[d] /\ pc[d] \notin Owning /\ pc[d] # "body"
    BY <1>1, NoIntentApart DEF Goto, Inv, TypeOK, LocalTyped, IntentInv, OwnerKeepsIntent
  <2>2. pc'[c] = "verified"
    BY DEF Goto, Inv, TypeOK, LocalTyped
  <2> QED BY <1>2, <2>1, <2>2, NoIntentApart DEF IntentInv, OwnerKeepsIntent, Owning
<1> QED BY <1>3, <1>4, <1>5, <1>6

(* A step of a hook disturbs no command. *)
LEMMA HookMoves ==
  ASSUME Inv, HookRunning, UNCHANGED <<pc, client>>,
         lock' = lock \/ (lock' = None /\ ~HookRunning'),
         intent' = intent \/ (intent # NoIntent /\ intent' # NoIntent /\ intent'.owner = intent.owner)
  PROVE  LockInv' /\ ClientInv' /\ IntentInv'
<1>1. \A d \in Commands : pc[d] \notin Locked
  BY NoneAssumption DEF Inv, LockInv
<1>2. LockInv'
  BY <1>1 DEF Inv, LockInv
<1>3. IntentInv'
  BY <1>1 DEF Inv, IntentInv, OwnerKeepsIntent, Locked
<1> QED BY <1>2, <1>3 DEF Inv, ClientInv

(* systemctl returns to the command that waits, if any still does. *)
LEMMA JobEnded ==
  ASSUME Inv, NEW ok \in BOOLEAN, JobEnds(ok), UNCHANGED <<intent, lock, request, stage>>,
         hook' = "none"
  PROVE  LocalTyped' /\ LockInv' /\ ClientInv' /\ IntentInv'
<1>1. ClientInv'
  BY DEF JobEnds, ClientInv
<1>2. CASE client = None
  BY <1>1, <1>2
     DEF JobEnds, Inv, TypeOK, LocalTyped, LockInv, IntentInv, OwnerKeepsIntent, HookRunning
<1>3. CASE client # None
  <2>1. client \in Commands /\ pc[client] \in {"waiting", "stopwait"}
    BY <1>3 DEF Inv, TypeOK, SystemdTyped, ClientInv
  <2>2. PICK l \in {"reacquire", "restop"} : pc' = [pc EXCEPT ![client] = l]
    BY <1>3, <2>1 DEF JobEnds, Inv, TypeOK, LocalTyped
  <2>3. LocalTyped'
    BY <1>3, <2>1, <2>2 DEF JobEnds, Inv, TypeOK, LocalTyped, Labels, Owning
  <2>4. LockInv'
    BY <2>1, <2>2 DEF Inv, TypeOK, LocalTyped, LockInv, HookRunning, Locked
  <2>5. pc[client] \in Owning /\ l \in Labels \ {"body", "verified"}
    BY <2>1 DEF Owning, Labels
  <2>6. IntentInv'
    BY <2>1, <2>2, <2>5, OwnerStays DEF Inv, IntentInv, OwnerKeepsIntent
  <2> QED BY <1>1, <2>3, <2>4, <2>6
<1> QED BY <1>2, <1>3

(* A unit that is told to stop is typed, whoever tells it. *)
LEMMA BeginStopTyped ==
  ASSUME Inv, NEW c \in Commands \cup {None}, NEW startAgain \in BOOLEAN, BeginStop(c, startAgain)
  PROVE  SystemdTyped'
  BY DEF BeginStop, Inv, TypeOK, SystemdTyped

-----------------------------------------------------------------------------
(* Every step of a command keeps the invariant *)

LEMMA AcquireKeeps ==
  ASSUME Inv, NEW c \in Commands, NEW r \in Requests, Acquire(c, r) PROVE Inv'
<1>1. LocalTyped'
  BY DEF Inv, TypeOK, LocalTyped, Acquire, Labels
<1>2. LockInv'
  BY NoneAssumption DEF Inv, TypeOK, LocalTyped, LockInv, Acquire, HookRunning, Locked, hooking
<1>3. ClientInv'
  BY DEF Inv, TypeOK, LocalTyped, SystemdTyped, ClientInv, Acquire, systemd
<1>4. IntentInv'
  BY DEF Inv, TypeOK, LocalTyped, IntentInv, OwnerKeepsIntent, Acquire, files, Owning
<1> QED BY <1>1, <1>2, <1>3, <1>4, FilesSame, SystemdSame, FilterSame, BudgetSame
        DEF Inv, TypeOK, Acquire

LEMMA EntryKeeps == ASSUME Inv, NEW c \in Commands, Entry(c) PROVE Inv'
<1>0. client # c \/ pc[c] \notin Locked
  BY NoneAssumption DEF Inv, ClientInv, Locked
<1>1. CASE EntryRefused(c)
  <2>1. FilesTyped' /\ LocalTyped' /\ LockInv' /\ ClientInv' /\ IntentInv'
    BY <1>0, <1>1, Ended, NoIntentApart, NoneAssumption
       DEF EntryRefused, OwnerAlive, Locked, systemd, hooking
  <2> QED BY <1>1, <2>1, SystemdSame, FilterSame, BudgetSame DEF EntryRefused, Inv, TypeOK
<1>2. CASE EntryVerified(c)
  <2>1. intent \in InForce /\ intent.owner = None
    BY <1>2, NoIntentApart DEF EntryVerified, OwnerAlive, Inv, TypeOK, FilesTyped
  <2>2. /\ intent' \in InForce /\ intent'.owner = None /\ intent'.next = intent.next
        /\ intent'.goal = intent.goal /\ intent'.action = intent.action
    BY <1>2, <2>1 DEF EntryVerified, InForce, Phases
  <2>3. FilesTyped'
    BY <1>2, <2>1, <2>2, NoIntentApart DEF EntryVerified, Inv, TypeOK, FilesTyped, Expected
  <2>4. LockInv' /\ ClientInv'
    BY <1>2 DEF EntryVerified, Inv, LockInv, ClientInv, HookRunning, local, systemd, hooking
  <2>5. IntentInv'
    BY <1>2, <2>1, <2>2, NoIntentApart, NoneAssumption
       DEF EntryVerified, Inv, IntentInv, OwnerKeepsIntent, local
  <2> QED BY <1>2, <2>3, <2>4, <2>5, LocalSame, SystemdSame, FilterSame, BudgetSame
          DEF EntryVerified, Inv, TypeOK
<1>3. CASE EntryDeleted(c)
  <2>1. FilesTyped'
    BY <1>3 DEF EntryDeleted, Inv, TypeOK, FilesTyped
  <2>2. LockInv' /\ ClientInv'
    BY <1>3 DEF EntryDeleted, Inv, LockInv, ClientInv, HookRunning, local, systemd, hooking
  <2>3. IntentInv'
    BY <1>3, NoIntentApart, NoneAssumption
       DEF EntryDeleted, OwnerAlive, Inv, IntentInv, OwnerKeepsIntent, local
  <2> QED BY <1>3, <2>1, <2>2, <2>3, LocalSame, SystemdSame, FilterSame, BudgetSame
          DEF EntryDeleted, Inv, TypeOK
<1>4. CASE EntryClaimed(c)
  <2>1. intent \in InForce /\ intent.owner = None
    BY <1>4, NoIntentApart DEF EntryClaimed, OwnerAlive, Inv, TypeOK, FilesTyped
  <2>2. /\ intent' \in InForce /\ intent'.owner = c /\ intent'.next = intent.next
        /\ intent'.goal = intent.goal /\ intent'.action = intent.action
    BY <1>4, <2>1 DEF EntryClaimed, InForce
  <2>3. FilesTyped'
    BY <1>4, <2>1, <2>2, NoIntentApart DEF EntryClaimed, Inv, TypeOK, FilesTyped, Expected
  <2>4. LocalTyped' /\ "compensate" \in Labels /\ pc[c] \in Locked
    BY <1>4 DEF EntryClaimed, Goto, Inv, TypeOK, LocalTyped, Labels, Owning, Locked
  <2>5. LockInv' /\ ClientInv'
    BY <1>4, <2>4, HolderStays DEF EntryClaimed, Goto, systemd, hooking
  <2>6. IntentInv'
    <3>1. lock = c
      BY <2>4 DEF Inv, LockInv
    <3> QED BY <1>4, <2>1, <2>2, <3>1, NoIntentApart, NoneAssumption
            DEF EntryClaimed, Goto, Inv, TypeOK, LocalTyped, LockInv, IntentInv,
                OwnerKeepsIntent, Locked, Owning
  <2> QED BY <1>4, <2>3, <2>4, <2>5, <2>6, SystemdSame, FilterSame, BudgetSame
          DEF EntryClaimed, Inv, TypeOK
<1>5. CASE EntryPassed(c)
  <2>1. LocalTyped' /\ "body" \in Labels /\ pc[c] \in Locked
    BY <1>5 DEF EntryPassed, Inv, TypeOK, LocalTyped, Labels, Locked
  <2>2. LockInv' /\ ClientInv'
    BY <1>5, <2>1, HolderStays DEF EntryPassed, systemd, hooking
  <2>3. IntentInv'
    BY <1>5, NoIntentApart
       DEF EntryPassed, Inv, TypeOK, LocalTyped, IntentInv, OwnerKeepsIntent, files, Owning
  <2> QED BY <1>5, <2>1, <2>2, <2>3, FilesSame, SystemdSame, FilterSame, BudgetSame
          DEF EntryPassed, Inv, TypeOK
<1> QED BY <1>1, <1>2, <1>3, <1>4, <1>5 DEF Entry

LEMMA BodyKeeps == ASSUME Inv, NEW c \in Commands, Body(c) PROVE Inv'
<1>0. pc[c] = "body" /\ client # c /\ intent = NoIntent
  BY NoneAssumption DEF Body, BodyRefused, BodyElse, Inv, ClientInv, IntentInv
<1>1. CASE BodyRefused(c)
  <2>1. FilesTyped' /\ LocalTyped' /\ LockInv' /\ ClientInv' /\ IntentInv'
    BY <1>0, <1>1, Ended, NoIntentApart DEF BodyRefused, systemd, hooking
  <2> QED BY <1>1, <2>1, SystemdSame, FilterSame, BudgetSame DEF BodyRefused, Inv, TypeOK
<1>2. CASE BodyElse(c)
  <2>1. intent' = NoIntent
    BY <1>0, <1>2, NoIntentApart, NoneAssumption DEF BodyElse, End
  <2>2. open' \in BOOLEAN
    BY <1>2 DEF BodyElse, Inv, TypeOK, FilesTyped
  <2>3. FilesTyped'
    BY <1>2, <2>1, <2>2 DEF BodyElse, Inv, TypeOK, FilesTyped
  <2>4. LocalTyped'
    BY <1>2 DEF BodyElse, End, Inv, TypeOK, LocalTyped, Labels
  <2>5. LockInv'
    BY <1>0, <1>2, NoneAssumption
       DEF BodyElse, End, Inv, TypeOK, LocalTyped, LockInv, HookRunning, Locked, hooking
  <2>6. ClientInv'
    BY <1>0, <1>2 DEF BodyElse, End, Inv, TypeOK, LocalTyped, SystemdTyped, ClientInv, systemd
  <2>7. IntentInv'
    BY <1>0, <1>2, <2>1, NoIntentApart
       DEF BodyElse, End, Inv, TypeOK, LocalTyped, IntentInv, OwnerKeepsIntent, Owning
  <2> QED BY <1>2, <2>3, <2>4, <2>5, <2>6, <2>7, SystemdSame, FilterSame, BudgetSame
          DEF BodyElse, Inv, TypeOK
<1> QED BY <1>1, <1>2 DEF Body

LEMMA ServiceActionKeeps == ASSUME Inv, NEW c \in Commands, ServiceAction(c) PROVE Inv'
<1>0. pc[c] \in Owning => intent \in InForce /\ intent.owner = c
  BY DEF Inv, TypeOK, FilesTyped, IntentInv, OwnerKeepsIntent
<1>1. CASE RecordIntent(c)
  <2>1. pc[c] = "body" /\ pc[c] \in Locked /\ "prepared" \in Labels
    BY <1>1 DEF RecordIntent, Recording, Locked, Labels, Owning
  <2>2. FilesTyped'
    BY <1>1, PlansAreShort
       DEF RecordIntent, Recording, Inv, TypeOK, FilesTyped, InForce, Active, FirewallIs,
           Phases, FilterTyped
  <2>3. LocalTyped'
    BY <1>1, <2>1 DEF RecordIntent, Goto, Inv, TypeOK, LocalTyped
  <2>4. LockInv' /\ ClientInv'
    BY <1>1, <2>1, HolderStays DEF RecordIntent, Goto, systemd, hooking
  <2>5. intent = NoIntent
    BY <2>1 DEF Inv, IntentInv
  <2>6. intent' # NoIntent /\ intent'.owner = c
    BY <1>1, NoneAssumption DEF RecordIntent, NoIntent
  <2>7. \A d \in Commands : pc[d] \notin Owning /\ (d # c => pc[d] # "body")
    <3>1. lock = c
      BY <2>1 DEF Inv, LockInv
    <3> QED BY <2>5, <3>1 DEF Inv, LockInv, IntentInv, OwnerKeepsIntent, Locked
  <2>8. IntentInv'
    <3>1. \A d \in Commands : d # c => pc'[d] # "verified"
      <4>1. lock = c
        BY <2>1 DEF Inv, LockInv
      <4> QED BY <1>1, <4>1 DEF RecordIntent, Goto, Inv, TypeOK, LocalTyped, LockInv, Locked
    <3> QED BY <1>1, <2>6, <2>7, <3>1
            DEF RecordIntent, Goto, Inv, TypeOK, LocalTyped, IntentInv, OwnerKeepsIntent
  <2> QED BY <1>1, <2>2, <2>3, <2>4, <2>8, SystemdSame, FilterSame, BudgetSame
          DEF RecordIntent, Inv, TypeOK
<1>2. CASE PrestateUnproven(c)
  <2>1. pc[c] \in Locked /\ intent = NoIntent
    BY <1>2 DEF PrestateUnproven, Recording, Locked, Inv, IntentInv
  <2>2. FilesTyped' /\ LocalTyped' /\ LockInv' /\ ClientInv' /\ IntentInv'
    BY <1>2, <2>1, Returned, NoIntentApart DEF PrestateUnproven, systemd, hooking
  <2> QED BY <1>2, <2>2, SystemdSame, FilterSame, BudgetSame DEF PrestateUnproven, Inv, TypeOK
<1>3. CASE IntentInvoking(c)
  <2>1. pc[c] \in Owning \cap Locked /\ "invoking" \in Labels \ {"body", "verified"}
    BY <1>3 DEF IntentInvoking, Owning, Locked, Labels
  <2>2. /\ intent' \in InForce /\ intent'.owner = intent.owner /\ intent'.next = intent.next
        /\ intent'.goal = intent.goal /\ intent'.action = intent.action
    BY <1>0, <1>3, <2>1 DEF IntentInvoking, InForce, Phases
  <2>3. FilesTyped'
    BY <1>0, <1>3, <2>1, <2>2, NoIntentApart
       DEF IntentInvoking, Inv, TypeOK, FilesTyped, Expected
  <2>4. LocalTyped'
    BY <1>3, <2>1 DEF IntentInvoking, Goto, Inv, TypeOK, LocalTyped
  <2>5. LockInv' /\ ClientInv'
    BY <1>3, <2>1, HolderStays DEF IntentInvoking, Goto, systemd, hooking
  <2>6. IntentInv'
    BY <1>3, <2>1, <2>2, OwnerStays, NoIntentApart DEF IntentInvoking, Goto
  <2> QED BY <1>3, <2>3, <2>4, <2>5, <2>6, SystemdSame, FilterSame, BudgetSame
          DEF IntentInvoking, Inv, TypeOK
<1>4. CASE CallNothing(c) \/ CallStart(c) \/ CallStop(c) \/ CallJoin(c) \/ CallCancel(c)
  <2>1. SystemdTyped'
    <3>1. CASE CallNothing(c)
      BY <3>1, SystemdSame DEF CallNothing, Inv, TypeOK
    <3>2. CASE CallStart(c)
      BY <3>2 DEF CallStart, Inv, TypeOK, SystemdTyped, hooking
    <3>3. CASE CallStop(c)
      BY <3>3, BeginStopTyped DEF CallStop
    <3>4. CASE CallJoin(c)
      <4>1. again' \in BOOLEAN
        <5>1. again \in BOOLEAN /\ Starting(intent.action) \in BOOLEAN
          BY DEF Starting, Inv, TypeOK, SystemdTyped
        <5>2. again' = again \/ again' = Starting(intent.action)
          BY <3>4, Zenon DEF CallJoin
        <5> QED BY <5>1, <5>2, Zenon
      <4>2. client' = c /\ UNCHANGED <<unit, link, hook, hookAction, sawDocker>>
        BY <3>4 DEF CallJoin, hooking
      <4> QED BY <4>1, <4>2 DEF Inv, TypeOK, SystemdTyped
    <3>5. CASE CallCancel(c)
      BY <3>5 DEF CallCancel, Inv, TypeOK, SystemdTyped
    <3> QED BY <1>4, <3>1, <3>2, <3>3, <3>4, <3>5
  <2>2. PICK l \in {"waiting", "reacquire"} :
           /\ Goto(c, l)
           /\ client' = client \/ (client' = c /\ l # "reacquire")
    <3>1. CASE CallNothing(c)
      BY <3>1 DEF CallNothing, systemd
    <3>2. CASE CallStart(c) \/ CallJoin(c)
      BY <3>2 DEF CallStart, CallJoin
    <3>3. CASE CallStop(c)
      BY <3>3 DEF CallStop, BeginStop
    <3>4. CASE CallCancel(c)
      BY <3>4 DEF CallCancel
    <3> QED BY <1>4, <3>1, <3>2, <3>3, <3>4
  <2>3. hook' \in {hook, "waiting", "none"}
    <3>1. CASE CallNothing(c) \/ CallStart(c) \/ CallJoin(c)
      BY <3>1 DEF CallNothing, CallStart, CallJoin, hooking
    <3>2. CASE CallStop(c) \/ CallCancel(c)
      BY <3>2 DEF CallStop, CallCancel, BeginStop
    <3> QED BY <1>4, <3>1, <3>2
  <2>4. Calling(c)
    BY <1>4 DEF CallNothing, CallStart, CallStop, CallJoin, CallCancel
  <2>5. LocalTyped' /\ LockInv' /\ ClientInv' /\ IntentInv'
    BY <2>2, <2>3, <2>4, Released DEF Calling, Goto, files
  <2> QED BY <2>1, <2>4, <2>5, FilesSame, FilterSame, BudgetSame DEF Calling, Inv, TypeOK
<1>5. CASE Reacquired(c)
  <2>1. /\ pc[c] \in Owning
        /\ (IF pc[c] = "reacquire" THEN "check" ELSE "settle") \in Labels \ {"body", "verified"}
    BY <1>5 DEF Reacquired, Owning, Labels
  <2>2. LocalTyped'
    BY <1>5, <2>1 DEF Reacquired, Goto, Inv, TypeOK, LocalTyped
  <2>3. LockInv'
    BY <1>5, NoneAssumption
       DEF Reacquired, Goto, Inv, TypeOK, LocalTyped, LockInv, HookRunning, hooking
  <2>4. ClientInv'
    BY <1>5 DEF Reacquired, Goto, Inv, TypeOK, LocalTyped, SystemdTyped, ClientInv, systemd
  <2>5. IntentInv'
    BY <1>0, <1>5, <2>1, OwnerStays, NoIntentApart DEF Reacquired, Goto, files
  <2> QED BY <1>5, <2>2, <2>3, <2>4, <2>5, FilesSame, SystemdSame, FilterSame, BudgetSame
          DEF Reacquired, Inv, TypeOK
<1>6. CASE CheckPassed(c)
  <2>1. pc[c] \in Owning \cap Locked /\ pc[c] = "check"
    BY <1>6 DEF CheckPassed, Owning, Locked
  <2> QED BY <1>6, <2>1, Verified, SystemdSame, FilterSame, BudgetSame
          DEF CheckPassed, Inv, TypeOK, systemd, hooking
<1>7. CASE CheckFailed(c)
  <2>1. pc[c] \in Owning \cap Locked /\ "compensate" \in Labels \ {"body", "verified"}
    BY <1>7 DEF CheckFailed, Owning, Locked, Labels
  <2>2. LocalTyped'
    BY <1>7, <2>1 DEF CheckFailed, Inv, TypeOK, LocalTyped
  <2>3. LockInv' /\ ClientInv'
    BY <1>7, <2>1, HolderStays DEF CheckFailed, systemd, hooking
  <2>4. IntentInv'
    BY <1>0, <1>7, <2>1, OwnerStays, NoIntentApart DEF CheckFailed, files
  <2> QED BY <1>7, <2>2, <2>3, <2>4, FilesSame, SystemdSame, FilterSame, BudgetSame
          DEF CheckFailed, Inv, TypeOK
<1>8. CASE IntentDeleted(c)
  <2>1. pc[c] = "verified" /\ pc[c] \in Locked /\ intent.owner = None /\ "entry" \in Labels
    BY <1>8 DEF IntentDeleted, Inv, IntentInv, Locked, Labels
  <2>2. CASE Return(c, NoIntent)
    <3>1. FilesTyped' /\ LocalTyped' /\ LockInv' /\ ClientInv' /\ IntentInv'
      BY <1>8, <2>1, <2>2, Returned DEF IntentDeleted, systemd, hooking
    <3> QED BY <1>8, <3>1, SystemdSame, FilterSame, BudgetSame DEF IntentDeleted, Inv, TypeOK
  <2>3. CASE Goto(c, "entry") /\ intent' = NoIntent /\ UNCHANGED lock
    <3>1. FilesTyped'
      BY <1>8, <2>3 DEF IntentDeleted, Inv, TypeOK, FilesTyped
    <3>2. LocalTyped'
      BY <2>1, <2>3 DEF Goto, Inv, TypeOK, LocalTyped
    <3>3. LockInv' /\ ClientInv'
      BY <1>8, <2>1, <2>3, HolderStays DEF IntentDeleted, Goto, systemd, hooking
    <3>4. IntentInv'
      BY <2>1, <2>3, NoIntentApart, NoneAssumption
         DEF Goto, Inv, TypeOK, LocalTyped, IntentInv, OwnerKeepsIntent, Owning
    <3> QED BY <1>8, <3>1, <3>2, <3>3, <3>4, SystemdSame, FilterSame, BudgetSame
            DEF IntentDeleted, Inv, TypeOK
  <2> QED BY <1>8, <2>2, <2>3 DEF IntentDeleted
<1>9. CASE Report(c)
  <2>1. client # c
    BY <1>9, NoneAssumption DEF Report, Inv, ClientInv
  <2>2. intent = NoIntent => intent.owner \in {None, c}
    BY NoIntentApart
  <2>3. FilesTyped' /\ LocalTyped' /\ LockInv' /\ ClientInv' /\ IntentInv'
    BY <1>9, <2>1, <2>2, Ended DEF Report, systemd, hooking
  <2> QED BY <1>9, <2>3, SystemdSame, FilterSame, BudgetSame DEF Report, Inv, TypeOK
<1> QED BY <1>1, <1>2, <1>3, <1>4, <1>5, <1>6, <1>7, <1>8, <1>9 DEF ServiceAction

LEMMA CompensationKeeps == ASSUME Inv, NEW c \in Commands, Compensation(c) PROVE Inv'
<1>0. /\ pc[c] \in Owning /\ intent \in InForce /\ intent.owner = c /\ intent # NoIntent
      /\ intent.next <= Len(Expected(intent))
  <2>1. pc[c] \in Owning
    BY DEF Compensation, Compensate, StopActive, StopNotNeeded, RemoveFirewall, StopSettled,
           CompensationVerified, CompensationFailed, Owning
  <2> QED BY <2>1 DEF Inv, TypeOK, FilesTyped, IntentInv, OwnerKeepsIntent
<1>1. CASE Compensate(c)
  <2>1. pc[c] \in Locked /\ "compensating" \in Labels \ {"body", "verified"}
    BY <1>1 DEF Compensate, Owning, Locked, Labels
  <2>2. intent' \in InForce /\ intent'.owner = intent.owner /\ intent'.next = 0
    <3>1. open \in BOOLEAN /\ generation \in Nat
      BY DEF Inv, TypeOK, FilesTyped
    <3>2. intent' = [op |-> intent.op, action |-> intent.action, phase |-> "compensating",
                     goal |-> "stopped", next |-> 0, open |-> open, generation |-> generation,
                     owner |-> intent.owner, wasActive |-> intent.wasActive,
                     wasUp |-> intent.wasUp]
      BY <1>0, <1>1 DEF Compensate, InForce
    <3> QED BY <1>0, <3>1, <3>2 DEF InForce, Phases
  <2>3. FilesTyped'
    BY <1>1, <2>2, PlansAreShort DEF Compensate, Inv, TypeOK, FilesTyped
  <2>4. LocalTyped'
    BY <1>1, <2>1 DEF Compensate, Goto, Inv, TypeOK, LocalTyped
  <2>5. LockInv' /\ ClientInv'
    BY <1>1, <2>1, HolderStays DEF Compensate, Goto, systemd, hooking
  <2>6. IntentInv'
    BY <1>0, <1>1, <2>1, <2>2, OwnerStays, NoIntentApart DEF Compensate, Goto
  <2> QED BY <1>1, <2>3, <2>4, <2>5, <2>6, SystemdSame, FilterSame, BudgetSame
          DEF Compensate, Inv, TypeOK
<1>2. CASE StopActive(c)
  <2>1. SystemdTyped'
    BY <1>2, BeginStopTyped DEF StopActive
  <2>2. LocalTyped' /\ LockInv' /\ ClientInv' /\ IntentInv'
    BY <1>2, Released DEF StopActive, BeginStop, Goto, files
  <2> QED BY <1>2, <2>1, <2>2, FilesSame, FilterSame, BudgetSame DEF StopActive, Inv, TypeOK
<1>3. CASE StopNotNeeded(c)
  <2>1. pc[c] \in Locked /\ "settle" \in Labels \ {"body", "verified"}
    BY <1>3 DEF StopNotNeeded, Owning, Locked, Labels
  <2>2. LocalTyped'
    BY <1>3, <2>1 DEF StopNotNeeded, Goto, Inv, TypeOK, LocalTyped
  <2>3. LockInv' /\ ClientInv'
    BY <1>3, <2>1, HolderStays DEF StopNotNeeded, Goto, systemd, hooking
  <2>4. IntentInv'
    BY <1>0, <1>3, <2>1, OwnerStays DEF StopNotNeeded, Goto, files
  <2> QED BY <1>3, <2>2, <2>3, <2>4, FilesSame, SystemdSame, FilterSame, BudgetSame
          DEF StopNotNeeded, Inv, TypeOK
<1>4. CASE RemoveFirewall(c)
  <2>1. /\ intent' \in InForce /\ intent'.owner = intent.owner /\ intent'.next = 1
        /\ intent'.goal = intent.goal /\ intent'.action = intent.action
    BY <1>0, <1>4 DEF RemoveFirewall, InForce
  <2>2. FilesTyped'
    <3>1. Len(Expected(intent')) \in 1..2
      BY <2>1, PlansAreShort
    <3>2. open' \in BOOLEAN /\ generation' \in Nat
      BY <1>4 DEF RemoveFirewall, Inv, TypeOK, FilesTyped
    <3>3. intent'.next <= Len(Expected(intent'))
      <4>1. intent'.next = 1
        BY <2>1
      <4>2. \A n \in 1..2 : 1 <= n
        OBVIOUS
      <4> QED BY <3>1, <4>1, <4>2, Zenon
    <3> QED BY <2>1, <3>2, <3>3 DEF FilesTyped, Expected
  <2>3. FilterTyped'
    BY <1>4 DEF RemoveFirewall, Inv, TypeOK, FilterTyped
  <2>4. LockInv' /\ ClientInv'
    BY <1>4 DEF RemoveFirewall, Inv, LockInv, ClientInv, HookRunning, local, systemd, hooking
  <2>5. IntentInv'
    BY <1>0, <1>4, <2>1, NoIntentApart, NoneAssumption
       DEF RemoveFirewall, Inv, IntentInv, OwnerKeepsIntent, local
  <2> QED BY <1>4, <2>2, <2>3, <2>4, <2>5, LocalSame, SystemdSame, BudgetSame
          DEF RemoveFirewall, Inv, TypeOK
<1>5. CASE CompensationVerified(c)
  <2>1. pc[c] \in Locked
    BY <1>5 DEF CompensationVerified, StopSettled, Locked
  <2> QED BY <1>0, <1>5, <2>1, Verified, SystemdSame, FilterSame, BudgetSame
          DEF CompensationVerified, Inv, TypeOK, systemd, hooking
<1>6. CASE CompensationFailed(c)
  <2>1. pc[c] \in Locked
    BY <1>6 DEF CompensationFailed, Locked
  <2>2. FilesTyped' /\ LocalTyped' /\ LockInv' /\ ClientInv' /\ IntentInv'
    BY <1>0, <1>6, <2>1, Returned DEF CompensationFailed, systemd, hooking
  <2> QED BY <1>6, <2>2, SystemdSame, FilterSame, BudgetSame DEF CompensationFailed, Inv, TypeOK
<1> QED BY <1>1, <1>2, <1>3, <1>4, <1>5, <1>6 DEF Compensation

-----------------------------------------------------------------------------
(* Every step of a hook, of systemd and of the environment keeps it *)

LEMMA HookKeeps == Inv /\ Hook => Inv'
<1> SUFFICES ASSUME Inv, Hook PROVE Inv'
  OBVIOUS
<1>1. CASE HookAcquired
  <2>1. SystemdTyped' /\ lock' \in Commands \cup {None, "hook"}
    BY <1>1 DEF HookAcquired, Inv, TypeOK, SystemdTyped, systemd
  <2>2. LocalTyped'
    BY <1>1, <2>1 DEF HookAcquired, Inv, TypeOK, LocalTyped, local
  <2>3. LockInv' /\ ClientInv'
    BY <1>1, NoneAssumption DEF HookAcquired, Inv, LockInv, ClientInv, HookRunning, local, systemd
  <2>4. IntentInv'
    BY <1>1 DEF HookAcquired, Inv, IntentInv, OwnerKeepsIntent, files, local
  <2> QED BY <1>1, <2>1, <2>2, <2>3, <2>4, FilesSame, FilterSame, BudgetSame
          DEF HookAcquired, Inv, TypeOK
<1>2. CASE HookRefused \/ HookRepeated \/ HookCleanup \/ HookLoad \/ HookBridge \/ HookUnproven
  <2>1. SystemdTyped' /\ FilterTyped'
    BY <1>2 DEF HookRefused, HookRepeated, HookCleanup, HookLoad, HookBridge, HookUnproven,
               Inv, TypeOK, SystemdTyped, FilterTyped, systemd, filter
  <2>2. /\ HookRunning /\ (lock' = lock \/ (lock' = None /\ ~HookRunning'))
        /\ UNCHANGED <<files, local, systemd, budget>>
    <3>1. CASE HookRefused \/ HookUnproven
      BY <3>1 DEF HookRefused, HookUnproven, HookRunning
    <3>2. CASE HookRepeated
      BY <3>2 DEF HookRepeated, HookRunning
    <3>3. CASE HookCleanup
      BY <3>3 DEF HookCleanup, HookRunning
    <3>4. CASE HookLoad \/ HookBridge
      BY <3>4 DEF HookLoad, HookBridge, HookRunning
    <3> QED BY <1>2, <3>1, <3>2, <3>3, <3>4, Zenon
  <2>3. LocalTyped'
    BY <2>2 DEF Inv, TypeOK, LocalTyped, local
  <2>4. LockInv' /\ ClientInv' /\ IntentInv'
    <3>1. intent' = intent /\ UNCHANGED <<pc, client>>
      BY <2>2 DEF files, local, systemd
    <3> QED BY <2>2, <3>1, HookMoves, Zenon
  <2> QED BY <2>1, <2>2, <2>3, <2>4, FilesSame, BudgetSame DEF Inv, TypeOK
<1>3. CASE HookProved
  <2>1. FilesTyped'
    BY <1>3, PlansAreShort
       DEF HookProved, HookAdvances, IsCurrent, Inv, TypeOK, FilesTyped, InForce, Expected
  <2>2. SystemdTyped' /\ LocalTyped'
    BY <1>3 DEF HookProved, Inv, TypeOK, SystemdTyped, LocalTyped, systemd, local
  <2>3. intent' = intent \/ (intent # NoIntent /\ intent' # NoIntent /\ intent'.owner = intent.owner)
    <3>1. CASE HookAdvances
      <4>1. intent \in InForce /\ intent # NoIntent
        BY <3>1 DEF HookAdvances, Inv, TypeOK, FilesTyped
      <4>2. intent' = [intent EXCEPT !.next = intent.next + 1]
        BY <1>3, <3>1 DEF HookProved
      <4>3. intent'.owner = intent.owner /\ intent'.phase = intent.phase
        BY <4>1, <4>2 DEF InForce
      <4>4. intent'.phase # "none"
        BY <4>1, <4>3 DEF InForce, Phases
      <4> QED BY <4>1, <4>3, <4>4, NoIntentApart
    <3>2. CASE ~HookAdvances
      BY <1>3, <3>2, Zenon DEF HookProved
    <3> QED BY <3>1, <3>2
  <2>4. HookRunning /\ lock' = None /\ ~HookRunning'
    BY <1>3 DEF HookProved, HookRunning
  <2>5. LockInv' /\ ClientInv' /\ IntentInv'
    BY <1>3, <2>3, <2>4, HookMoves DEF HookProved, local, systemd
  <2> QED BY <1>3, <2>1, <2>2, <2>5, FilterSame, BudgetSame DEF HookProved, Inv, TypeOK
<1> QED BY <1>1, <1>2, <1>3 DEF Hook

LEMMA SystemdKeeps == Inv /\ Systemd => Inv'
<1> SUFFICES ASSUME Inv, Systemd PROVE Inv'
  OBVIOUS
<1>1. SystemdTyped'
  BY DEF Systemd, BringUp, StartDone, StartFailed, StopDone, JobEnds, Inv, TypeOK, SystemdTyped,
         systemd, hooking
<1>2. UNCHANGED <<files, filter, budget>>
  BY DEF Systemd, BringUp, StartDone, StartFailed, StopDone
<1>3. CASE BringUp \/ (StopDone /\ again)
  <2>1. UNCHANGED <<lock, local, client>> /\ ~HookRunning'
    BY <1>3 DEF BringUp, StopDone, HookRunning, local
  <2>2. LockInv' /\ ClientInv' /\ IntentInv'
    BY <1>2, <2>1
       DEF Inv, LockInv, ClientInv, IntentInv, OwnerKeepsIntent, files, local
  <2> QED BY <1>1, <1>2, <2>1, <2>2, LocalSame, FilesSame, FilterSame, BudgetSame DEF Inv, TypeOK
<1>4. CASE StartDone \/ StartFailed \/ (StopDone /\ ~again)
  <2>1. PICK ok \in BOOLEAN : JobEnds(ok)
    BY <1>4 DEF StartDone, StartFailed, StopDone
  <2>2. hook' = "none" /\ UNCHANGED <<lock, request, stage>>
    BY <1>4 DEF StartDone, StartFailed, StopDone
  <2>3. LocalTyped' /\ LockInv' /\ ClientInv' /\ IntentInv'
    BY <1>2, <2>1, <2>2, JobEnded DEF files
  <2> QED BY <1>1, <1>2, <2>3, FilesSame, FilterSame, BudgetSame DEF Inv, TypeOK
<1> QED BY <1>3, <1>4 DEF Systemd

LEMMA EnvironmentKeeps == Inv /\ Environment => Inv'
<1> SUFFICES ASSUME Inv, Environment PROVE Inv'
  OBVIOUS
<1>1. CASE OutsideStart \/ OutsideStop \/ DockerStarted
  <2>1. SystemdTyped' /\ FilterTyped' /\ BudgetTyped'
    <3>1. CASE OutsideStart
      BY <3>1, FilterSame
         DEF OutsideStart, Outside, Inv, TypeOK, SystemdTyped, BudgetTyped, hooking
    <3>2. CASE OutsideStop
      <4>1. SystemdTyped'
        BY <3>2, BeginStopTyped DEF OutsideStop
      <4> QED BY <3>2, <4>1, FilterSame DEF OutsideStop, Outside, Inv, TypeOK, BudgetTyped
    <3>3. CASE DockerStarted
      <4>1. FilterTyped'
        BY <3>3 DEF DockerStarted, Inv, TypeOK, FilterTyped
      <4> QED BY <3>3, <4>1, SystemdSame, BudgetSame DEF DockerStarted, Inv, TypeOK
    <3> QED BY <1>1, <3>1, <3>2, <3>3
  <2>2. UNCHANGED <<files, lock, local, client>> /\ hook' \in {hook, "waiting"}
    BY <1>1 DEF OutsideStart, OutsideStop, BeginStop, DockerStarted, systemd, hooking
  <2>3. LockInv' /\ ClientInv' /\ IntentInv'
    BY <2>2 DEF Inv, LockInv, ClientInv, IntentInv, OwnerKeepsIntent, HookRunning, files, local
  <2> QED BY <2>1, <2>2, <2>3, FilesSame, LocalSame DEF Inv, TypeOK
<1>2. CASE HookKilled \/ HookFails
  <2>1. SystemdTyped' /\ FilterTyped' /\ BudgetTyped'
    <3>1. SystemdTyped' /\ BudgetTyped'
      BY <1>2 DEF HookKilled, HookFails, Inv, TypeOK, SystemdTyped, BudgetTyped, systemd
    <3>2. FilterTyped'
      <4>1. CASE HookKilled
        BY <4>1, FilterSame DEF HookKilled, Inv, TypeOK
      <4>2. CASE HookFails
        BY <4>2 DEF HookFails, Inv, TypeOK, FilterTyped
      <4> QED BY <1>2, <4>1, <4>2
    <3> QED BY <3>1, <3>2
  <2>2. UNCHANGED <<intent, open, local, client>>
    BY <1>2 DEF HookKilled, HookFails, files, systemd
  <2>3. generation' \in Nat
    BY <1>2 DEF HookKilled, HookFails, files, Inv, TypeOK, FilesTyped
  <2>4. FilesTyped'
    BY <2>2, <2>3 DEF Inv, TypeOK, FilesTyped, Expected
  <2>5. LocalTyped'
    BY <1>2, <2>2 DEF HookKilled, HookFails, Inv, TypeOK, LocalTyped, local
  <2>6. LockInv'
    BY <1>2, <2>2, NoneAssumption DEF HookKilled, HookFails, Inv, LockInv, HookRunning, local
  <2>7. ClientInv' /\ IntentInv'
    BY <2>2 DEF Inv, ClientInv, IntentInv, OwnerKeepsIntent, local
  <2> QED BY <2>1, <2>4, <2>5, <2>6, <2>7 DEF Inv, TypeOK
<1>3. ASSUME NEW c \in Commands, Crash(c) PROVE Inv'
  <2>1. FilesTyped' /\ LocalTyped' /\ LockInv' /\ ClientInv' /\ IntentInv'
    BY <1>3, Ended, NoIntentApart DEF Crash, hooking
  <2>2. SystemdTyped' /\ BudgetTyped'
    BY <1>3 DEF Crash, Inv, TypeOK, SystemdTyped, BudgetTyped, hooking
  <2> QED BY <1>3, <2>1, <2>2, FilterSame DEF Crash, Inv, TypeOK
<1>4. ASSUME NEW c \in Commands, TimedOut(c) PROVE Inv'
  <2>1. PICK l \in {"reacquire", "restop"} : pc' = [pc EXCEPT ![c] = l]
    BY <1>4 DEF TimedOut, Inv, TypeOK, LocalTyped
  <2>2. pc[c] \in Owning \ Locked /\ l \in Labels \ {"body", "verified"} /\ l \notin Locked
    BY <1>4 DEF TimedOut, Owning, Labels, Locked
  <2>3. LocalTyped'
    BY <1>4, <2>1, <2>2 DEF TimedOut, Inv, TypeOK, LocalTyped
  <2>4. SystemdTyped' /\ BudgetTyped'
    BY <1>4 DEF TimedOut, Inv, TypeOK, SystemdTyped, BudgetTyped, hooking
  <2>5. LockInv' /\ ClientInv'
    BY <1>4, <2>1, <2>2
       DEF TimedOut, Inv, TypeOK, LocalTyped, LockInv, ClientInv, HookRunning, hooking
  <2>6. IntentInv'
    BY <1>4, <2>1, <2>2, OwnerStays DEF TimedOut, files, Inv, IntentInv, OwnerKeepsIntent
  <2> QED BY <1>4, <2>3, <2>4, <2>5, <2>6, FilesSame, FilterSame DEF TimedOut, Inv, TypeOK
<1> QED BY <1>1, <1>2, <1>3, <1>4 DEF Environment

-----------------------------------------------------------------------------
(* The theorems *)

LEMMA InitTyped == Init => Inv
<1> SUFFICES ASSUME Init PROVE Inv
  OBVIOUS
<1>1. FilesTyped /\ LocalTyped /\ SystemdTyped /\ FilterTyped /\ BudgetTyped
  BY DEF Init, FilesTyped, LocalTyped, SystemdTyped, FilterTyped, BudgetTyped, Labels
<1>2. LockInv /\ ClientInv /\ IntentInv
  BY DEF Init, LockInv, ClientInv, IntentInv, OwnerKeepsIntent, HookRunning, Locked, Owning
<1> QED BY <1>1, <1>2 DEF Inv, TypeOK

LEMMA NextKeeps == Inv /\ [Next]_vars => Inv'
<1> SUFFICES ASSUME Inv, [Next]_vars PROVE Inv'
  OBVIOUS
<1>1. CASE UNCHANGED vars
  <2>1. LockInv' /\ ClientInv' /\ IntentInv'
    BY <1>1 DEF vars, files, local, systemd, hooking, Inv, LockInv, ClientInv, IntentInv,
               OwnerKeepsIntent, HookRunning
  <2> QED BY <1>1, <2>1, FilesSame, LocalSame, SystemdSame, FilterSame, BudgetSame
          DEF vars, Inv, TypeOK
<1>2. ASSUME NEW c \in Commands, Command(c) PROVE Inv'
  BY <1>2, EntryKeeps, BodyKeeps, ServiceActionKeeps, CompensationKeeps DEF Command
<1>3. ASSUME NEW c \in Commands, NEW r \in Requests, Acquire(c, r) PROVE Inv'
  BY <1>3, AcquireKeeps
<1> QED BY <1>1, <1>2, <1>3, HookKeeps, SystemdKeeps, EnvironmentKeeps DEF Next

LEMMA Invariant == Spec => []Inv
<1> QED BY InitTyped, NextKeeps, PTL DEF Spec

(* Every reachable state is well typed: an intent on disk is always one that   *)
(* normalize_service_operation_intent accepts, its progress within its plan.    *)
THEOREM TypeCorrect == Spec => []TypeOK
<1>1. Inv => TypeOK
  BY DEF Inv
<1> QED BY <1>1, Invariant, PTL

(* Although the lock is given up twice while an operation is in force, the      *)
(* intent on disk remains that of the process working on it.                    *)
THEOREM IntentStaysWithOwner == Spec => []OwnerKeepsIntent
<1>1. Inv => OwnerKeepsIntent
  BY DEF Inv, IntentInv
<1> QED BY <1>1, Invariant, PTL

=============================================================================
