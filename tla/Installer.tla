----------------------------- MODULE Installer -----------------------------
(* The product installer: install.py configure, install, adopt and upgrade    *)
(* (src/awginstall) and "awgctl update", which shares its deployment.  A      *)
(* command is a program of steps, todo, that grows as checks are made, and    *)
(* undo is the compensation the code would run if the next step failed: what  *)
(* configure_host, _install_entrypoints, upgrade_product and main do in their *)
(* except blocks, innermost first.  Any step may fail, before or after it took *)
(* effect (a command that times out), and the process may be killed anywhere. *)
(*                                                                            *)
(* Abstractions: a file is the text it holds, an account or a membership is   *)
(* present or not, a release directory is whole or absent (its temporary      *)
(* directory apart), and the timer is its unit file, its enablement links and *)
(* whether it is active.                                                       *)
EXTENDS Naturals, Sequences

CONSTANTS
  None,
  Earlier,              \* the release an earlier product installed
  Mine,                 \* the release of the source checkout
  Published,            \* a later signed release
  MaxCommands,          \* bound: commands that are started
  MaxTroubles           \* bound: steps that fail and commands that are killed

ASSUME DistinctReleases ==
  /\ Earlier # Mine /\ Earlier # Published /\ Mine # Published
  /\ "legacy-import" \notin {Earlier, Mine, Published} /\ "plain" \notin {Earlier, Mine, Published}
ASSUME BoundsAssumption == MaxCommands \in Nat /\ MaxTroubles \in Nat

VARIABLES
  host,                 \* what is installed
  run,                  \* what each process is doing
  report,               \* how the command that ended last did
  spoiled,              \* "killed" or "incomplete" when a command left that to an operator
  commands, troubles

vars == <<host, run, report, spoiled, commands, troubles>>
history == <<report, spoiled, commands>>

Processes == {"installer", "manager"}        \* install.py, and awgctl update
Versions == {Earlier, Mine, Published, "legacy-import"}
Identities == {"group", "user", "operators", "member"}
Files == {"sudoers", "dropin", "modules", "service", "timer", "settings"}
Entries == {"readme", "libexec", "internal", "public", "completion"}
Policies == {"bootstrap", "full"}            \* _bootstrap_settings, or the operator's
Operations == {"configure", "install", "adopt", "upgrade", "update"}

Contents == {None, "earlier", "bootstrap", "full"}
Artifacts == {None, "ours", "signed", "other"}  \* built here, published, of unknown making
Links == {"persistent", "runtime"}
Hosts ==
  [ids : SUBSET Identities, files : [Files -> Contents], links : SUBSET Links, active : BOOLEAN,
   entries : [Entries -> {None, "was", "ours"}], releases : [Versions -> Artifacts],
   selector : {None, "plain"} \cup Versions, vpn : {"none", "foreign", "managed"}]
Units == {"not-found", "enabled", "enabled-runtime", "disabled"}
Timers == [unit : Units, active : BOOLEAN]

ASSUME NoneAssumption ==
  /\ None \notin Versions \cup Policies \cup Operations
  /\ None \notin {"plain", "earlier", "was", "ours", "signed", "other"}

-----------------------------------------------------------------------------
(* Helpers *)

(* render_sudoers, render_service_hardening, to_dict and the fixed units: the  *)
(* bootstrap policy grants no sudo and hardens nothing.                        *)
Rendered(file, policy) ==
  CASE file \in {"sudoers", "dropin"} -> IF policy = "full" THEN "full" ELSE None
    [] file = "settings" -> policy
    [] OTHER -> "full"

(* _probe_expiry_timer_state: "not-found" when there is no unit file.          *)
Timer(h) ==
  [unit |-> IF h.files["timer"] = None THEN "not-found"
            ELSE IF "persistent" \in h.links THEN "enabled"
            ELSE IF "runtime" \in h.links THEN "enabled-runtime" ELSE "disabled",
   active |-> h.active]

(* The product a host runs, whether the single file or the release made of it. *)
Product(h) == IF h.selector = "plain" THEN "legacy-import" ELSE h.selector

(* build_identity_plan: the accounts to create, and when it refuses.           *)
Staging == {"group", "user"}
Wanted(policy) == Staging \cup {"operators"} \cup (IF policy = "full" THEN {"member"} ELSE {})
AllowExisting(flag) == flag \/ host.files["settings"] # None
Refuses(policy, flag) ==
  \/ host.ids # {} /\ ~AllowExisting(flag)
  \/ Staging \cap host.ids \notin {{}, Staging}
  \/ "member" \in host.ids /\ policy = "bootstrap"     \* undeclared members

(* _resolved_settings: upgrade and configure start from what is persisted.     *)
Resolved(op) ==
  IF op \in {"upgrade", "configure"} /\ host.files["settings"] = "bootstrap"
  THEN "bootstrap" ELSE "full"

-----------------------------------------------------------------------------
(* Programs *)

Do(what, on) == [do |-> what, on |-> on, was |-> None]
Redo(what, on, was) == [do |-> what, on |-> on, was |-> was]
One(what, id, S) == IF id \in S THEN <<Do(what, id)>> ELSE <<>>

Deployment(version) ==                       \* _deploy_source_release
  <<Do("build", None), Do("snapshot", None), Do("select", None), Do("release", version)>>

Program(op, version) ==
  CASE op = "configure" -> <<Do("plan", Resolved(op))>>
    [] op \in {"install", "adopt"} ->
         <<Do("plan", "bootstrap")>> \o Deployment(version)
           \o <<Do("plan", "full"), Do("initialize", None), Do("health", "last")>>
    [] op = "upgrade" ->
         (IF host.files["settings"] = None THEN <<Do("plan", "bootstrap")>> ELSE <<>>)
           \o <<Do("plan", Resolved(op))>> \o Deployment(version) \o <<Do("health", "trial")>>
    [] op = "update" ->
         <<Do("select", None), Do("release", version), Do("health", "trial")>>

FileOrder == <<"sudoers", "dropin", "modules", "service", "timer", "settings">>
EntryOrder == <<"readme", "libexec", "internal", "public", "completion">>

Missing(policy) == Wanted(policy) \ host.ids
Unstarted(policy) ==                         \* deviation: the timer is only enabled
  One("create", "group", Missing(policy)) \o One("create", "user", Missing(policy))
    \o One("create", "operators", Missing(policy)) \o One("create", "member", Missing(policy))
    \o [i \in 1..6 |-> Do("file", FileOrder[i])]
    \o <<Do("verify", None), Do("enable", None)>>
Configuration(policy) ==                     \* configure_host after its snapshots
  One("create", "group", Missing(policy)) \o One("create", "user", Missing(policy))
    \o One("create", "operators", Missing(policy)) \o One("create", "member", Missing(policy))
    \o [i \in 1..6 |-> Do("file", FileOrder[i])]
    \o <<Do("verify", None), Do("enable", None), Do("start", None)>>

(* _rollback_identities, and _restore_managed_host_state before it.            *)
GroupsKept(policy) ==                        \* deviation: no groupdel
  One("drop", "member", Missing(policy)) \o One("drop", "user", Missing(policy))
Dropped(policy) ==
  One("drop", "member", Missing(policy)) \o One("drop", "user", Missing(policy))
    \o One("drop", "operators", Missing(policy)) \o One("drop", "group", Missing(policy))
PutBackAll == [i \in 1..6 |-> Redo("putback", FileOrder[i], host.files[FileOrder[i]])]
IdentitiesFirst(policy) ==                   \* deviation: accounts go before the files
  Dropped(policy) \o <<Do("quiesce", None)>> \o PutBackAll
    \o <<Redo("retimer", None, Timer(host))>>
HostUndo(policy) ==
  <<Do("quiesce", None)>> \o PutBackAll \o <<Redo("retimer", None, Timer(host))>> \o Dropped(policy)

(* rollback_entrypoint_installation: in reverse, so libexec is empty by then.  *)
EntriesKept == <<>>                          \* deviation: nothing is taken back
EntryUndo ==
  [i \in 1..5 |-> Redo("repath", EntryOrder[6 - i], host.entries[EntryOrder[6 - i]])]

-----------------------------------------------------------------------------
(* Commands.  Only awgctl takes the mutation lock: install.py and update may   *)
(* overlap, and alone tells whether a command had the host to itself.          *)

Idle == [op |-> None, flag |-> FALSE, version |-> None, policy |-> None, before |-> None,
         alone |-> TRUE, todo |-> <<>>, undo |-> <<>>, failing |-> "no"]
Quiet == \A p \in Processes : run[p] = Idle

Started(op, flag, version) ==
  [op |-> op, flag |-> flag, version |-> version, policy |-> None, before |-> host,
   alone |-> Quiet, todo |-> Program(op, version), undo |-> <<>>, failing |-> "no"]
Begin(p, op, flag, version) ==
  /\ run[p] = Idle /\ commands < MaxCommands /\ commands' = commands + 1
  /\ run' = [q \in Processes |->
               IF q = p THEN Started(op, flag, version)
               ELSE [run[q] EXCEPT !.alone = (run[q] = Idle)]]
  /\ UNCHANGED <<host, report, spoiled, troubles>>

(* --adopt-existing-identities matters only while nothing is persisted.        *)
Flags == {FALSE} \cup {flag \in {TRUE} : host.ids # {} /\ host.files["settings"] = None}

Configure == \E flag \in Flags : Begin("installer", "configure", flag, Mine)
Install == host.vpn = "none" /\ \E flag \in Flags : Begin("installer", "install", flag, Mine)
Adopt == host.vpn = "foreign" /\ \E flag \in Flags : Begin("installer", "adopt", flag, Mine)
Upgrade == \E flag \in Flags : Begin("installer", "upgrade", flag, Mine)

(* The newest signed release, when it is newer than the manager's own: the one *)
(* of the source checkout (of which this host may hold another build) or a     *)
(* later one.                                                                  *)
Update ==
  /\ host.vpn = "managed"
  /\ \E version \in {Mine, Published} :
       /\ host.selector \in {Earlier, Mine} \ {version}
       /\ Begin("manager", "update", FALSE, version)

-----------------------------------------------------------------------------
(* Steps.  Done is the host after a step that changes it.                      *)

Now(p) == Head(run[p].todo)
At(p, what) == run[p].todo # <<>> /\ Now(p).do = what
Fault == troubles < MaxTroubles /\ troubles' = troubles + 1

Forward == {"create", "file", "verify", "enable", "start", "build", "entry",
            "stage", "publish", "activate", "health", "initialize"}
Artifact(r, version) ==                      \* what r would install as this version
  IF r.op = "update" /\ version # "legacy-import" THEN "signed" ELSE "ours"
Done(step, r) ==
  CASE step.do = "create"     -> [host EXCEPT !.ids = @ \cup {step.on}]
    [] step.do = "file"       -> [host EXCEPT !.files[step.on] = Rendered(step.on, r.policy)]
    [] step.do = "enable"     -> [host EXCEPT !.links = @ \cup {"persistent"}]
    [] step.do = "start"      -> [host EXCEPT !.active = TRUE]
    [] step.do = "entry"      -> [host EXCEPT !.entries[step.on] = "ours"]
    [] step.do = "publish"    -> [host EXCEPT !.releases[step.on] = Artifact(r, step.on)]
    [] step.do = "activate"   -> [host EXCEPT !.selector = step.on]
    [] step.do = "initialize" -> [host EXCEPT !.vpn = "managed"]
    [] OTHER                  -> host        \* build, verify, health and stage leave it alone

(* activate_release looks for the release; install_release refuses one with    *)
(* the same version and another content, and cannot rename its own onto one    *)
(* that was put there after it looked; build_identity_plan refuses.            *)
Overwriting(p) ==                            \* deviation: the rename removes what is there
  \/ At(p, "activate") /\ host.releases[Now(p).on] = None
  \/ At(p, "release") /\ host.releases[Now(p).on] \notin {None, Artifact(run[p], Now(p).on)}
  \/ At(p, "plan") /\ Refuses(Now(p).on, run[p].flag)
Rejected(p) ==
  \/ At(p, "activate") /\ host.releases[Now(p).on] = None
  \/ At(p, "release") /\ host.releases[Now(p).on] \notin {None, Artifact(run[p], Now(p).on)}
  \/ At(p, "publish") /\ host.releases[Now(p).on] # None
  \/ At(p, "plan") /\ Refuses(Now(p).on, run[p].flag)
Ready(p, what) == At(p, what) /\ run[p].failing = "no" /\ ~Rejected(p)
Continue(p, steps, back) ==
  /\ run' = [run EXCEPT ![p].todo = steps \o Tail(@), ![p].undo = back]
  /\ UNCHANGED <<history, troubles>>

(* What a failure takes back: install and adopt roll their first configuration *)
(* and the deployment back only until these are complete, the second           *)
(* configuration by itself, and what follows not at all.                       *)
OwnOnly(p, policy) == <<>>                   \* deviation: earlier configurations stay
Enclosing(p, policy) ==
  IF run[p].op \in {"install", "adopt"} /\ policy = "full" THEN <<>> ELSE run[p].undo
Compensation(p) ==
  IF At(p, "plan") THEN Enclosing(p, Now(p).on)
  ELSE IF At(p, "initialize") \/ Now(p) = Do("health", "last") THEN <<>> ELSE run[p].undo

Plan(p) ==                                   \* configure_host up to its snapshots
  /\ Ready(p, "plan")
  /\ LET policy == Now(p).on IN
       run' = [run EXCEPT ![p].policy = policy, ![p].todo = Configuration(policy) \o Tail(@),
                          ![p].undo = HostUndo(policy) \o Enclosing(p, policy)]
  /\ UNCHANGED <<host, history, troubles>>

Snapshot(p) ==                               \* _install_entrypoints
  /\ Ready(p, "snapshot")
  /\ Continue(p, [i \in 1..5 |-> Do("entry", EntryOrder[i])], EntryUndo \o run[p].undo)
  /\ UNCHANGED host

Reselect(version) == <<Do("reselect", version)>>

(* active_release, or preserve_legacy_release for the single-file product.     *)
Select(p) ==
  /\ Ready(p, "select")
  /\ LET legacy == host.selector = "plain"
         import == legacy /\ host.releases["legacy-import"] = None
     IN  Continue(p, IF import
                     THEN <<Do("stage", "legacy-import"), Do("publish", "legacy-import")>>
                     ELSE <<>>,
                  (IF host.selector = None \/ import THEN <<>>
                   ELSE Reselect(Product(host))) \o run[p].undo)
  /\ UNCHANGED host

Release(p) ==                                \* install_release
  /\ Ready(p, "release")
  /\ LET version == Now(p).on IN
       Continue(p, (IF host.releases[version] = None
                    THEN <<Do("stage", version), Do("publish", version)>> ELSE <<>>)
                   \o <<Do("activate", version)>>, run[p].undo)
  /\ UNCHANGED host

Advance(p) ==
  /\ \E what \in Forward : Ready(p, what)
  /\ host' = Done(Now(p), run[p])
  /\ Continue(p, <<>>, (IF At(p, "publish") /\ Now(p).on = "legacy-import"
                        THEN Reselect("legacy-import") ELSE <<>>) \o run[p].undo)

(* A failure after its effect is a command that timed out, or a directory that *)
(* could not be flushed.                                                        *)
StepFails(p) ==
  /\ run[p].todo # <<>> /\ run[p].failing = "no"
  /\ IF Rejected(p) THEN UNCHANGED <<host, troubles>>
     ELSE Fault /\ host' \in {host, Done(Now(p), run[p])}
  /\ run' = [run EXCEPT ![p].todo = Compensation(p), ![p].undo = <<>>, ![p].failing = "yes"]
  /\ UNCHANGED history

-----------------------------------------------------------------------------
(* Compensation: every step is tried, whatever became of the ones before.      *)

LinksByName(was) ==                          \* deviation: the state's name as a link
  IF was.unit = "disabled" THEN {} ELSE host.links \cup {was.unit}
OldLinks(was) ==                             \* _restore_expiry_timer_state
  CASE was.unit = "enabled"         -> host.links \cup {"persistent"}
    [] was.unit = "enabled-runtime" -> host.links \cup {"runtime"}
    [] was.unit = "disabled"        -> {}
    [] OTHER                        -> host.links
OldTimer(was) ==
  [host EXCEPT !.links = OldLinks(was), !.active = IF was.unit = "not-found" THEN @ ELSE was.active]

Removed(id) == {id} \cup (IF id = "operators" THEN {"member"} ELSE {})
Undone(step) ==
  CASE step.do = "quiesce"  -> [host EXCEPT !.active = FALSE,
                                 !.links = IF host.files["timer"] = None THEN @ ELSE {}]
    [] step.do = "putback"  -> [host EXCEPT !.files[step.on] = step.was]
    [] step.do = "retimer"  -> OldTimer(step.was)
    [] step.do = "drop"     -> [host EXCEPT !.ids = @ \ Removed(step.on)]
    [] step.do = "repath"   -> [host EXCEPT !.entries[step.on] = step.was]
    [] step.do = "reselect" -> [host EXCEPT !.selector = step.on]

(* A command fails by itself: the account was never created, the group is      *)
(* still a user's primary one, the directory is not empty, the unit is gone.   *)
Impossible(step) ==
  CASE step.do = "drop"     -> \/ step.on \notin host.ids
                               \/ step.on = "group" /\ "user" \in host.ids
    [] step.do = "repath"   -> /\ step.on = "libexec" /\ step.was = None
                               /\ host.entries["internal"] # None
    [] step.do = "retimer"  -> Timer(OldTimer(step.was)) # step.was
    [] step.do = "reselect" -> host.releases[step.on] = None
    [] OTHER                -> FALSE

(* userdel takes a group of the same name along where USERGROUPS_ENAB is set.  *)
Outcomes(step) ==
  {Undone(step)} \cup
    (IF step.do = "drop" /\ step.on = "user"
     THEN {[Undone(step) EXCEPT !.ids = @ \ {"group"}]} ELSE {})

Compensate(p) ==
  /\ run[p].todo # <<>> /\ run[p].failing # "no" /\ ~Impossible(Now(p))
  /\ host' \in Outcomes(Now(p))
  /\ Continue(p, <<>>, <<>>)

(* Of the two timer commands of a step either may have worked.                 *)
Halfway(step) ==
  {host} \cup {[Undone(step) EXCEPT !.links = l, !.active = a] :
                 l \in {host.links, Undone(step).links}, a \in {host.active, Undone(step).active}}

CompensationFails(p) ==
  /\ run[p].todo # <<>> /\ run[p].failing # "no"
  /\ IF Impossible(Now(p))
     THEN /\ host' = IF At(p, "retimer") /\ host.files["timer"] # None THEN Undone(Now(p)) ELSE host
          /\ UNCHANGED troubles
     ELSE Fault /\ host' \in Halfway(Now(p))
  /\ run' = [run EXCEPT ![p].todo = Tail(@), ![p].failing = "badly"]
  /\ UNCHANGED history

-----------------------------------------------------------------------------
(* Ends *)

Finish(p) ==
  /\ run[p] # Idle /\ run[p].todo = <<>>
  /\ report' = CASE run[p].failing = "no"  -> "ok"
                 [] run[p].failing = "yes" -> "failed"
                 [] OTHER                  -> "incomplete"
  /\ spoiled' = IF run[p].failing = "badly" THEN "incomplete"
                ELSE IF run[p].failing = "no" /\ run[p].op \in {"install", "adopt", "upgrade"}
                THEN "no" ELSE spoiled
  /\ run' = [run EXCEPT ![p] = Idle]
  /\ UNCHANGED <<host, commands, troubles>>

Killed(P) ==                                 \* the processes of P stop where they are
  /\ Fault /\ report' = "killed"
  /\ run' = [p \in Processes |-> IF p \in P THEN Idle ELSE run[p]]
  /\ spoiled' = IF spoiled = "incomplete" \/ \E p \in P : run[p].failing = "badly"
                THEN "incomplete" ELSE "killed"
  /\ UNCHANGED commands

Kill(p) == run[p] # Idle /\ Killed({p}) /\ UNCHANGED host

Booted(h) ==                                 \* runtime links are gone, enabled units start
  [h EXCEPT !.links = @ \ {"runtime"},
            !.active = h.files["timer"] # None /\ "persistent" \in h.links]

Reboot ==                                    \* of an idle host, or one that loses power
  /\ host' = Booted(host)
  /\ IF Quiet THEN UNCHANGED <<run, history, troubles>> ELSE Killed(Processes)

-----------------------------------------------------------------------------
(* A bare host, one with a hand-made server, one with the single-file product *)
(* that had no releases, or one that an earlier release was installed on.      *)
Bare ==
  [ids |-> {}, files |-> [f \in Files |-> None], links |-> {}, active |-> FALSE,
   entries |-> [e \in Entries |-> None], releases |-> [v \in Versions |-> None],
   selector |-> None, vpn |-> "none"]
Legacy ==
  [Bare EXCEPT !.entries = [e \in Entries |-> "was"], !.selector = "plain", !.vpn = "managed"]
Managed(links, active, mine) ==
  [Legacy EXCEPT !.ids = Identities, !.links = links, !.active = active, !.selector = Earlier,
     !.files = [f \in Files |-> IF f = "settings" THEN "full" ELSE "earlier"],
     !.releases = [@ EXCEPT ![Earlier] = "ours", ![Mine] = mine]]

Init ==
  /\ \/ host \in {Bare, [Bare EXCEPT !.vpn = "foreign"], Legacy}
     \/ \E links \in {{}, {"persistent"}, {"runtime"}}, active \in BOOLEAN :
          host = Managed(links, active, None)
     \/ host = Managed({"persistent"}, TRUE, "other")
  /\ run = [p \in Processes |-> Idle]
  /\ report = None /\ spoiled = "no" /\ commands = 0 /\ troubles = 0

Next ==
  \/ Configure \/ Install \/ Adopt \/ Upgrade \/ Update
  \/ \E p \in Processes :
       \/ Plan(p) \/ Snapshot(p) \/ Select(p) \/ Release(p) \/ Advance(p) \/ StepFails(p)
       \/ Compensate(p) \/ CompensationFails(p)
       \/ Finish(p) \/ Kill(p)
  \/ Reboot

Spec == Init /\ [][Next]_vars

-----------------------------------------------------------------------------
(* Properties *)

Steps ==
  [do : {"plan"}, on : Policies, was : {None}]
    \cup [do : {"build", "snapshot", "select", "verify", "enable", "start", "initialize", "quiesce"},
          on : {None}, was : {None}]
    \cup [do : {"health"}, on : {"last", "trial"}, was : {None}]
    \cup [do : {"create", "drop"}, on : Identities, was : {None}]
    \cup [do : {"file"}, on : Files, was : {None}]
    \cup [do : {"entry"}, on : Entries, was : {None}]
    \cup [do : {"release", "stage", "publish", "activate", "reselect"}, on : Versions, was : {None}]
    \cup [do : {"putback"}, on : Files, was : Contents]
    \cup [do : {"repath"}, on : Entries, was : {None, "was", "ours"}]
    \cup [do : {"retimer"}, on : {None}, was : Timers]
Runs ==
  [op : {None} \cup Operations, flag : BOOLEAN, version : {None} \cup Versions,
   policy : {None} \cup Policies, before : {None} \cup Hosts, alone : BOOLEAN,
   todo : Seq(Steps), undo : Seq(Steps), failing : {"no", "yes", "badly"}]

(* Every variable keeps to its values; steps name what their kind acts on.     *)
TypeOK ==
  /\ host \in Hosts
  /\ run \in [Processes -> Runs]
  /\ report \in {None, "ok", "failed", "incomplete", "killed"}
  /\ spoiled \in {"no", "killed", "incomplete"}

(* Whatever fails or is killed, bin/awgctl never selects a release that is not *)
(* there; and once commands have ended in good order an entry point leads to a *)
(* product.                                                                    *)
SelectorWhole == host.selector \in Versions => host.releases[host.selector] # None
SelectorUsable ==
  /\ SelectorWhole
  /\ Quiet /\ spoiled = "no" /\ (\E e \in Entries : host.entries[e] # None)
       => host.selector # None

(* A release that is in place is never changed ("Install an immutable          *)
(* release"), not even by the installer and an update that bring two builds of *)
(* one version at the same time and both found it absent; and a host that had  *)
(* a product never ends without one.                                           *)
ReleaseImmutable ==
  [][/\ \A v \in Versions : host.releases[v] # None => host'.releases[v] = host.releases[v]
     /\ host.selector # None => host'.selector # None]_vars

(* installation.json is what makes the next run take existing accounts for the *)
(* manager's own: it never stands without the accounts and the membership it   *)
(* declares, at no step of a command, of its compensation or of a killed one.  *)
SettingsWitness ==
  host.files["settings"] # None /\ spoiled # "incomplete"
      /\ (\A p \in Processes : run[p].failing # "badly")
    => Wanted(host.files["settings"]) \subseteq host.ids

(* A command that reports a failure without an incomplete compensation leaves  *)
(* the host as it found it: accounts, policy files, the timer's state, entry   *)
(* points and the selected product; a failed install or adopt may instead      *)
(* leave a complete deployment (whether the interface is initialized by then   *)
(* is not spoken of: a failed last health check comes after that).             *)
Same(h, before) ==
  /\ h.ids = before.ids /\ h.files = before.files /\ h.entries = before.entries
  /\ Timer(h) = Timer(before)
  /\ before.selector # None => Product(h) = Product(before)
Deployed(h, version) ==
  /\ h.selector = version /\ h.releases[version] = "ours"
  /\ \A e \in Entries : h.entries[e] = "ours"
Boundary(h, policy) ==
  /\ \A f \in Files : h.files[f] = Rendered(f, policy)
  /\ Wanted(policy) \subseteq h.ids
  /\ Timer(h) = [unit |-> "enabled", active |-> TRUE]
Ends(p) == run[p] # Idle /\ run'[p] = Idle
FailureRestores ==
  [][\A p \in Processes : Ends(p) /\ run[p].alone /\ report' = "failed" =>
       \/ Same(host', run[p].before)
       \/ /\ run[p].op \in {"install", "adopt"} /\ Deployed(host', Mine)
          /\ \E policy \in Policies : Boundary(host', policy)]_vars

(* A command that reports success leaves the whole boundary of its policy and  *)
(* the release it deployed; the policy is weaker than the operator's only if   *)
(* an earlier command stopped between its two configurations.                  *)
SuccessComplete ==
  [][\A p \in Processes : Ends(p) /\ run[p].alone /\ report' = "ok" =>
       /\ run[p].op # "update" =>
            \E policy \in Policies :
              /\ Boundary(host', policy)
              /\ policy = "bootstrap" => run[p].before.files["settings"] = "bootstrap"
       /\ run[p].op \in {"install", "adopt", "upgrade"} => Deployed(host', Mine)
       /\ run[p].op = "update" => host'.selector = run[p].version]_vars

(* After commands that ended in good order, failed ones included, the host can *)
(* be configured or upgraded again without options, and installed or adopted   *)
(* unless an operator is already enrolled (docs/INSTALL.md).                   *)
NextRunAccepted ==
  Quiet /\ spoiled = "no" =>
    /\ ~Refuses(Resolved("configure"), FALSE)
    /\ host.files["settings"] = None => ~Refuses("bootstrap", FALSE)
    /\ "member" \notin host.ids => ~Refuses("bootstrap", FALSE)
=============================================================================
