-------------------------- MODULE InstallerProofs --------------------------
(***************************************************************************)
(* Proofs about Installer for any number of commands and troubles, and for *)
(* any overlap of install.py with awgctl update.                           *)
(*                                                                         *)
(* Types are not inductive alone: what Undone does to the host is defined  *)
(* only for compensations, so StepInv says that undo, and what a failing   *)
(* command has left to do, hold nothing else.                              *)
(*                                                                         *)
(* That installation.json has its accounts, that an entry point leads to a *)
(* product and that the next run is accepted are BoundaryInv: what the     *)
(* steps ahead and the steps recorded to take them back still promise, the *)
(* order they come in, and that awgctl update takes no part in either.     *)
(*                                                                         *)
(* That a reported success is complete is SuccessInv: whatever a command   *)
(* has to leave behind is there, or its step is still ahead.               *)
(*                                                                         *)
(* That a failure leaves the host as it was is RestoreInv: run from here,  *)
(* the steps recorded would make the host one to go back to, and what the  *)
(* steps ahead will change is among what they put back.  OrderInv is the   *)
(* order of the steps ahead this needs.                                    *)
(***************************************************************************)
EXTENDS Installer, SequenceTheorems, TLAPS

Compensations == {"quiesce", "putback", "retimer", "drop", "repath", "reselect"}
Backward == {s \in Steps : s.do \in Compensations}
Offered == {Mine, Published}

StepInv ==
  \A p \in Processes :
    /\ run[p].undo \in Seq(Backward)
    /\ run[p].todo \in Seq(IF run[p].failing = "no" THEN Steps ELSE Backward)

Inv == TypeOK /\ StepInv /\ SelectorWhole

Whole(h) == h.selector \in Versions => h.releases[h.selector] # None

(* What no step does to the host. *)
Safe(h, g) ==
  /\ g \in Hosts
  /\ \A v \in Versions : h.releases[v] # None => g.releases[v] = h.releases[v]
  /\ h.selector # None => g.selector # None
  /\ Whole(h) => Whole(g)

-----------------------------------------------------------------------------
(* Sequences of steps *)

(* A sequence over a set is one over every larger set. *)
LEMMA SeqMonotone ==
  ASSUME NEW S, NEW T, S \subseteq T, NEW s \in Seq(S)
  PROVE  s \in Seq(T)
<1>1. PICK n \in Nat : s \in [1..n -> S]
  BY SeqDef
<1>2. s \in [1..n -> T]
  BY <1>1
<1> QED
  BY <1>2, SeqDef

LEMMA StepSets == Backward \subseteq Steps
  BY DEF Backward

LEMMA StepsOfAllKinds ==
  /\ \A policy \in Policies : Do("plan", policy) \in Steps
  /\ \A what \in {"build", "snapshot", "select", "verify", "enable", "start", "initialize"} :
       Do(what, None) \in Steps
  /\ \A what \in {"last", "trial"} : Do("health", what) \in Steps
  /\ \A id \in Identities : Do("create", id) \in Steps /\ Do("drop", id) \in Backward
  /\ \A file \in Files : Do("file", file) \in Steps
  /\ \A entry \in Entries : Do("entry", entry) \in Steps
  /\ \A v \in Versions : /\ Do("release", v) \in Steps /\ Do("stage", v) \in Steps
                         /\ Do("activate", v) \in Steps /\ Do("reselect", v) \in Backward
                         /\ Do("publish", v) \in Steps
  /\ Do("quiesce", None) \in Backward
  /\ \A file \in Files, was \in Contents : Redo("putback", file, was) \in Backward
  /\ \A entry \in Entries, was \in {None, "was", "ours"} : Redo("repath", entry, was) \in Backward
  /\ \A was \in Timers : Redo("retimer", None, was) \in Backward
<1>1. /\ \A policy \in Policies : Do("plan", policy) \in Steps
      /\ \A what \in {"build", "snapshot", "select", "verify", "enable", "start", "initialize"} :
           Do(what, None) \in Steps
      /\ \A what \in {"last", "trial"} : Do("health", what) \in Steps
      /\ \A id \in Identities : Do("create", id) \in Steps
      /\ \A file \in Files : Do("file", file) \in Steps
      /\ \A entry \in Entries : Do("entry", entry) \in Steps
  BY DEF Do, Steps, Compensations
<1>2. \A v \in Versions : /\ Do("release", v) \in Steps /\ Do("stage", v) \in Steps
                          /\ Do("activate", v) \in Steps /\ Do("publish", v) \in Steps
  BY DEF Do, Steps, Compensations
<1>3. /\ \A id \in Identities : Do("drop", id) \in Backward
      /\ \A v \in Versions : Do("reselect", v) \in Backward
      /\ Do("quiesce", None) \in Backward
  BY DEF Do, Backward, Steps, Compensations
<1>4. /\ \A file \in Files, was \in Contents : Redo("putback", file, was) \in Backward
      /\ \A entry \in Entries, was \in {None, "was", "ours"} : Redo("repath", entry, was) \in Backward
      /\ \A was \in Timers : Redo("retimer", None, was) \in Backward
  BY DEF Redo, Backward, Steps, Compensations
<1> QED
  BY <1>1, <1>2, <1>3, <1>4

(* Two sequences over a set, one after the other; short ones spelled out.      *)
LEMMA OneTyped ==
  ASSUME NEW T, NEW what, NEW id, NEW S, Do(what, id) \in T
  PROVE  One(what, id, S) \in Seq(T)
  BY DEF One

LEMMA FileStepsTyped == [i \in 1..6 |-> Do("file", FileOrder[i])] \in Seq(Steps)
<1>1. \A i \in 1..6 : FileOrder[i] \in Files
  BY DEF FileOrder, Files
<1>2. \A i \in 1..6 : Do("file", FileOrder[i]) \in Steps
  BY <1>1, StepsOfAllKinds
<1> QED
  BY <1>2, SeqDef

LEMMA EntryStepsTyped == [i \in 1..5 |-> Do("entry", EntryOrder[i])] \in Seq(Steps)
<1>1. \A i \in 1..5 : EntryOrder[i] \in Entries
  BY DEF EntryOrder, Entries
<1>2. \A i \in 1..5 : Do("entry", EntryOrder[i]) \in Steps
  BY <1>1, StepsOfAllKinds
<1> QED
  BY <1>2, SeqDef

LEMMA ConfigurationTyped ==
  ASSUME NEW policy \in Policies
  PROVE  Configuration(policy) \in Seq(Steps)
<1> DEFINE m == Missing(policy)
<1>1. /\ One("create", "group", m) \in Seq(Steps) /\ One("create", "user", m) \in Seq(Steps)
      /\ One("create", "operators", m) \in Seq(Steps) /\ One("create", "member", m) \in Seq(Steps)
  BY OneTyped, StepsOfAllKinds DEF Identities
<1>2. <<Do("verify", None), Do("enable", None), Do("start", None)>> \in Seq(Steps)
  BY StepsOfAllKinds
<1> HIDE DEF m
<1> DEFINE c1 == One("create", "group", m) \o One("create", "user", m)
           c2 == c1 \o One("create", "operators", m)
           c3 == c2 \o One("create", "member", m)
           c4 == c3 \o [i \in 1..6 |-> Do("file", FileOrder[i])]
<1>3. c1 \in Seq(Steps)
  BY <1>1, ConcatProperties
<1> HIDE DEF c1
<1>4. c2 \in Seq(Steps)
  BY <1>1, <1>3, ConcatProperties
<1> HIDE DEF c2
<1>5. c3 \in Seq(Steps)
  BY <1>1, <1>4, ConcatProperties
<1> HIDE DEF c3
<1>6. c4 \in Seq(Steps)
  BY <1>5, FileStepsTyped, ConcatProperties
<1>7. Configuration(policy) = c4 \o <<Do("verify", None), Do("enable", None), Do("start", None)>>
  BY DEF Configuration, m, c1, c2, c3, c4
<1> HIDE DEF c4
<1> QED
  BY <1>2, <1>6, <1>7, ConcatProperties

LEMMA DroppedTyped ==
  ASSUME NEW policy \in Policies
  PROVE  Dropped(policy) \in Seq(Backward)
<1> DEFINE m == Missing(policy)
<1>1. /\ One("drop", "group", m) \in Seq(Backward) /\ One("drop", "user", m) \in Seq(Backward)
      /\ One("drop", "operators", m) \in Seq(Backward) /\ One("drop", "member", m) \in Seq(Backward)
  BY OneTyped, StepsOfAllKinds DEF Identities
<1> HIDE DEF m
<1> DEFINE d1 == One("drop", "member", m) \o One("drop", "user", m)
           d2 == d1 \o One("drop", "operators", m)
<1>2. d1 \in Seq(Backward)
  BY <1>1, ConcatProperties
<1> HIDE DEF d1
<1>3. d2 \in Seq(Backward)
  BY <1>1, <1>2, ConcatProperties
<1>4. Dropped(policy) = d2 \o One("drop", "group", m)
  BY DEF Dropped, m, d1, d2
<1> HIDE DEF d2
<1> QED
  BY <1>1, <1>3, <1>4, ConcatProperties

LEMMA TimerTyped ==
  ASSUME NEW h \in Hosts
  PROVE  Timer(h) \in Timers
  BY DEF Timer, Timers, Units, Hosts

LEMMA HostUndoTyped ==
  ASSUME NEW policy \in Policies, host \in Hosts
  PROVE  HostUndo(policy) \in Seq(Backward)
<1>1. \A i \in 1..6 : FileOrder[i] \in Files /\ host.files[FileOrder[i]] \in Contents
  BY DEF FileOrder, Files, Hosts
<1>2. \A i \in 1..6 : Redo("putback", FileOrder[i], host.files[FileOrder[i]]) \in Backward
  BY <1>1, StepsOfAllKinds
<1>3. PutBackAll \in Seq(Backward)
  BY <1>2, SeqDef DEF PutBackAll
<1>4. /\ <<Do("quiesce", None)>> \in Seq(Backward)
      /\ <<Redo("retimer", None, Timer(host))>> \in Seq(Backward)
  BY StepsOfAllKinds, TimerTyped
<1>5. <<Do("quiesce", None)>> \o PutBackAll \in Seq(Backward)
  BY <1>3, <1>4, ConcatProperties
<1>6. (<<Do("quiesce", None)>> \o PutBackAll) \o <<Redo("retimer", None, Timer(host))>> \in Seq(Backward)
  BY <1>4, <1>5, ConcatProperties
<1> QED
  BY <1>6, DroppedTyped, ConcatProperties DEF HostUndo

LEMMA EntryUndoTyped ==
  ASSUME host \in Hosts
  PROVE  EntryUndo \in Seq(Backward)
<1>1. \A i \in 1..5 : EntryOrder[6 - i] \in Entries
                      /\ host.entries[EntryOrder[6 - i]] \in {None, "was", "ours"}
  BY DEF EntryOrder, Entries, Hosts
<1>2. \A i \in 1..5 : Redo("repath", EntryOrder[6 - i], host.entries[EntryOrder[6 - i]]) \in Backward
  BY <1>1, StepsOfAllKinds
<1> QED
  BY <1>2, SeqDef DEF EntryUndo

LEMMA DeploymentTyped ==
  ASSUME NEW v \in Versions
  PROVE  Deployment(v) \in Seq(Steps)
  BY StepsOfAllKinds DEF Deployment

LEMMA ResolvedTyped == \A op : Resolved(op) \in Policies
  BY DEF Resolved, Policies

LEMMA ProgramTyped ==
  ASSUME NEW op \in Operations, NEW version \in Offered
  PROVE  Program(op, version) \in Seq(Steps)
<1>1. /\ <<Do("plan", Resolved(op))>> \in Seq(Steps)
      /\ <<Do("plan", "bootstrap")>> \in Seq(Steps)
      /\ <<Do("plan", "full"), Do("initialize", None), Do("health", "last")>> \in Seq(Steps)
      /\ <<Do("health", "trial")>> \in Seq(Steps)
      /\ <<Do("select", None), Do("release", version), Do("health", "trial")>> \in Seq(Steps)
  BY StepsOfAllKinds, ResolvedTyped DEF Policies, Versions, Offered
<1>2. Deployment(version) \in Seq(Steps)
  BY DeploymentTyped DEF Versions, Offered
<1> DEFINE b == IF host.files["settings"] = None THEN <<Do("plan", "bootstrap")>> ELSE <<>>
<1>3. b \in Seq(Steps)
  BY <1>1
<1> HIDE DEF b
<1>4. /\ <<Do("plan", "bootstrap")>> \o Deployment(version) \in Seq(Steps)
      /\ b \o <<Do("plan", Resolved(op))>> \in Seq(Steps)
  BY <1>1, <1>2, <1>3, ConcatProperties
<1>5. /\ (<<Do("plan", "bootstrap")>> \o Deployment(version))
           \o <<Do("plan", "full"), Do("initialize", None), Do("health", "last")>> \in Seq(Steps)
      /\ (b \o <<Do("plan", Resolved(op))>>) \o Deployment(version) \in Seq(Steps)
  BY <1>1, <1>2, <1>4, ConcatProperties
<1>6. ((b \o <<Do("plan", Resolved(op))>>) \o Deployment(version)) \o <<Do("health", "trial")>> \in Seq(Steps)
  BY <1>1, <1>5, ConcatProperties
<1>7. CASE op = "configure"
  BY <1>1, <1>7 DEF Program
<1>8. CASE op \in {"install", "adopt"}
  BY <1>5, <1>8 DEF Program
<1>9. CASE op = "upgrade"
  BY <1>6, <1>9 DEF Program, b
<1>10. CASE op = "update"
  BY <1>1, <1>10 DEF Program
<1> QED
  BY <1>7, <1>8, <1>9, <1>10 DEF Operations

-----------------------------------------------------------------------------
(* What steps do to the host *)

LEMMA Values ==
  /\ None \notin Versions /\ None \notin {"ours", "signed", "other", "plain"}
  BY NoneAssumption DEF Versions

LEMMA SafeItself ==
  ASSUME host \in Hosts
  PROVE  Safe(host, host)
  BY DEF Safe, Whole

(* A host with other accounts, files, units, entry points or interface.        *)
LEMMA SafeElsewhere ==
  ASSUME NEW g \in Hosts, g.releases = host.releases, g.selector = host.selector
  PROVE  Safe(host, g)
  BY DEF Safe, Whole

LEMMA RenderedTyped ==
  ASSUME NEW file \in Files, NEW policy \in {None} \cup Policies
  PROVE  Rendered(file, policy) \in Contents
  BY DEF Rendered, Contents, Policies

LEMMA ArtifactKnown ==
  ASSUME NEW r, NEW version
  PROVE  Artifact(r, version) \in Artifacts \ {None}
  BY NoneAssumption DEF Artifact, Artifacts

LEMMA DoneSafe ==
  ASSUME host \in Hosts, NEW step \in Steps, NEW r, r.policy \in {None} \cup Policies,
         step.do = "activate" => host.releases[step.on] # None,
         step.do = "publish" => host.releases[step.on] = None
  PROVE  Safe(host, Done(step, r))
<1>1. CASE step.do = "create"
  <2>1. step.on \in Identities
    BY <1>1 DEF Steps
  <2>2. Done(step, r) = [host EXCEPT !.ids = @ \cup {step.on}]
    BY <1>1 DEF Done
  <2> QED
    BY <2>1, <2>2, SafeElsewhere DEF Hosts
<1>2. CASE step.do = "file"
  <2>1. step.on \in Files
    BY <1>2 DEF Steps
  <2>2. Done(step, r) = [host EXCEPT !.files[step.on] = Rendered(step.on, r.policy)]
    BY <1>2 DEF Done
  <2>3. Rendered(step.on, r.policy) \in Contents
    BY <2>1, RenderedTyped
  <2> QED
    BY <2>1, <2>2, <2>3, SafeElsewhere DEF Hosts
<1>3. CASE step.do = "enable"
  <2>1. Done(step, r) = [host EXCEPT !.links = @ \cup {"persistent"}]
    BY <1>3 DEF Done
  <2> QED
    BY <2>1, SafeElsewhere DEF Hosts, Links
<1>4. CASE step.do = "start"
  <2>1. Done(step, r) = [host EXCEPT !.active = TRUE]
    BY <1>4 DEF Done
  <2> QED
    BY <2>1, SafeElsewhere DEF Hosts
<1>5. CASE step.do = "entry"
  <2>1. step.on \in Entries
    BY <1>5 DEF Steps
  <2>2. Done(step, r) = [host EXCEPT !.entries[step.on] = "ours"]
    BY <1>5 DEF Done
  <2> QED
    BY <2>1, <2>2, SafeElsewhere DEF Hosts
<1>6. CASE step.do = "publish"
  <2>1. step.on \in Versions /\ host.releases[step.on] = None /\ Artifact(r, step.on) \in Artifacts
    BY <1>6, ArtifactKnown DEF Steps
  <2>2. Done(step, r) = [host EXCEPT !.releases[step.on] = Artifact(r, step.on)]
    BY <1>6 DEF Done
  <2> DEFINE g == [host EXCEPT !.releases[step.on] = Artifact(r, step.on)]
  <2>3. g \in Hosts
    BY <2>1 DEF Hosts
  <2>4. g.selector = host.selector
    BY DEF Hosts
  <2>5. \A v \in Versions : g.releases[v] = IF v = step.on THEN Artifact(r, step.on) ELSE host.releases[v]
    BY <2>1 DEF Hosts
  <2>6. Artifact(r, step.on) # None
    BY ArtifactKnown
  <2> HIDE DEF g
  <2> QED
    BY <2>1, <2>2, <2>3, <2>4, <2>5, <2>6, Values DEF Safe, Whole, g
<1>7. CASE step.do = "activate"
  <2>1. step.on \in Versions
    BY <1>7 DEF Steps
  <2>2. Done(step, r) = [host EXCEPT !.selector = step.on]
    BY <1>7 DEF Done
  <2> DEFINE g == [host EXCEPT !.selector = step.on]
  <2>3. g \in Hosts /\ g.releases = host.releases /\ g.selector = step.on
    BY <2>1 DEF Hosts
  <2> HIDE DEF g
  <2> QED
    BY <1>7, <2>1, <2>2, <2>3, Values DEF Safe, Whole, g
<1>8. CASE step.do = "initialize"
  <2>1. Done(step, r) = [host EXCEPT !.vpn = "managed"]
    BY <1>8 DEF Done
  <2> QED
    BY <2>1, SafeElsewhere DEF Hosts
<1>9. CASE step.do \notin {"create", "file", "enable", "start", "entry", "publish", "activate",
                           "initialize"}
  <2>1. Done(step, r) = host
    BY <1>9 DEF Done
  <2> QED
    BY <2>1, SafeItself
<1> QED
  BY <1>1, <1>2, <1>3, <1>4, <1>5, <1>6, <1>7, <1>8, <1>9

LEMMA UndoneSafe ==
  ASSUME host \in Hosts, NEW step \in Backward,
         step.do = "reselect" => host.releases[step.on] # None
  PROVE  Safe(host, Undone(step))
<1>1. CASE step.do = "quiesce"
  <2>1. Undone(step) = [host EXCEPT !.active = FALSE,
                          !.links = IF host.files["timer"] = None THEN @ ELSE {}]
    BY <1>1 DEF Undone
  <2> QED
    BY <2>1, SafeElsewhere DEF Hosts
<1>2. CASE step.do = "putback"
  <2>1. step.on \in Files /\ step.was \in Contents
    BY <1>2 DEF Backward, Steps
  <2>2. Undone(step) = [host EXCEPT !.files[step.on] = step.was]
    BY <1>2 DEF Undone
  <2> QED
    BY <2>1, <2>2, SafeElsewhere DEF Hosts
<1>3. CASE step.do = "retimer"
  <2>1. step.was \in Timers
    BY <1>3 DEF Backward, Steps
  <2>2. OldLinks(step.was) \in SUBSET Links
    BY DEF OldLinks, Links, Hosts
  <2>3. Undone(step) = [host EXCEPT !.links = OldLinks(step.was),
                          !.active = IF step.was.unit = "not-found" THEN @ ELSE step.was.active]
    BY <1>3 DEF Undone, OldTimer
  <2>4. step.was.active \in BOOLEAN
    BY <2>1 DEF Timers
  <2> DEFINE l == OldLinks(step.was)
             a == IF step.was.unit = "not-found" THEN host.active ELSE step.was.active
             g == [host EXCEPT !.links = l, !.active = a]
  <2>5. Undone(step) = g
    BY <2>3 DEF Hosts
  <2>6. l \in SUBSET Links /\ a \in BOOLEAN
    BY <2>2, <2>4 DEF Hosts
  <2> HIDE DEF l, a
  <2>7. g \in Hosts /\ g.releases = host.releases /\ g.selector = host.selector
    BY <2>6 DEF Hosts
  <2> HIDE DEF g
  <2> QED
    BY <2>5, <2>7, SafeElsewhere
<1>4. CASE step.do = "drop"
  <2>1. Undone(step) = [host EXCEPT !.ids = @ \ Removed(step.on)]
    BY <1>4 DEF Undone
  <2> QED
    BY <2>1, SafeElsewhere DEF Hosts
<1>5. CASE step.do = "repath"
  <2>1. step.on \in Entries /\ step.was \in {None, "was", "ours"}
    BY <1>5 DEF Backward, Steps
  <2>2. Undone(step) = [host EXCEPT !.entries[step.on] = step.was]
    BY <1>5 DEF Undone
  <2> QED
    BY <2>1, <2>2, SafeElsewhere DEF Hosts
<1>6. CASE step.do = "reselect"
  <2>1. step.on \in Versions
    BY <1>6 DEF Backward, Steps
  <2>2. Undone(step) = [host EXCEPT !.selector = step.on]
    BY <1>6 DEF Undone
  <2> DEFINE g == [host EXCEPT !.selector = step.on]
  <2>3. g \in Hosts /\ g.releases = host.releases /\ g.selector = step.on
    BY <2>1 DEF Hosts
  <2> HIDE DEF g
  <2> QED
    BY <1>6, <2>1, <2>2, <2>3, Values DEF Safe, Whole, g
<1> QED
  BY <1>1, <1>2, <1>3, <1>4, <1>5, <1>6 DEF Backward, Compensations

(* Half of a timer step, and userdel with its group, differ no further.        *)
LEMMA VariantSafe ==
  ASSUME NEW h \in Hosts, Safe(host, h)
  PROVE  /\ \A l \in SUBSET Links, a \in BOOLEAN :
               Safe(host, [h EXCEPT !.links = l, !.active = a])
         /\ Safe(host, [h EXCEPT !.ids = @ \ {"group"}])
<1>1. ASSUME NEW l \in SUBSET Links, NEW a \in BOOLEAN
      PROVE  Safe(host, [h EXCEPT !.links = l, !.active = a])
  <2> DEFINE g == [h EXCEPT !.links = l, !.active = a]
  <2>1. g \in Hosts /\ g.releases = h.releases /\ g.selector = h.selector
    BY DEF Hosts
  <2> HIDE DEF g
  <2> QED
    BY <2>1 DEF Safe, Whole, g
<1>2. Safe(host, [h EXCEPT !.ids = @ \ {"group"}])
  <2> DEFINE g == [h EXCEPT !.ids = @ \ {"group"}]
  <2>1. g \in Hosts /\ g.releases = h.releases /\ g.selector = h.selector
    BY DEF Hosts
  <2> HIDE DEF g
  <2> QED
    BY <2>1 DEF Safe, Whole, g
<1> QED
  BY <1>1, <1>2

LEMMA BootedSafe ==
  ASSUME host \in Hosts
  PROVE  Safe(host, Booted(host))
<1> DEFINE l == host.links \ {"runtime"}
           a == (host.files["timer"] # None /\ "persistent" \in host.links)
           g == [host EXCEPT !.links = l, !.active = a]
<1>1. Booted(host) = g
  BY DEF Booted
<1>2. l \in SUBSET Links /\ a \in BOOLEAN
  BY DEF Hosts
<1> HIDE DEF l, a
<1>3. g \in Hosts /\ g.releases = host.releases /\ g.selector = host.selector
  BY <1>2 DEF Hosts
<1> HIDE DEF g
<1> QED
  BY <1>1, <1>3, SafeElsewhere

-----------------------------------------------------------------------------
(* What steps do to the processes *)

(* One process goes on; the other one's steps remain.                          *)
LEMMA RunStep ==
  ASSUME Inv, NEW p \in Processes, NEW r \in Runs, run' = [run EXCEPT ![p] = r],
         r.undo \in Seq(Backward),
         r.todo \in Seq(IF r.failing = "no" THEN Steps ELSE Backward),
         Safe(host, host')
  PROVE  run' \in [Processes -> Runs] /\ StepInv'
<1>1. run \in [Processes -> Runs] /\ host \in Hosts
  BY DEF Inv, TypeOK
<1>2. run' \in [Processes -> Runs]
  BY <1>1
<1>3. ASSUME NEW q \in Processes
      PROVE  /\ run'[q].undo \in Seq(Backward)
             /\ run'[q].todo \in Seq(IF run'[q].failing = "no" THEN Steps ELSE Backward)
  <2>1. CASE q = p
    BY <1>1, <2>1
  <2>2. CASE q # p
    <3>1. run'[q] = run[q]
      BY <1>1, <2>2
    <3>2. /\ run[q].undo \in Seq(Backward)
          /\ run[q].todo \in Seq(IF run[q].failing = "no" THEN Steps ELSE Backward)
      BY DEF Inv, StepInv
    <3> QED
      BY <3>1, <3>2
  <2> QED
    BY <2>1, <2>2
<1> QED
  BY <1>2, <1>3 DEF StepInv

(* What is ahead of a process, and its fields.                                 *)
LEMMA Ahead ==
  ASSUME Inv, NEW p \in Processes
  PROVE  /\ run[p] \in Runs /\ run[p].undo \in Seq(Backward)
         /\ run[p].failing = "no" => run[p].todo \in Seq(Steps)
         /\ run[p].failing # "no" => run[p].todo \in Seq(Backward)
         /\ run[p].failing = "no" /\ run[p].todo # <<>> => Now(p) \in Steps /\ Tail(run[p].todo) \in Seq(Steps)
         /\ run[p].failing # "no" /\ run[p].todo # <<>> => Now(p) \in Backward /\ Tail(run[p].todo) \in Seq(Backward)
<1>1. run[p] \in Runs
  BY DEF Inv, TypeOK
<1>2. /\ run[p].undo \in Seq(Backward)
      /\ run[p].failing = "no" => run[p].todo \in Seq(Steps)
      /\ run[p].failing # "no" => run[p].todo \in Seq(Backward)
  BY DEF Inv, StepInv
<1> QED
  BY <1>1, <1>2, HeadTailProperties DEF Now

(* A step taken with others put before what is left.                           *)
LEMMA Continued ==
  ASSUME Inv, NEW p \in Processes, run[p].failing = "no", run[p].todo # <<>>,
         NEW steps \in Seq(Steps), NEW back \in Seq(Backward),
         Safe(host, host'), Continue(p, steps, back)
  PROVE  run' \in [Processes -> Runs] /\ StepInv'
<1> DEFINE t == steps \o Tail(run[p].todo)
           r == [run[p] EXCEPT !.todo = t, !.undo = back]
<1>1. Tail(run[p].todo) \in Seq(Steps)
  BY Ahead
<1>2. t \in Seq(Steps)
  BY <1>1, ConcatProperties
<1>3. run' = [run EXCEPT ![p] = r]
  BY DEF Continue, Inv, TypeOK
<1> HIDE DEF t
<1>4. Backward \subseteq Steps
  BY StepSets
<1>5. t \in Seq(Steps) /\ back \in Seq(Steps)
  BY <1>2, <1>4, SeqMonotone
<1>6. r \in Runs /\ r.todo = t /\ r.undo = back /\ r.failing = "no"
  BY <1>5, Ahead DEF Runs
<1> HIDE DEF r
<1> QED
  BY <1>2, <1>3, <1>6, RunStep

Keeps == /\ run' \in [Processes -> Runs] /\ StepInv' /\ Safe(host, host')
         /\ report' \in {None, "ok", "failed", "incomplete", "killed"}
         /\ spoiled' \in {"no", "killed", "incomplete"}

LEMMA HistorySame ==
  ASSUME Inv, UNCHANGED history
  PROVE  /\ report' \in {None, "ok", "failed", "incomplete", "killed"}
         /\ spoiled' \in {"no", "killed", "incomplete"}
  BY DEF history, Inv, TypeOK

(* Idle processes hold no steps. *)
LEMMA IdleTyped ==
  /\ Idle \in Runs /\ Idle.undo = <<>> /\ Idle.todo = <<>> /\ Idle.failing = "no"
  BY DEF Idle, Runs

LEMMA EmptyTyped == \A S : <<>> \in Seq(S)
  OBVIOUS

-----------------------------------------------------------------------------
(* Each action *)

LEMMA BeginKeeps ==
  ASSUME Inv, NEW p \in Processes, NEW op \in Operations, NEW flag \in BOOLEAN,
         NEW version \in Offered, Begin(p, op, flag, version)
  PROVE  Keeps
<1> DEFINE program == Program(op, version)
           quiet == Quiet
           first == Started(op, flag, version)
<1>0. host \in Hosts /\ run \in [Processes -> Runs] /\ host' = host
  BY DEF Inv, TypeOK, Begin
<1>1. Safe(host, host')
  BY <1>0, SafeItself
<1>3. program \in Seq(Steps) /\ version \in Versions
  BY <1>0, ProgramTyped DEF Offered, Versions
<1>4. quiet \in BOOLEAN
  BY DEF Quiet
<1>5. run' = [q \in Processes |-> IF q = p THEN first
                                 ELSE [run[q] EXCEPT !.alone = (run[q] = Idle)]]
  BY DEF Begin
<1> HIDE DEF program, quiet, first
<1>6. first \in Runs /\ first.undo = <<>> /\ first.todo = program /\ first.failing = "no"
  <2>1. first = [op |-> op, flag |-> flag, version |-> version, policy |-> None, before |-> host,
                 alone |-> quiet, todo |-> program, undo |-> <<>>, failing |-> "no"]
    BY DEF Started, program, quiet, first
  <2> QED
    BY <1>0, <1>3, <1>4, <2>1, EmptyTyped DEF Runs
<1>7. ASSUME NEW q \in Processes
      PROVE  /\ run'[q] \in Runs /\ run'[q].undo \in Seq(Backward)
             /\ run'[q].todo \in Seq(IF run'[q].failing = "no" THEN Steps ELSE Backward)
  <2>1. CASE q = p
    BY <1>3, <1>5, <1>6, <2>1, EmptyTyped
  <2>2. CASE q # p
    <3> DEFINE lonely == (run[q] = Idle)
    <3>1. lonely \in BOOLEAN /\ run[q] \in Runs
      BY <1>0
    <3>2. run'[q] = [run[q] EXCEPT !.alone = lonely]
      BY <1>5, <2>2
    <3> HIDE DEF lonely
    <3>3. /\ run'[q] \in Runs /\ run'[q].undo = run[q].undo /\ run'[q].todo = run[q].todo
          /\ run'[q].failing = run[q].failing
      BY <3>1, <3>2 DEF Runs
    <3> QED
      BY <3>3, Ahead
  <2> QED
    BY <2>1, <2>2
<1>8. run' \in [Processes -> Runs] /\ StepInv'
  BY <1>5, <1>7 DEF StepInv
<1>9. UNCHANGED <<report, spoiled>>
  BY DEF Begin
<1> QED
  BY <1>1, <1>8, <1>9 DEF Keeps, Inv, TypeOK

LEMMA PlanKeeps ==
  ASSUME Inv, NEW p \in Processes, Plan(p)
  PROVE  Keeps
<1> DEFINE policy == Now(p).on
           t == Configuration(policy) \o Tail(run[p].todo)
           u == HostUndo(policy) \o Enclosing(p, policy)
           r == [run[p] EXCEPT !.policy = policy, !.todo = t, !.undo = u]
<1>0. /\ host \in Hosts /\ run \in [Processes -> Runs] /\ host' = host /\ UNCHANGED history
      /\ run[p].failing = "no" /\ run[p].todo # <<>> /\ Now(p).do = "plan"
  BY DEF Inv, TypeOK, Plan, Ready, At
<1>1. Safe(host, host')
  BY <1>0, SafeItself
<1>2. policy \in Policies
  BY <1>0, Ahead DEF Steps
<1>3. Tail(run[p].todo) \in Seq(Steps) /\ Configuration(policy) \in Seq(Steps)
  BY <1>0, <1>1, <1>2, Ahead, SeqMonotone, ConfigurationTyped
<1>4. Enclosing(p, policy) \in Seq(Backward) /\ HostUndo(policy) \in Seq(Backward)
  BY <1>0, <1>2, Ahead, HostUndoTyped, EmptyTyped DEF Enclosing
<1>5. t \in Seq(Steps) /\ u \in Seq(Backward)
  BY <1>3, <1>4, ConcatProperties
<1>6. t \in Seq(Steps) /\ u \in Seq(Steps)
  BY <1>5, SeqMonotone DEF Backward
<1>7. run' = [run EXCEPT ![p] = r]
  BY <1>0 DEF Plan
<1> HIDE DEF t, u, policy
<1>8. r \in Runs /\ r.todo = t /\ r.undo = u /\ r.failing = "no"
  BY <1>0, <1>2, <1>6, Ahead DEF Runs
<1> HIDE DEF r
<1>9. run' \in [Processes -> Runs] /\ StepInv'
  BY <1>1, <1>5, <1>7, <1>8, RunStep
<1> QED
  BY <1>0, <1>1, <1>9, HistorySame DEF Keeps

LEMMA SnapshotKeeps ==
  ASSUME Inv, NEW p \in Processes, Snapshot(p)
  PROVE  Keeps
<1> DEFINE steps == [i \in 1..5 |-> Do("entry", EntryOrder[i])]
           back == EntryUndo \o run[p].undo
<1>1. /\ host \in Hosts /\ host' = host /\ run[p].failing = "no" /\ run[p].todo # <<>>
      /\ Continue(p, steps, back) /\ UNCHANGED history
  BY DEF Inv, TypeOK, Snapshot, Ready, At, Continue
<1>2. Safe(host, host')
  BY <1>1, SafeItself
<1>3. steps \in Seq(Steps)
  BY <1>1, <1>2, EntryStepsTyped, SeqMonotone
<1>4. back \in Seq(Backward)
  BY <1>1, Ahead, EntryUndoTyped, ConcatProperties
<1> HIDE DEF steps, back
<1>5. run' \in [Processes -> Runs] /\ StepInv'
  BY <1>1, <1>2, <1>3, <1>4, Continued
<1> QED
  BY <1>1, <1>2, <1>5, HistorySame DEF Keeps

LEMMA SelectKeeps ==
  ASSUME Inv, NEW p \in Processes, Select(p)
  PROVE  Keeps
<1> DEFINE import == host.selector = "plain" /\ host.releases["legacy-import"] = None
           steps == IF import
                    THEN <<Do("stage", "legacy-import"), Do("publish", "legacy-import")>> ELSE <<>>
           before == IF host.selector = None \/ import THEN <<>> ELSE Reselect(Product(host))
           back == before \o run[p].undo
<1>1. /\ host \in Hosts /\ host' = host /\ run[p].failing = "no" /\ run[p].todo # <<>>
      /\ Continue(p, steps, back) /\ UNCHANGED history
  BY DEF Inv, TypeOK, Select, Ready, At, Continue
<1>2. Safe(host, host')
  BY <1>1, SafeItself
<1>3. steps \in Seq(Steps)
  <2>1. CASE import
    <3>1. Do("stage", "legacy-import") \in Steps
      BY <1>1, <1>2, StepsOfAllKinds DEF Versions
    <3>2. Do("publish", "legacy-import") \in Steps
      BY <1>1, <2>1, StepsOfAllKinds, Values DEF Versions, Steps, Do
    <3> QED
      BY <2>1, <3>1, <3>2
  <2>2. CASE ~import
    BY <2>2, EmptyTyped
  <2> QED
    BY <2>1, <2>2
<1>4. before \in Seq(Backward)
  <2>1. CASE host.selector = None \/ import
    BY <2>1, EmptyTyped
  <2>2. CASE ~(host.selector = None \/ import)
    <3>1. Product(host) \in Versions
      BY <1>1, <2>2 DEF Product, Hosts, Versions
    <3>2. before = <<Do("reselect", Product(host))>>
      BY <2>2 DEF Reselect
    <3>3. Do("reselect", Product(host)) \in Backward
      BY <3>1, StepsOfAllKinds
    <3> DEFINE d == Do("reselect", Product(host))
    <3> HIDE DEF d, before
    <3>4. before = <<d>> /\ d \in Backward
      BY <3>2, <3>3 DEF d
    <3> QED
      BY <3>4
  <2> QED
    BY <2>1, <2>2
<1> HIDE DEF steps, before
<1>5. back \in Seq(Backward)
  BY <1>4, Ahead, ConcatProperties
<1> HIDE DEF back
<1>6. run' \in [Processes -> Runs] /\ StepInv'
  BY <1>1, <1>2, <1>3, <1>5, Continued
<1> QED
  BY <1>1, <1>2, <1>6, HistorySame DEF Keeps

LEMMA ReleaseKeeps ==
  ASSUME Inv, NEW p \in Processes, Release(p)
  PROVE  Keeps
<1> DEFINE version == Now(p).on
           first == IF host.releases[version] = None
                    THEN <<Do("stage", version), Do("publish", version)>> ELSE <<>>
           steps == first \o <<Do("activate", version)>>
<1>1. /\ host \in Hosts /\ host' = host /\ run[p].failing = "no" /\ run[p].todo # <<>>
      /\ Continue(p, steps, run[p].undo) /\ UNCHANGED history /\ Now(p).do = "release"
  BY DEF Inv, TypeOK, Release, Ready, At, Continue
<1>2. Safe(host, host')
  BY <1>1, SafeItself
<1>3. version \in Versions
  BY <1>1, Ahead DEF Steps
<1>4. Do("stage", version) \in Steps /\ Do("activate", version) \in Steps
  BY <1>1, <1>2, <1>3, StepsOfAllKinds
<1>5. first \in Seq(Steps)
  <2>1. CASE host.releases[version] = None
    <3>1. Do("publish", version) \in Steps
      BY <1>1, <1>3, <2>1, StepsOfAllKinds, Values DEF Steps, Do
    <3> QED
      BY <1>4, <2>1, <3>1
  <2>2. CASE host.releases[version] # None
    BY <2>2, EmptyTyped
  <2> QED
    BY <2>1, <2>2
<1> HIDE DEF first, version
<1>6. steps \in Seq(Steps)
  BY <1>4, <1>5, ConcatProperties
<1> HIDE DEF steps
<1>7. run' \in [Processes -> Runs] /\ StepInv'
  BY <1>1, <1>2, <1>6, Ahead, Continued
<1> QED
  BY <1>1, <1>2, <1>7, HistorySame DEF Keeps

LEMMA AdvanceKeeps ==
  ASSUME Inv, NEW p \in Processes, Advance(p)
  PROVE  Keeps
<1> DEFINE more == IF At(p, "publish") /\ Now(p).on = "legacy-import"
                   THEN Reselect("legacy-import") ELSE <<>>
           back == more \o run[p].undo
<1>1. /\ host \in Hosts /\ host' = Done(Now(p), run[p])
      /\ run[p].failing = "no" /\ run[p].todo # <<>> /\ ~Rejected(p)
      /\ Continue(p, <<>>, back) /\ UNCHANGED history
  BY DEF Inv, TypeOK, Advance, Ready, At, Continue
<1>2. Safe(host, host')
  <2>1. run[p].policy \in {None} \cup Policies
    BY Ahead DEF Runs
  <2>2. /\ Now(p).do = "activate" => host.releases[Now(p).on] # None
        /\ Now(p).do = "publish" => host.releases[Now(p).on] = None
    BY <1>1 DEF Rejected, At
  <2> QED
    BY <1>1, <2>1, <2>2, Ahead, DoneSafe
<1>3. more \in Seq(Backward)
  <2>1. Do("reselect", "legacy-import") \in Backward
    BY StepsOfAllKinds DEF Versions
  <2> DEFINE d == Do("reselect", "legacy-import")
  <2> HIDE DEF d
  <2>2. <<d>> \in Seq(Backward) /\ Reselect("legacy-import") = <<d>>
    BY <2>1 DEF d, Reselect
  <2> QED
    BY <2>2, EmptyTyped
<1> HIDE DEF more
<1>4. back \in Seq(Backward)
  BY <1>3, Ahead, ConcatProperties
<1> HIDE DEF back
<1>5. run' \in [Processes -> Runs] /\ StepInv'
  BY <1>1, <1>2, <1>4, EmptyTyped, Continued
<1> QED
  BY <1>1, <1>2, <1>5, HistorySame DEF Keeps

LEMMA StepFailsKeeps ==
  ASSUME Inv, NEW p \in Processes, StepFails(p)
  PROVE  Keeps
<1> DEFINE t == Compensation(p)
           r == [run[p] EXCEPT !.todo = t, !.undo = <<>>, !.failing = "yes"]
<1>1. /\ host \in Hosts /\ run \in [Processes -> Runs]
      /\ host' = host \/ (host' = Done(Now(p), run[p]) /\ ~Rejected(p))
      /\ run[p].failing = "no" /\ run[p].todo # <<>> /\ UNCHANGED history
  BY DEF Inv, TypeOK, StepFails
<1>2. Safe(host, host')
  <2>1. CASE host' = host
    BY <1>1, <2>1, SafeItself
  <2>2. CASE host' = Done(Now(p), run[p]) /\ ~Rejected(p)
    <3>1. run[p].policy \in {None} \cup Policies
      BY Ahead DEF Runs
    <3>2. /\ Now(p).do = "activate" => host.releases[Now(p).on] # None
          /\ Now(p).do = "publish" => host.releases[Now(p).on] = None
      BY <1>1, <2>2 DEF Rejected, At
    <3> QED
      BY <1>1, <2>2, <3>1, <3>2, Ahead, DoneSafe
  <2> QED
    BY <1>1, <2>1, <2>2
<1>3. t \in Seq(Backward)
  BY Ahead, EmptyTyped DEF Compensation, Enclosing
<1>4. run' = [run EXCEPT ![p] = r]
  BY <1>1 DEF StepFails
<1> HIDE DEF t
<1>5. t \in Seq(Steps)
  BY <1>3, SeqMonotone DEF Backward
<1>6. r \in Runs /\ r.todo = t /\ r.undo = <<>> /\ r.failing = "yes"
  BY <1>5, Ahead, EmptyTyped DEF Runs
<1> HIDE DEF r
<1>7. run' \in [Processes -> Runs] /\ StepInv'
  BY <1>2, <1>3, <1>4, <1>6, EmptyTyped, RunStep
<1> QED
  BY <1>1, <1>2, <1>7, HistorySame DEF Keeps

LEMMA CompensateKeeps ==
  ASSUME Inv, NEW p \in Processes, Compensate(p)
  PROVE  Keeps
<1> DEFINE t == <<>> \o Tail(run[p].todo)
           r == [run[p] EXCEPT !.todo = t, !.undo = <<>>]
<1>1. /\ host \in Hosts /\ run \in [Processes -> Runs] /\ host' \in Outcomes(Now(p))
      /\ run[p].failing # "no" /\ run[p].todo # <<>> /\ ~Impossible(Now(p))
      /\ Continue(p, <<>>, <<>>) /\ UNCHANGED history
  BY DEF Inv, TypeOK, Compensate, Continue
<1>2. Safe(host, host')
  <2>1. Now(p).do = "reselect" => host.releases[Now(p).on] # None
    BY <1>1 DEF Impossible
  <2>2. Safe(host, Undone(Now(p)))
    BY <1>1, <2>1, Ahead, UndoneSafe
  <2>3. \/ host' = Undone(Now(p))
        \/ host' = [Undone(Now(p)) EXCEPT !.ids = @ \ {"group"}]
    BY <1>1 DEF Outcomes
  <2> DEFINE h == Undone(Now(p))
  <2>4. Safe(host, h) /\ h \in Hosts
    BY <2>2 DEF Safe
  <2>5. host' = h \/ host' = [h EXCEPT !.ids = @ \ {"group"}]
    BY <2>3
  <2> HIDE DEF h
  <2>6. Safe(host, [h EXCEPT !.ids = @ \ {"group"}])
    BY <2>4, VariantSafe
  <2> QED
    BY <2>4, <2>5, <2>6
<1>3. t \in Seq(Backward)
  BY <1>1, Ahead, EmptyTyped, ConcatProperties
<1>4. run' = [run EXCEPT ![p] = r]
  BY <1>1 DEF Continue
<1> HIDE DEF t
<1>5. t \in Seq(Steps)
  BY <1>3, SeqMonotone DEF Backward
<1>6. r \in Runs /\ r.todo = t /\ r.undo = <<>> /\ r.failing # "no"
  BY <1>1, <1>5, Ahead, EmptyTyped DEF Runs
<1> HIDE DEF r
<1>7. run' \in [Processes -> Runs] /\ StepInv'
  BY <1>2, <1>3, <1>4, <1>6, EmptyTyped, RunStep
<1> QED
  BY <1>1, <1>2, <1>7, HistorySame DEF Keeps

LEMMA CompensationFailsKeeps ==
  ASSUME Inv, NEW p \in Processes, CompensationFails(p)
  PROVE  Keeps
<1> DEFINE t == Tail(run[p].todo)
           r == [run[p] EXCEPT !.todo = t, !.failing = "badly"]
           h == Undone(Now(p))
<1>1. /\ host \in Hosts /\ run \in [Processes -> Runs] /\ UNCHANGED history
      /\ run[p].failing # "no" /\ run[p].todo # <<>>
  BY DEF Inv, TypeOK, CompensationFails
<1>2. \/ host' = host
      \/ host' = h /\ Now(p).do = "retimer"
      \/ ~Impossible(Now(p)) /\ host' \in Halfway(Now(p))
  BY <1>1 DEF CompensationFails, At
<1>3. Safe(host, host')
  <2>1. CASE host' = host
    BY <1>1, <2>1, SafeItself
  <2>2. CASE host' = h /\ Now(p).do = "retimer"
    BY <1>1, <2>2, Ahead, UndoneSafe
  <2>3. CASE ~Impossible(Now(p)) /\ host' \in Halfway(Now(p))
    <3>1. Now(p).do = "reselect" => host.releases[Now(p).on] # None
      BY <2>3 DEF Impossible
    <3>2. Safe(host, h) /\ h \in Hosts
      BY <1>1, <3>1, Ahead, UndoneSafe DEF Safe
    <3>3. \/ host' = host
          \/ \E l \in {host.links, h.links}, a \in {host.active, h.active} :
               host' = [h EXCEPT !.links = l, !.active = a]
      BY <2>3 DEF Halfway
    <3> HIDE DEF h
    <3>4. {host.links, h.links} \subseteq SUBSET Links /\ {host.active, h.active} \subseteq BOOLEAN
      BY <1>1, <3>2 DEF Hosts
    <3>5. CASE host' = host
      BY <1>1, <3>5, SafeItself
    <3>6. CASE \E l \in {host.links, h.links}, a \in {host.active, h.active} :
                 host' = [h EXCEPT !.links = l, !.active = a]
      <4>1. PICK l \in {host.links, h.links}, a \in {host.active, h.active} :
                   host' = [h EXCEPT !.links = l, !.active = a]
        BY <3>6, Zenon
      <4>2. l \in SUBSET Links /\ a \in BOOLEAN
        BY <3>4, Zenon
      <4>3. Safe(host, [h EXCEPT !.links = l, !.active = a])
        BY <3>2, <4>2, VariantSafe, Zenon
      <4> QED
        BY <4>1, <4>3, Zenon
    <3> QED
      BY <3>3, <3>5, <3>6, Zenon
  <2> QED
    BY <1>2, <2>1, <2>2, <2>3
<1>4. t \in Seq(Backward)
  BY <1>1, Ahead
<1>5. run' = [run EXCEPT ![p] = r]
  BY <1>1 DEF CompensationFails
<1> HIDE DEF t
<1>6. t \in Seq(Steps)
  BY <1>4, SeqMonotone DEF Backward
<1>7. r \in Runs /\ r.todo = t /\ r.undo = run[p].undo /\ r.failing = "badly"
  BY <1>6, Ahead DEF Runs
<1> HIDE DEF r
<1>8. run' \in [Processes -> Runs] /\ StepInv'
  BY <1>3, <1>4, <1>5, <1>7, Ahead, RunStep
<1> QED
  BY <1>1, <1>3, <1>8, HistorySame DEF Keeps

LEMMA FinishKeeps ==
  ASSUME Inv, NEW p \in Processes, Finish(p)
  PROVE  Keeps
<1>1. host \in Hosts /\ host' = host /\ run' = [run EXCEPT ![p] = Idle]
  BY DEF Inv, TypeOK, Finish
<1>2. Safe(host, host')
  BY <1>1, SafeItself
<1>3. run' \in [Processes -> Runs] /\ StepInv'
  BY <1>1, <1>2, IdleTyped, EmptyTyped, RunStep
<1>4. report' \in {"ok", "failed", "incomplete"} /\ spoiled' \in {"no", "incomplete", spoiled}
  BY DEF Finish
<1> QED
  BY <1>2, <1>3, <1>4 DEF Keeps, Inv, TypeOK

LEMMA KilledKeeps ==
  ASSUME Inv, NEW P \in SUBSET Processes, Killed(P), Safe(host, host')
  PROVE  Keeps
<1>1. run' = [q \in Processes |-> IF q \in P THEN Idle ELSE run[q]]
  BY DEF Killed
<1>3. ASSUME NEW q \in Processes
      PROVE  /\ run'[q] \in Runs /\ run'[q].undo \in Seq(Backward)
             /\ run'[q].todo \in Seq(IF run'[q].failing = "no" THEN Steps ELSE Backward)
  <2>1. CASE q \in P
    BY <1>1, <2>1, IdleTyped, EmptyTyped
  <2>2. CASE q \notin P
    <3>1. run'[q] = run[q]
      BY <1>1, <2>2
    <3> QED
      BY <3>1, Ahead
  <2> QED
    BY <2>1, <2>2
<1>4. run' \in [Processes -> Runs] /\ StepInv'
  BY <1>1, <1>3 DEF StepInv
<1>5. report' = "killed" /\ spoiled' \in {"killed", "incomplete"}
  BY DEF Killed
<1> QED
  BY <1>4, <1>5 DEF Keeps

LEMMA RebootKeeps ==
  ASSUME Inv, Reboot
  PROVE  Keeps
<1>1. host \in Hosts /\ host' = Booted(host)
  BY DEF Inv, TypeOK, Reboot
<1>2. Safe(host, host')
  BY <1>1, BootedSafe
<1>3. CASE Quiet
  <2>1. run' = run /\ UNCHANGED history
    BY <1>3 DEF Reboot
  <2>3. ASSUME NEW q \in Processes
        PROVE  /\ run'[q].undo \in Seq(Backward)
               /\ run'[q].todo \in Seq(IF run'[q].failing = "no" THEN Steps ELSE Backward)
    BY <2>1, Ahead
  <2>4. StepInv' /\ run' \in [Processes -> Runs]
    BY <2>1, <2>3 DEF StepInv, Inv, TypeOK
  <2> QED
    BY <1>2, <2>1, <2>4, HistorySame DEF Keeps
<1>4. CASE ~Quiet
  BY <1>2, <1>4, KilledKeeps DEF Reboot
<1> QED
  BY <1>3, <1>4

LEMMA StutterKeeps ==
  ASSUME Inv, UNCHANGED vars
  PROVE  Keeps
<1>1. host' = host /\ run' = run /\ UNCHANGED history /\ host \in Hosts
  BY DEF vars, history, Inv, TypeOK
<1>2. Safe(host, host')
  BY <1>1, SafeItself
<1>3. StepInv'
  BY <1>1 DEF Inv, StepInv
<1> QED
  BY <1>1, <1>2, <1>3, HistorySame DEF Keeps, Inv, TypeOK

LEMMA NextKeeps ==
  ASSUME Inv, [Next]_vars
  PROVE  Keeps
<1>1. "installer" \in Processes /\ "manager" \in Processes
      /\ {"configure", "install", "adopt", "upgrade", "update"} \subseteq Operations /\ Flags \subseteq BOOLEAN
      /\ Mine \in Offered
  BY DEF Processes, Operations, Flags, Offered
<1>2. CASE Configure
  BY <1>1, <1>2, BeginKeeps DEF Configure
<1>3. CASE Install
  BY <1>1, <1>3, BeginKeeps DEF Install
<1>4. CASE Adopt
  BY <1>1, <1>4, BeginKeeps DEF Adopt
<1>5. CASE Upgrade
  BY <1>1, <1>5, BeginKeeps DEF Upgrade
<1>6. CASE Update
  BY <1>1, <1>6, BeginKeeps DEF Update, Offered
<1>7. ASSUME NEW p \in Processes,
             \/ Plan(p) \/ Snapshot(p) \/ Select(p) \/ Release(p) \/ Advance(p) \/ StepFails(p)
             \/ Compensate(p) \/ CompensationFails(p) \/ Finish(p) \/ Kill(p)
      PROVE  Keeps
  <2>1. CASE Kill(p)
    <3>1. Killed({p}) /\ Safe(host, host')
      BY <2>1, SafeItself DEF Kill, Inv, TypeOK
    <3> QED
      BY <3>1, KilledKeeps
  <2> QED
    BY <1>7, <2>1, PlanKeeps, SnapshotKeeps, SelectKeeps, ReleaseKeeps, AdvanceKeeps,
       StepFailsKeeps, CompensateKeeps, CompensationFailsKeeps, FinishKeeps
<1>8. CASE Reboot
  BY <1>8, RebootKeeps
<1>9. CASE UNCHANGED vars
  BY <1>9, StutterKeeps
<1> QED
  BY <1>2, <1>3, <1>4, <1>5, <1>6, <1>7, <1>8, <1>9 DEF Next

-----------------------------------------------------------------------------
(* Types, the selected release, and releases that do not change *)

LEMMA InitTyped == Init => host \in Hosts /\ SelectorWhole
<1> SUFFICES ASSUME Init PROVE host \in Hosts /\ SelectorWhole
  OBVIOUS
<1>1. /\ Bare \in Hosts /\ Bare.selector = None
      /\ [Bare EXCEPT !.vpn = "foreign"] \in Hosts /\ [Bare EXCEPT !.vpn = "foreign"].selector = None
  BY DEF Bare, Hosts, Contents, Artifacts
<1>2. Legacy \in Hosts /\ Legacy.selector = "plain"
  BY <1>1 DEF Legacy, Hosts
<1>3. ASSUME NEW links \in SUBSET Links, NEW active \in BOOLEAN, NEW mine \in {None, "other"}
      PROVE  /\ Managed(links, active, mine) \in Hosts
             /\ Managed(links, active, mine).selector = Earlier
             /\ Managed(links, active, mine).releases[Earlier] = "ours"
  <2> DEFINE files == [f \in Files |-> IF f = "settings" THEN "full" ELSE "earlier"]
             releases == [Legacy.releases EXCEPT ![Earlier] = "ours", ![Mine] = mine]
  <2>1. files \in [Files -> Contents]
    BY DEF Contents
  <2>2. releases \in [Versions -> Artifacts] /\ releases[Earlier] = "ours"
    BY <1>2, DistinctReleases DEF Versions, Hosts, Artifacts
  <2>3. Managed(links, active, mine) =
          [Legacy EXCEPT !.ids = Identities, !.links = links, !.active = active,
             !.selector = Earlier, !.files = files, !.releases = releases]
    BY DEF Managed
  <2> HIDE DEF files, releases
  <2>4. Earlier \in Versions
    BY DEF Versions
  <2>5. Managed(links, active, mine) \in Hosts
    <3>1. Managed(links, active, mine) =
            [ids |-> Identities, files |-> files, links |-> links, active |-> active,
             entries |-> Legacy.entries, releases |-> releases, selector |-> Earlier,
             vpn |-> Legacy.vpn]
      BY <1>2, <2>3 DEF Hosts
    <3>2. /\ Legacy.entries \in [Entries -> {None, "was", "ours"}]
          /\ Legacy.vpn \in {"none", "foreign", "managed"}
      BY <1>2 DEF Hosts
    <3> QED
      BY <2>1, <2>2, <2>4, <3>1, <3>2 DEF Hosts
  <2>6. /\ Managed(links, active, mine).selector = Earlier
        /\ Managed(links, active, mine).releases = releases
    BY <1>2, <2>3 DEF Hosts
  <2> QED
    BY <2>2, <2>5, <2>6
<1>4. "plain" \notin Versions /\ None \notin Versions /\ None # "ours"
  BY DistinctReleases, NoneAssumption DEF Versions
<1>5. CASE host \in {Bare, [Bare EXCEPT !.vpn = "foreign"], Legacy}
  BY <1>1, <1>2, <1>4, <1>5 DEF SelectorWhole
<1>6. CASE \E links \in {{}, {"persistent"}, {"runtime"}}, active \in BOOLEAN :
             host = Managed(links, active, None)
  <2>1. PICK links \in SUBSET Links, active \in BOOLEAN : host = Managed(links, active, None)
    BY <1>6 DEF Links
  <2>2. host \in Hosts /\ host.selector = Earlier /\ host.releases[Earlier] = "ours"
    BY <1>3, <2>1
  <2> QED
    BY <1>4, <2>2 DEF SelectorWhole
<1>7. CASE host = Managed({"persistent"}, TRUE, "other")
  <2>1. {"persistent"} \in SUBSET Links
    BY DEF Links
  <2>2. host \in Hosts /\ host.selector = Earlier /\ host.releases[Earlier] = "ours"
    BY <1>3, <1>7, <2>1
  <2> QED
    BY <1>4, <2>2 DEF SelectorWhole
<1> QED
  BY <1>5, <1>6, <1>7 DEF Init

LEMMA InitInv == Init => Inv
<1> SUFFICES ASSUME Init PROVE Inv
  OBVIOUS
<1>1. host \in Hosts /\ SelectorWhole
  BY InitTyped
<1>2. run = [p \in Processes |-> Idle] /\ report = None /\ spoiled = "no"
  BY DEF Init
<1>3. StepInv
  BY <1>2, IdleTyped, EmptyTyped DEF StepInv
<1> QED
  BY <1>1, <1>2, <1>3, IdleTyped DEF Inv, TypeOK

LEMMA NextInv == Inv /\ [Next]_vars => Inv'
<1> SUFFICES ASSUME Inv, [Next]_vars PROVE Inv'
  OBVIOUS
<1>1. Keeps
  BY NextKeeps
<1> QED
  BY <1>1 DEF Keeps, Safe, Whole, Inv, TypeOK, SelectorWhole

LEMMA Invariance == Spec => []Inv
<1> QED
  BY InitInv, NextInv, PTL DEF Spec

(* The state of the host, of both processes and of every step they have ahead  *)
(* or may have to take back keeps to its values (configure_host,                *)
(* _install_entrypoints, upgrade_product).                                      *)
THEOREM TypeCorrect == Spec => []TypeOK
<1>1. Inv => TypeOK
  BY DEF Inv
<1> QED
  BY <1>1, Invariance, PTL

(* bin/awgctl always selects a release that is in place, whatever fails, is    *)
(* killed or overlaps (activate_release).                                       *)
THEOREM SelectorAlwaysWhole == Spec => []SelectorWhole
<1>1. Inv => SelectorWhole
  BY DEF Inv
<1> QED
  BY <1>1, Invariance, PTL

(* A release in place is never changed and a product never disappears          *)
(* (install_release, activate_release).                                         *)
THEOREM ReleasesAreImmutable == Spec => ReleaseImmutable
<1>1. Inv /\ [Next]_vars =>
        [/\ \A v \in Versions : host.releases[v] # None => host'.releases[v] = host.releases[v]
         /\ host.selector # None => host'.selector # None]_vars
  BY NextKeeps DEF Keeps, Safe
<1> QED
  BY <1>1, Invariance, PTL DEF Spec, ReleaseImmutable

-----------------------------------------------------------------------------
(* What a sequence has, and in which order *)

(* A sequence has a step of A; what comes before a step of B is in A; each step
   of B comes after one of A. *)
Has(s, A) == \E i \in 1..Len(s) : s[i] \in A
Before(s, A, B) == \A i, j \in 1..Len(s) : i < j /\ s[j] \in B => s[i] \in A
After(s, A, B) == \A i \in 1..Len(s) : s[i] \in B => \E j \in 1..Len(s) : j < i /\ s[j] \in A

LEMMA EmptyHas ==
  ASSUME NEW A, NEW B
  PROVE  ~Has(<<>>, A) /\ Before(<<>>, A, B) /\ After(<<>>, A, B)
  BY DEF Has, Before, After

LEMMA HasMore ==
  ASSUME NEW s, NEW A, NEW B, A \subseteq B, Has(s, A)
  PROVE  Has(s, B)
  BY DEF Has

LEMMA HasNone ==
  ASSUME NEW T, NEW s \in Seq(T), NEW A, T \cap A = {}
  PROVE  ~Has(s, A) /\ \A B : Before(s, B, A) /\ After(s, B, A)
<1>1. \A i \in 1..Len(s) : s[i] \in T
  BY ElementOfSeq
<1> QED
  BY <1>1 DEF Has, Before, After

LEMMA AllBefore ==
  ASSUME NEW T, NEW s \in Seq(T), NEW A, NEW B, T \subseteq A
  PROVE  Before(s, A, B)
<1>1. \A i \in 1..Len(s) : s[i] \in T
  BY ElementOfSeq
<1> QED
  BY <1>1 DEF Before

LEMMA HasOne ==
  ASSUME NEW e, NEW A
  PROVE  Has(<<e>>, A) <=> e \in A
  BY DEF Has

(* The first step and the others. *)
LEMMA HeadOrTail ==
  ASSUME NEW T, NEW s \in Seq(T), s # <<>>
  PROVE  /\ Len(Tail(s)) = Len(s) - 1 /\ Len(s) \in Nat \ {0}
         /\ Head(s) = s[1]
         /\ \A i \in 1..Len(Tail(s)) : i + 1 \in 1..Len(s) /\ Tail(s)[i] = s[i + 1]
         /\ \A i \in 1..Len(s) : i = 1 \/ (i - 1 \in 1..Len(Tail(s)) /\ s[i] = Tail(s)[i - 1])
<1>1. /\ Len(Tail(s)) = Len(s) - 1 /\ Len(s) \in Nat \ {0}
      /\ \A i \in 1..Len(Tail(s)) : Tail(s)[i] = s[i + 1]
  BY HeadTailProperties, EmptySeq
<1> DEFINE t == Tail(s)
<1> HIDE DEF t
<1>2. /\ Len(t) = Len(s) - 1 /\ Len(s) \in Nat \ {0}
      /\ \A i \in 1..Len(t) : t[i] = s[i + 1]
  BY <1>1 DEF t
<1>3. \A i \in 1..Len(t) : i + 1 \in 1..Len(s) /\ t[i] = s[i + 1]
  BY <1>2
<1>4. ASSUME NEW i \in 1..Len(s), i # 1
      PROVE  i - 1 \in 1..Len(t) /\ s[i] = t[i - 1]
  <2>1. i - 1 \in 1..Len(t) /\ i - 1 + 1 = i
    BY <1>2, <1>4
  <2> QED
    BY <1>2, <2>1
<1>5. Head(s) = s[1]
  OBVIOUS
<1> QED
  BY <1>1, <1>3, <1>4, <1>5 DEF t

LEMMA HasTail ==
  ASSUME NEW T, NEW s \in Seq(T), s # <<>>, NEW A
  PROVE  Has(s, A) <=> Head(s) \in A \/ Has(Tail(s), A)
<1>1. ASSUME Has(s, A) PROVE Head(s) \in A \/ Has(Tail(s), A)
  <2>1. PICK i \in 1..Len(s) : s[i] \in A
    BY <1>1 DEF Has
  <2>2. i = 1 \/ (i - 1 \in 1..Len(Tail(s)) /\ s[i] = Tail(s)[i - 1])
    BY HeadOrTail
  <2>3. CASE i = 1
    BY <2>1, <2>3, HeadOrTail
  <2>4. CASE i - 1 \in 1..Len(Tail(s)) /\ s[i] = Tail(s)[i - 1]
    BY <2>1, <2>4 DEF Has
  <2> QED
    BY <2>2, <2>3, <2>4
<1>2. Head(s) \in A => Has(s, A)
  BY HeadOrTail DEF Has
<1>3. Has(Tail(s), A) => Has(s, A)
  BY HeadOrTail DEF Has
<1> QED
  BY <1>1, <1>2, <1>3

LEMMA BeforeTail ==
  ASSUME NEW T, NEW s \in Seq(T), s # <<>>, NEW A, NEW B, Before(s, A, B)
  PROVE  Before(Tail(s), A, B) /\ (Has(Tail(s), B) => Head(s) \in A)
<1>1. ASSUME NEW i \in 1..Len(Tail(s)), NEW j \in 1..Len(Tail(s)), i < j, Tail(s)[j] \in B
      PROVE  Tail(s)[i] \in A
  <2>1. /\ i + 1 \in 1..Len(s) /\ j + 1 \in 1..Len(s) /\ i + 1 < j + 1
        /\ Tail(s)[i] = s[i + 1] /\ Tail(s)[j] = s[j + 1]
    BY <1>1, HeadOrTail
  <2> QED
    BY <1>1, <2>1 DEF Before
<1>2. ASSUME NEW j \in 1..Len(Tail(s)), Tail(s)[j] \in B
      PROVE  Head(s) \in A
  <2>1. j + 1 \in 1..Len(s) /\ 1 \in 1..Len(s) /\ 1 < j + 1 /\ Tail(s)[j] = s[j + 1] /\ Head(s) = s[1]
    BY <1>2, HeadOrTail
  <2> QED
    BY <1>2, <2>1 DEF Before
<1> QED
  BY <1>1, <1>2 DEF Before, Has

LEMMA AfterTail ==
  ASSUME NEW T, NEW s \in Seq(T), s # <<>>, NEW A, NEW B, After(s, A, B), Head(s) \notin A
  PROVE  After(Tail(s), A, B)
<1> SUFFICES ASSUME NEW i \in 1..Len(Tail(s)), Tail(s)[i] \in B
             PROVE  \E j \in 1..Len(Tail(s)) : j < i /\ Tail(s)[j] \in A
  BY DEF After
<1>1. i + 1 \in 1..Len(s) /\ Tail(s)[i] = s[i + 1]
  BY HeadOrTail
<1>2. PICK j \in 1..Len(s) : j < i + 1 /\ s[j] \in A
  BY <1>1 DEF After
<1>3. j - 1 \in 1..Len(Tail(s)) /\ j - 1 < i /\ Tail(s)[j - 1] = s[j]
  BY <1>2, HeadOrTail
<1> QED
  BY <1>2, <1>3

(* Two sequences one after the other. *)
LEMMA Joined ==
  ASSUME NEW T, NEW s \in Seq(T), NEW t \in Seq(T)
  PROVE  /\ s \o t \in Seq(T) /\ Len(s) \in Nat /\ Len(t) \in Nat
         /\ \A i \in 1..Len(s) : i \in 1..Len(s \o t) /\ (s \o t)[i] = s[i]
         /\ \A i \in 1..Len(t) : Len(s) + i \in 1..Len(s \o t) /\ (s \o t)[Len(s) + i] = t[i]
         /\ \A i \in 1..Len(s \o t) :
              \/ i \in 1..Len(s) /\ (s \o t)[i] = s[i]
              \/ i - Len(s) \in 1..Len(t) /\ (s \o t)[i] = t[i - Len(s)]
<1>1. /\ Len(s) \in Nat /\ Len(t) \in Nat
  BY LenProperties
<1>2. /\ s \o t \in Seq(T) /\ Len(s \o t) = Len(s) + Len(t)
      /\ \A i \in 1..(Len(s) + Len(t)) : (s \o t)[i] = IF i <= Len(s) THEN s[i] ELSE t[i - Len(s)]
  BY ConcatProperties
<1>3. \A i \in 1..Len(t) : Len(s) + i \in 1..Len(s \o t) /\ (s \o t)[Len(s) + i] = t[i]
  <2> TAKE i \in 1..Len(t)
  <2>1. Len(s) + i \in 1..(Len(s) + Len(t)) /\ ~(Len(s) + i <= Len(s)) /\ (Len(s) + i) - Len(s) = i
    BY <1>1
  <2> QED
    BY <1>2, <2>1
<1>4. \A i \in 1..Len(s \o t) :
              \/ i \in 1..Len(s) /\ (s \o t)[i] = s[i]
              \/ i - Len(s) \in 1..Len(t) /\ (s \o t)[i] = t[i - Len(s)]
  <2> TAKE i \in 1..Len(s \o t)
  <2>1. CASE i <= Len(s)
    BY <1>1, <1>2, <2>1
  <2>2. CASE ~(i <= Len(s))
    BY <1>1, <1>2, <2>2
  <2> QED
    BY <2>1, <2>2
<1> QED
  BY <1>1, <1>2, <1>3, <1>4

LEMMA HasJoined ==
  ASSUME NEW T, NEW s \in Seq(T), NEW t \in Seq(T), NEW A
  PROVE  Has(s \o t, A) <=> Has(s, A) \/ Has(t, A)
<1>1. Has(s \o t, A) => Has(s, A) \/ Has(t, A)
  BY Joined DEF Has
<1>2. Has(s, A) => Has(s \o t, A)
  BY Joined DEF Has
<1>3. ASSUME Has(t, A) PROVE Has(s \o t, A)
  <2>1. PICK i \in 1..Len(t) : t[i] \in A
    BY <1>3 DEF Has
  <2>2. Len(s) + i \in 1..Len(s \o t) /\ (s \o t)[Len(s) + i] = t[i]
    BY Joined
  <2> QED
    BY <2>1, <2>2 DEF Has
<1> QED
  BY <1>1, <1>2, <1>3

LEMMA BeforeJoined ==
  ASSUME NEW T, NEW s \in Seq(T), NEW t \in Seq(T), NEW A, NEW B,
         Before(s, A, B), Before(t, A, B), Has(t, B) => \A i \in 1..Len(s) : s[i] \in A
  PROVE  Before(s \o t, A, B)
<1> SUFFICES ASSUME NEW i \in 1..Len(s \o t), NEW j \in 1..Len(s \o t), i < j, (s \o t)[j] \in B
             PROVE  (s \o t)[i] \in A
  BY DEF Before
<1>1. CASE j \in 1..Len(s) /\ (s \o t)[j] = s[j]
  <2>1. i \in 1..Len(s) /\ (s \o t)[i] = s[i]
    BY <1>1, Joined
  <2> QED
    BY <1>1, <2>1 DEF Before
<1>2. CASE j - Len(s) \in 1..Len(t) /\ (s \o t)[j] = t[j - Len(s)]
  <2>1. Has(t, B)
    BY <1>2 DEF Has
  <2>2. CASE i \in 1..Len(s) /\ (s \o t)[i] = s[i]
    BY <2>1, <2>2
  <2>3. CASE i - Len(s) \in 1..Len(t) /\ (s \o t)[i] = t[i - Len(s)]
    <3>1. i - Len(s) < j - Len(s)
      BY Joined
    <3> QED
      BY <1>2, <2>3, <3>1 DEF Before
  <2> QED
    BY <2>2, <2>3, Joined
<1> QED
  BY <1>1, <1>2, Joined

LEMMA AfterJoined ==
  ASSUME NEW T, NEW s \in Seq(T), NEW t \in Seq(T), NEW A, NEW B,
         After(s, A, B), Has(s, A) \/ After(t, A, B)
  PROVE  After(s \o t, A, B)
<1> SUFFICES ASSUME NEW i \in 1..Len(s \o t), (s \o t)[i] \in B
             PROVE  \E j \in 1..Len(s \o t) : j < i /\ (s \o t)[j] \in A
  BY DEF After
<1>1. CASE i \in 1..Len(s) /\ (s \o t)[i] = s[i]
  <2>1. PICK j \in 1..Len(s) : j < i /\ s[j] \in A
    BY <1>1 DEF After
  <2>2. j \in 1..Len(s \o t) /\ (s \o t)[j] = s[j]
    BY Joined
  <2> QED
    BY <2>1, <2>2
<1>2. CASE i - Len(s) \in 1..Len(t) /\ (s \o t)[i] = t[i - Len(s)]
  <2>1. CASE Has(s, A)
    <3>1. PICK j \in 1..Len(s) : s[j] \in A
      BY <2>1 DEF Has
    <3>2. j \in 1..Len(s \o t) /\ (s \o t)[j] = s[j] /\ j < i
      BY <1>2, Joined
    <3> QED
      BY <3>1, <3>2
  <2>2. CASE After(t, A, B)
    <3>1. PICK j \in 1..Len(t) : j < i - Len(s) /\ t[j] \in A
      BY <1>2, <2>2 DEF After
    <3>2. Len(s) + j \in 1..Len(s \o t) /\ (s \o t)[Len(s) + j] = t[j] /\ Len(s) + j < i
      BY <3>1, Joined
    <3> QED
      BY <3>1, <3>2
  <2> QED
    BY <2>1, <2>2
<1> QED
  BY <1>1, <1>2, Joined

-----------------------------------------------------------------------------
(* Kinds of steps *)

Of(what) == {s \in Steps : s.do = what}
Creates == Of("create")
Writes == Of("file")
Drops == Of("drop")
FullDrops == {s \in Drops : s.on # "member"}
Putting == {s \in Of("putback") : s.on = "settings"}
PuttingBack(text) == {s \in Putting : s.was = text}
Bootstrapping == {s \in Steps : s.do = "plan" => s.on = "bootstrap"}
Selecting == Of("release") \cup Of("activate")
Deploying == {s \in Steps : s.do \in {"select", "release", "health", "stage", "publish", "activate",
                                      "reselect"}}
Lasting == {"install", "adopt", "upgrade"}

(* A failure at such a step is taken back with all of undo. *)
Unfinal(op) ==
  {s \in Steps : /\ s.do \notin {"initialize", "health"}
                 /\ s.do = "plan" /\ op \in {"install", "adopt"} => s.on # "full"}

LEMMA StepFields ==
  /\ \A s \in Creates \cup Drops : s.on \in Identities /\ s.was = None
  /\ \A s \in Creates : s = Do("create", s.on)
  /\ \A s \in Drops : s = Do("drop", s.on)
  /\ \A s \in Writes : s = Do("file", s.on) /\ s.on \in Files
  /\ \A s \in Of("putback") : s = Redo("putback", s.on, s.was) /\ s.on \in Files /\ s.was \in Contents
  /\ \A s \in Of("repath") : s = Redo("repath", s.on, s.was) /\ s.on \in Entries
                              /\ s.was \in {None, "was", "ours"}
  /\ \A s \in Of("entry") : s = Do("entry", s.on) /\ s.on \in Entries
  /\ \A s \in Of("plan") : s = Do("plan", s.on) /\ s.on \in Policies
  BY DEF Creates, Drops, Writes, Of, Steps, Do, Redo

LEMMA StepKinds ==
  /\ \A id \in Identities : Do("create", id) \in Creates /\ Do("drop", id) \in Drops
  /\ \A f \in Files : Do("file", f) \in Writes
  /\ \A f \in Files, was \in Contents : Redo("putback", f, was) \in Of("putback")
  /\ \A was \in Contents : Redo("putback", "settings", was) \in PuttingBack(was)
  /\ \A e \in Entries, was \in {None, "was", "ours"} : Redo("repath", e, was) \in Of("repath")
  /\ \A e \in Entries : Do("entry", e) \in Of("entry")
  /\ \A policy \in Policies : Do("plan", policy) \in Of("plan")
  /\ \A what \in {"build", "snapshot", "select", "verify", "enable", "start", "initialize", "quiesce"} :
       Do(what, None) \in Of(what)
  /\ \A what \in {"last", "trial"} : Do("health", what) \in Of("health")
  /\ \A v \in Versions, what \in {"release", "stage", "publish", "activate", "reselect"} :
       Do(what, v) \in Of(what)
  /\ \A was \in Timers : Redo("retimer", None, was) \in Of("retimer")
<1>1. "settings" \in Files
  BY DEF Files
<1>2. ASSUME NEW id \in Identities PROVE Do("create", id) \in Creates /\ Do("drop", id) \in Drops
  <2>1. Do("create", id) \in Creates
    BY DEF Creates, Of, Steps, Do
  <2>2. Do("drop", id) \in Drops
    BY DEF Drops, Of, Steps, Do
  <2> QED
    BY <2>1, <2>2
<1>3. \A f \in Files : Do("file", f) \in Writes
  BY DEF Writes, Of, Steps, Do
<1>4. /\ \A f \in Files, was \in Contents : Redo("putback", f, was) \in Of("putback")
      /\ \A was \in Contents : Redo("putback", "settings", was) \in PuttingBack(was)
  BY <1>1 DEF PuttingBack, Putting, Of, Steps, Redo
<1>5. /\ \A e \in Entries, was \in {None, "was", "ours"} : Redo("repath", e, was) \in Of("repath")
      /\ \A was \in Timers : Redo("retimer", None, was) \in Of("retimer")
  BY DEF Of, Steps, Redo
<1>6. /\ \A e \in Entries : Do("entry", e) \in Of("entry")
      /\ \A policy \in Policies : Do("plan", policy) \in Of("plan")
      /\ \A what \in {"last", "trial"} : Do("health", what) \in Of("health")
  BY DEF Of, Steps, Do
<1>7. \A what \in {"build", "snapshot", "select", "verify", "enable", "start", "initialize", "quiesce"} :
        Do(what, None) \in Of(what)
  BY DEF Of, Steps, Do
<1>8. \A v \in Versions, what \in {"release", "stage", "publish", "activate", "reselect"} :
        Do(what, v) \in Of(what)
  BY DEF Of, Steps, Do
<1> QED
  BY <1>2, <1>3, <1>4, <1>5, <1>6, <1>7, <1>8

LEMMA WantedTyped == \A policy : Wanted(policy) \subseteq Identities /\ Missing(policy) \subseteq Identities
  BY DEF Wanted, Missing, Staging, Identities

-----------------------------------------------------------------------------
(* What a configuration does, and how it is taken back *)

LEMMA OneHas ==
  ASSUME NEW what, NEW id, NEW S, NEW A
  PROVE  Has(One(what, id, S), A) <=> id \in S /\ Do(what, id) \in A
  BY HasOne, EmptyHas DEF One

LEMMA SameStep ==
  ASSUME NEW what, NEW a, NEW b
  PROVE  Do(what, a) = Do(what, b) <=> a = b
  BY DEF Do

Finals == Of("verify") \cup Of("enable") \cup Of("start")

LEMMA ConfigurationShape ==
  ASSUME NEW policy \in Policies
  PROVE  /\ Configuration(policy) \in Seq(Creates \cup Writes \cup Finals)
         /\ Before(Configuration(policy), Creates, Creates)
         /\ Before(Configuration(policy), Creates \cup Writes, Writes)
         /\ \A id \in Identities : Has(Configuration(policy), {Do("create", id)}) <=> id \in Missing(policy)
         /\ Has(Configuration(policy), {Do("file", "settings")})
<1> DEFINE m == Missing(policy)
           All == Creates \cup Writes \cup Finals
           o1 == One("create", "group", m)
           o2 == One("create", "user", m)
           o3 == One("create", "operators", m)
           o4 == One("create", "member", m)
           w == [i \in 1..6 |-> Do("file", FileOrder[i])]
           f == <<Do("verify", None), Do("enable", None), Do("start", None)>>
           c1 == o1 \o o2
           c2 == c1 \o o3
           c3 == c2 \o o4
           c4 == c3 \o w
<1>1. /\ o1 \in Seq(Creates) /\ o2 \in Seq(Creates) /\ o3 \in Seq(Creates) /\ o4 \in Seq(Creates)
  BY OneTyped, StepKinds DEF Identities
<1>2. \A id \in Identities : Has(o1, {Do("create", id)}) <=> id \in m /\ id = "group"
  BY OneHas, SameStep
<1>3. \A id \in Identities : Has(o2, {Do("create", id)}) <=> id \in m /\ id = "user"
  BY OneHas, SameStep
<1>4. \A id \in Identities : Has(o3, {Do("create", id)}) <=> id \in m /\ id = "operators"
  BY OneHas, SameStep
<1>5. \A id \in Identities : Has(o4, {Do("create", id)}) <=> id \in m /\ id = "member"
  BY OneHas, SameStep
<1>6. w \in Seq(Writes) /\ Has(w, {Do("file", "settings")})
  <2>1. \A i \in 1..6 : FileOrder[i] \in Files
    BY DEF FileOrder, Files
  <2>2. \A i \in 1..6 : Do("file", FileOrder[i]) \in Writes
    BY <2>1, StepKinds
  <2>3. w \in Seq(Writes)
    BY <2>2, SeqDef
  <2>4. Len(w) = 6 /\ w[6] = Do("file", "settings")
    BY <2>3, LenProperties DEF FileOrder
  <2> QED
    BY <2>3, <2>4 DEF Has
<1>7. f \in Seq(Finals)
  <2>1. Do("verify", None) \in Finals /\ Do("enable", None) \in Finals /\ Do("start", None) \in Finals
    BY StepKinds DEF Finals
  <2> QED
    BY <2>1
<1>8. Configuration(policy) = c4 \o f
  BY DEF Configuration
<1> HIDE DEF o1, o2, o3, o4, w, f
<1>9. /\ c1 \in Seq(Creates) /\ c2 \in Seq(Creates) /\ c3 \in Seq(Creates)
  BY <1>1, Joined
<1>10. \A id \in Identities : Has(c3, {Do("create", id)}) <=> id \in m
  <2> TAKE id \in Identities
  <2>1. Has(c1, {Do("create", id)}) <=> id \in m /\ id \in {"group", "user"}
    BY <1>1, <1>2, <1>3, HasJoined
  <2>2. Has(c2, {Do("create", id)}) <=> id \in m /\ id \in {"group", "user", "operators"}
    BY <2>1, <1>1, <1>4, <1>9, HasJoined
  <2>3. Has(c3, {Do("create", id)}) <=> id \in m /\ id \in {"group", "user", "operators", "member"}
    BY <2>2, <1>1, <1>5, <1>9, HasJoined
  <2> QED
    BY <2>3 DEF Identities
<1> HIDE DEF c3
<1>11. c3 \in Seq(All) /\ w \in Seq(All) /\ f \in Seq(All)
  BY <1>6, <1>7, <1>9, SeqMonotone
<1> HIDE DEF All
<1>12. c4 \in Seq(All) /\ \A A : Has(c4, A) <=> Has(c3, A) \/ Has(w, A)
  BY <1>11, Joined, HasJoined
<1>13. \A id \in Identities : {Do("create", id)} \subseteq Creates
  BY StepKinds
<1>14. Creates \cap Writes = {} /\ Creates \cap Finals = {} /\ Writes \cap Finals = {}
  BY DEF Creates, Writes, Finals, Of
<1>15. Before(c4, Creates, Creates) /\ Before(c4, Creates \cup Writes, Writes)
  <2>1. Before(c3, Creates, Creates)
    BY <1>9, AllBefore
  <2>2. ~Has(w, Creates) /\ Before(w, Creates, Creates)
    BY <1>6, <1>14, HasNone
  <2>3. Before(c4, Creates, Creates)
    BY <2>1, <2>2, <1>11, BeforeJoined
  <2>4. c3 \in Seq(Creates \cup Writes) /\ w \in Seq(Creates \cup Writes)
    BY <1>6, <1>9, SeqMonotone
  <2>5. c4 \in Seq(Creates \cup Writes)
    BY <2>4, Joined
  <2>6. Before(c4, Creates \cup Writes, Writes)
    BY <2>5, AllBefore
  <2> QED
    BY <2>3, <2>6
<1> HIDE DEF c4
<1> DEFINE c == c4 \o f
<1>16. c \in Seq(All) /\ \A A : Has(c, A) <=> Has(c4, A) \/ Has(f, A)
  BY <1>11, <1>12, Joined, HasJoined
<1>17. Before(c, Creates, Creates) /\ Before(c, Creates \cup Writes, Writes)
  <2>1. /\ ~Has(f, Creates) /\ Before(f, Creates, Creates)
        /\ ~Has(f, Writes) /\ Before(f, Creates \cup Writes, Writes)
    BY <1>7, <1>14, HasNone
  <2>2. Before(c, Creates, Creates)
    BY <2>1, <1>11, <1>12, <1>15, BeforeJoined
  <2>3. Before(c, Creates \cup Writes, Writes)
    BY <2>1, <1>11, <1>12, <1>15, BeforeJoined
  <2> QED
    BY <2>2, <2>3
<1> HIDE DEF c
<1>18. \A id \in Identities : Has(c, {Do("create", id)}) <=> id \in m
  <2> TAKE id \in Identities
  <2>1. ~Has(w, {Do("create", id)}) /\ ~Has(f, {Do("create", id)})
    BY <1>6, <1>7, <1>13, <1>14, HasNone
  <2> QED
    BY <2>1, <1>10, <1>12, <1>16
<1>19. Has(c, {Do("file", "settings")})
  BY <1>6, <1>12, <1>16
<1> QED
  BY <1>8, <1>16, <1>17, <1>18, <1>19 DEF c, All

-----------------------------------------------------------------------------
(* The compensation recorded for a configuration *)

Backing == Of("quiesce") \cup Of("putback") \cup Of("retimer") \cup Drops
OldSettings == Redo("putback", "settings", host.files["settings"])

LEMMA DroppedShape ==
  ASSUME NEW policy \in Policies
  PROVE  /\ Dropped(policy) \in Seq(Drops)
         /\ \A id \in Identities : Has(Dropped(policy), {Do("drop", id)}) <=> id \in Missing(policy)
<1> DEFINE m == Missing(policy)
           o1 == One("drop", "member", m)
           o2 == One("drop", "user", m)
           o3 == One("drop", "operators", m)
           o4 == One("drop", "group", m)
           c1 == o1 \o o2
           c2 == c1 \o o3
           c3 == c2 \o o4
<1>1. /\ o1 \in Seq(Drops) /\ o2 \in Seq(Drops) /\ o3 \in Seq(Drops) /\ o4 \in Seq(Drops)
  BY OneTyped, StepKinds DEF Identities
<1>2. \A id \in Identities : Has(o1, {Do("drop", id)}) <=> id \in m /\ id = "member"
  BY OneHas, SameStep
<1>3. \A id \in Identities : Has(o2, {Do("drop", id)}) <=> id \in m /\ id = "user"
  BY OneHas, SameStep
<1>4. \A id \in Identities : Has(o3, {Do("drop", id)}) <=> id \in m /\ id = "operators"
  BY OneHas, SameStep
<1>5. \A id \in Identities : Has(o4, {Do("drop", id)}) <=> id \in m /\ id = "group"
  BY OneHas, SameStep
<1>6. Dropped(policy) = c3
  BY DEF Dropped
<1> HIDE DEF o1, o2, o3, o4
<1>7. /\ c1 \in Seq(Drops) /\ c2 \in Seq(Drops) /\ c3 \in Seq(Drops)
  BY <1>1, Joined
<1>8. \A id \in Identities : Has(c3, {Do("drop", id)}) <=> id \in m
  <2> TAKE id \in Identities
  <2>1. Has(c1, {Do("drop", id)}) <=> id \in m /\ id \in {"member", "user"}
    BY <1>1, <1>2, <1>3, HasJoined
  <2>2. Has(c2, {Do("drop", id)}) <=> id \in m /\ id \in {"member", "user", "operators"}
    BY <2>1, <1>1, <1>4, <1>7, HasJoined
  <2>3. Has(c3, {Do("drop", id)}) <=> id \in m /\ id \in {"member", "user", "operators", "group"}
    BY <2>2, <1>1, <1>5, <1>7, HasJoined
  <2> QED
    BY <2>3 DEF Identities
<1> QED
  BY <1>6, <1>7, <1>8

LEMMA PutBackShape ==
  ASSUME host \in Hosts
  PROVE  /\ PutBackAll \in Seq(Of("putback")) /\ OldSettings \in Putting
         /\ Has(PutBackAll, {OldSettings})
         /\ \A e \in Putting : Has(PutBackAll, {e}) => e = OldSettings
         /\ Before(PutBackAll, Steps \ PuttingBack(None), Putting)
<1>1. \A i \in 1..6 : FileOrder[i] \in Files /\ host.files[FileOrder[i]] \in Contents
                      /\ (FileOrder[i] = "settings" <=> i = 6)
  BY DEF FileOrder, Files, Hosts
<1>2. \A i \in 1..6 : Redo("putback", FileOrder[i], host.files[FileOrder[i]]) \in Of("putback")
  BY <1>1, StepKinds
<1>3. PutBackAll \in Seq(Of("putback"))
  BY <1>2, SeqDef DEF PutBackAll
<1>4. Len(PutBackAll) = 6
  BY <1>3, LenProperties DEF PutBackAll
<1>5. \A i \in 1..6 : PutBackAll[i] = Redo("putback", FileOrder[i], host.files[FileOrder[i]])
  BY DEF PutBackAll
<1>6. \A i \in 1..6 : PutBackAll[i] \in Steps /\ (PutBackAll[i] \in Putting <=> i = 6)
  BY <1>1, <1>2, <1>5 DEF Putting, Redo, Of
<1>7. PutBackAll[6] = OldSettings /\ OldSettings \in Putting
  BY <1>1, <1>5, <1>6 DEF OldSettings
<1>8. Before(PutBackAll, Steps \ PuttingBack(None), Putting)
  BY <1>4, <1>6 DEF Before, PuttingBack
<1> QED
  BY <1>3, <1>4, <1>6, <1>7, <1>8 DEF Has

LEMMA HostUndoShape ==
  ASSUME host \in Hosts, NEW policy \in Policies
  PROVE  /\ HostUndo(policy) \in Seq(Backing)
         /\ Before(HostUndo(policy), Steps \ PuttingBack(None), Putting)
         /\ Has(HostUndo(policy), {OldSettings})
         /\ \A e \in Putting : Has(HostUndo(policy), {e}) => e = OldSettings
         /\ After(HostUndo(policy), {OldSettings}, Drops)
         /\ \A id \in Identities : Has(HostUndo(policy), {Do("drop", id)}) <=> id \in Missing(policy)
<1> DEFINE q == <<Do("quiesce", None)>>
           r == <<Redo("retimer", None, Timer(host))>>
           d == Dropped(policy)
           All == Backing
           P1 == q \o PutBackAll
           P2 == P1 \o r
           u == P2 \o d
<1>1. q \in Seq(Of("quiesce")) /\ r \in Seq(Of("retimer"))
  BY StepKinds, TimerTyped
<1>2. HostUndo(policy) = u
  BY DEF HostUndo
<1>3. /\ PutBackAll \in Seq(Of("putback")) /\ OldSettings \in Putting
      /\ Has(PutBackAll, {OldSettings})
      /\ \A e \in Putting : Has(PutBackAll, {e}) => e = OldSettings
      /\ Before(PutBackAll, Steps \ PuttingBack(None), Putting)
  BY PutBackShape
<1>4. /\ d \in Seq(Drops)
      /\ \A id \in Identities : Has(d, {Do("drop", id)}) <=> id \in Missing(policy)
  BY DroppedShape
<1>5. /\ \A id \in Identities : {Do("drop", id)} \subseteq Drops
      /\ \A e \in Putting : {e} \subseteq Putting
  BY StepKinds
<1>6. /\ Of("quiesce") \cap Drops = {} /\ Of("putback") \cap Drops = {} /\ Of("retimer") \cap Drops = {}
      /\ Of("quiesce") \cap Putting = {} /\ Of("retimer") \cap Putting = {} /\ Drops \cap Putting = {}
      /\ Of("quiesce") \subseteq Steps \ PuttingBack(None) /\ Of("putback") \subseteq Steps
  BY DEF Drops, Putting, PuttingBack, Of
<1> HIDE DEF q, r, d
<1>7. q \in Seq(All) /\ r \in Seq(All) /\ d \in Seq(All) /\ PutBackAll \in Seq(All)
  BY <1>1, <1>3, <1>4, SeqMonotone DEF Backing
<1>8. /\ ~Has(q, Drops) /\ ~Has(r, Drops) /\ ~Has(PutBackAll, Drops)
      /\ ~Has(q, Putting) /\ ~Has(r, Putting) /\ ~Has(d, Putting)
      /\ Before(q, Steps \ PuttingBack(None), Putting)
      /\ Before(r, Steps \ PuttingBack(None), Putting)
      /\ Before(d, Steps \ PuttingBack(None), Putting)
  BY <1>1, <1>3, <1>4, <1>6, HasNone
<1> HIDE DEF All
<1>9. P1 \in Seq(All) /\ \A A : Has(P1, A) <=> Has(q, A) \/ Has(PutBackAll, A)
  BY <1>7, Joined, HasJoined
<1>10. Before(P1, Steps \ PuttingBack(None), Putting)
  <2>1. \A i \in 1..Len(q) : q[i] \in Steps \ PuttingBack(None)
    BY <1>1, <1>6, ElementOfSeq
  <2> QED
    BY <2>1, <1>3, <1>7, <1>8, BeforeJoined
<1> HIDE DEF P1
<1>11. P2 \in Seq(All) /\ \A A : Has(P2, A) <=> Has(P1, A) \/ Has(r, A)
  BY <1>7, <1>9, Joined, HasJoined
<1>12. Before(P2, Steps \ PuttingBack(None), Putting)
  BY <1>7, <1>8, <1>9, <1>10, BeforeJoined
<1> HIDE DEF P2
<1>13. u \in Seq(All) /\ \A A : Has(u, A) <=> Has(P2, A) \/ Has(d, A)
  BY <1>7, <1>11, Joined, HasJoined
<1>14. Before(u, Steps \ PuttingBack(None), Putting)
  BY <1>7, <1>8, <1>11, <1>12, BeforeJoined
<1>15. After(u, {OldSettings}, Drops)
  <2>1. ~Has(P2, Drops) /\ Has(P2, {OldSettings})
    BY <1>3, <1>8, <1>9, <1>11
  <2>2. After(P2, {OldSettings}, Drops)
    BY <2>1 DEF Has, After
  <2> QED
    BY <2>1, <2>2, <1>7, <1>11, AfterJoined
<1> HIDE DEF u
<1>16. Has(u, {OldSettings})
  BY <1>3, <1>9, <1>11, <1>13
<1>17. ASSUME NEW e \in Putting, Has(u, {e})
       PROVE  e = OldSettings
  <2>1. ~Has(q, {e}) /\ ~Has(r, {e}) /\ ~Has(d, {e})
    BY <1>5, <1>8, HasMore
  <2> QED
    BY <2>1, <1>3, <1>9, <1>11, <1>13, <1>17
<1>18. ASSUME NEW id \in Identities
       PROVE  Has(u, {Do("drop", id)}) <=> id \in Missing(policy)
  <2>1. ~Has(q, {Do("drop", id)}) /\ ~Has(r, {Do("drop", id)}) /\ ~Has(PutBackAll, {Do("drop", id)})
    BY <1>5, <1>8, HasMore
  <2> QED
    BY <2>1, <1>4, <1>9, <1>11, <1>13
<1> QED
  BY <1>2, <1>13, <1>14, <1>15, <1>16, <1>17, <1>18 DEF All

LEMMA EntryUndoShape ==
  ASSUME host \in Hosts
  PROVE  /\ EntryUndo \in Seq(Of("repath"))
         /\ \A e \in Entries : Has(EntryUndo, {Redo("repath", e, host.entries[e])})
         /\ \A s : Has(EntryUndo, {s}) => s.was = host.entries[s.on]
<1>1. \A i \in 1..5 : /\ EntryOrder[6 - i] \in Entries
                      /\ host.entries[EntryOrder[6 - i]] \in {None, "was", "ours"}
  BY DEF EntryOrder, Entries, Hosts
<1>2. \A e \in Entries : \E i \in 1..5 : e = EntryOrder[6 - i]
  <2>1. /\ EntryOrder[6 - 5] = "readme" /\ EntryOrder[6 - 4] = "libexec" /\ EntryOrder[6 - 3] = "internal"
        /\ EntryOrder[6 - 2] = "public" /\ EntryOrder[6 - 1] = "completion"
    BY DEF EntryOrder
  <2> QED
    BY <2>1 DEF Entries
<1>3. \A i \in 1..5 : Redo("repath", EntryOrder[6 - i], host.entries[EntryOrder[6 - i]]) \in Of("repath")
  BY <1>1, StepKinds
<1>4. EntryUndo \in Seq(Of("repath"))
  BY <1>3, SeqDef DEF EntryUndo
<1>5. Len(EntryUndo) = 5
  BY <1>4, LenProperties DEF EntryUndo
<1>6. \A i \in 1..5 : EntryUndo[i] = Redo("repath", EntryOrder[6 - i], host.entries[EntryOrder[6 - i]])
  BY DEF EntryUndo
<1>7. ASSUME NEW e \in Entries
      PROVE  Has(EntryUndo, {Redo("repath", e, host.entries[e])})
  <2>1. PICK i \in 1..5 : e = EntryOrder[6 - i]
    BY <1>2
  <2> QED
    BY <2>1, <1>5, <1>6 DEF Has
<1>8. ASSUME NEW s, Has(EntryUndo, {s})
      PROVE  s.was = host.entries[s.on]
  <2>1. PICK i \in 1..5 : s = Redo("repath", EntryOrder[6 - i], host.entries[EntryOrder[6 - i]])
    BY <1>5, <1>6, <1>8 DEF Has
  <2> QED
    BY <2>1 DEF Redo
<1> QED
  BY <1>4, <1>7, <1>8

Bystanding == {s \in Steps : s.do # "snapshot"}

(* The order of the steps a command has left: accounts, then files, before all
   else; only the last configuration is the operator's; one snapshot of the
   entry points, which a failure takes back until the release is selected. *)
Ordered(op, t) ==
  /\ Before(t, Creates, Creates) /\ Before(t, Creates \cup Writes, Writes)
  /\ Before(t, Bootstrapping, Of("plan"))
  /\ Before(t, Bystanding, Of("snapshot"))
  /\ Before(t, Unfinal(op), Selecting)
  /\ op \notin Lasting =>
       ~Has(t, Of("initialize")) /\ ~Has(t, Of("health")) /\ ~Has(t, Of("snapshot"))

LEMMA EmptyOrdered == \A op : Ordered(op, <<>>)
  BY EmptyHas DEF Ordered

LEMMA OrderedTail ==
  ASSUME NEW op, NEW t \in Seq(Steps), t # <<>>, Ordered(op, t)
  PROVE  /\ Ordered(op, Tail(t))
         /\ Has(Tail(t), Creates) => Head(t) \in Creates
         /\ Has(Tail(t), Writes) => Head(t) \in Creates \cup Writes
         /\ Has(Tail(t), Of("plan")) => Head(t) \in Bootstrapping
         /\ Has(Tail(t), Of("snapshot")) => Head(t) \in Bystanding
         /\ Has(Tail(t), Selecting) => Head(t) \in Unfinal(op)
<1>1. /\ Before(Tail(t), Creates, Creates) /\ (Has(Tail(t), Creates) => Head(t) \in Creates)
  BY BeforeTail DEF Ordered
<1>2. /\ Before(Tail(t), Creates \cup Writes, Writes)
      /\ (Has(Tail(t), Writes) => Head(t) \in Creates \cup Writes)
  BY BeforeTail DEF Ordered
<1>3. /\ Before(Tail(t), Bootstrapping, Of("plan"))
      /\ (Has(Tail(t), Of("plan")) => Head(t) \in Bootstrapping)
  BY BeforeTail DEF Ordered
<1>4. /\ Before(Tail(t), Bystanding, Of("snapshot"))
      /\ (Has(Tail(t), Of("snapshot")) => Head(t) \in Bystanding)
  BY BeforeTail DEF Ordered
<1>5. /\ Before(Tail(t), Unfinal(op), Selecting) /\ (Has(Tail(t), Selecting) => Head(t) \in Unfinal(op))
  BY BeforeTail DEF Ordered
<1>6. op \notin Lasting =>
        /\ ~Has(Tail(t), Of("initialize")) /\ ~Has(Tail(t), Of("health"))
        /\ ~Has(Tail(t), Of("snapshot"))
  BY HasTail DEF Ordered
<1> QED
  BY <1>1, <1>2, <1>3, <1>4, <1>5, <1>6 DEF Ordered

LEMMA OrderedJoined ==
  ASSUME NEW op, NEW s \in Seq(Steps), NEW t \in Seq(Steps), Ordered(op, s), Ordered(op, t),
         ~Has(t, Creates), ~Has(t, Writes),
         Has(t, Of("plan")) => s \in Seq(Bootstrapping),
         Has(t, Of("snapshot")) => s \in Seq(Bystanding),
         Has(t, Selecting) => s \in Seq(Unfinal(op))
  PROVE  Ordered(op, s \o t)
<1>1. Before(s \o t, Creates, Creates)
  BY BeforeJoined DEF Ordered
<1>2. Before(s \o t, Creates \cup Writes, Writes)
  BY BeforeJoined DEF Ordered
<1>3. Before(s \o t, Bootstrapping, Of("plan"))
  <2>1. Has(t, Of("plan")) => \A i \in 1..Len(s) : s[i] \in Bootstrapping
    BY ElementOfSeq
  <2> QED
    BY <2>1, BeforeJoined DEF Ordered
<1>4. Before(s \o t, Bystanding, Of("snapshot"))
  <2>1. Has(t, Of("snapshot")) => \A i \in 1..Len(s) : s[i] \in Bystanding
    BY ElementOfSeq
  <2> QED
    BY <2>1, BeforeJoined DEF Ordered
<1>5. Before(s \o t, Unfinal(op), Selecting)
  <2>1. Has(t, Selecting) => \A i \in 1..Len(s) : s[i] \in Unfinal(op)
    BY ElementOfSeq
  <2> QED
    BY <2>1, BeforeJoined DEF Ordered
<1>6. op \notin Lasting =>
        /\ ~Has(s \o t, Of("initialize")) /\ ~Has(s \o t, Of("health"))
        /\ ~Has(s \o t, Of("snapshot"))
  BY HasJoined DEF Ordered
<1> QED
  BY <1>1, <1>2, <1>3, <1>4, <1>5, <1>6 DEF Ordered

(* Steps that are in no order among themselves. *)
Loose(op) == {s \in Unfinal(op) : s.do \notin {"create", "file", "plan", "snapshot"}}

LEMMA LooseOrdered ==
  ASSUME NEW op, NEW s \in Seq(Loose(op))
  PROVE  Ordered(op, s) /\ s \in Seq(Bootstrapping) /\ s \in Seq(Bystanding) /\ s \in Seq(Unfinal(op))
<1>1. Loose(op) \subseteq Bootstrapping /\ Loose(op) \subseteq Bystanding /\ Loose(op) \subseteq Unfinal(op)
  BY DEF Loose, Bootstrapping, Bystanding, Unfinal
<1>2. /\ Loose(op) \cap Creates = {} /\ Loose(op) \cap Writes = {} /\ Loose(op) \cap Of("plan") = {}
      /\ Loose(op) \cap Of("snapshot") = {} /\ Loose(op) \cap Of("initialize") = {}
      /\ Loose(op) \cap Of("health") = {}
  BY DEF Loose, Unfinal, Creates, Writes, Of
<1>3. /\ Before(s, Creates, Creates) /\ Before(s, Creates \cup Writes, Writes)
      /\ Before(s, Bootstrapping, Of("plan")) /\ Before(s, Bystanding, Of("snapshot"))
      /\ Before(s, Unfinal(op), Selecting)
  BY <1>1, <1>2, HasNone, AllBefore
<1>4. ~Has(s, Of("initialize")) /\ ~Has(s, Of("health")) /\ ~Has(s, Of("snapshot"))
  BY <1>2, HasNone
<1> QED
  BY <1>1, <1>3, <1>4, SeqMonotone DEF Ordered

LEMMA ConfigurationOrdered ==
  ASSUME NEW policy \in Policies, NEW op
  PROVE  /\ Ordered(op, Configuration(policy))
         /\ Configuration(policy) \in Seq(Bootstrapping) /\ Configuration(policy) \in Seq(Bystanding)
         /\ Configuration(policy) \in Seq(Unfinal(op)) /\ Configuration(policy) \in Seq(Steps)
         /\ ~Has(Configuration(policy), Of("plan")) /\ ~Has(Configuration(policy), Selecting)
         /\ ~Has(Configuration(policy), Of("snapshot")) /\ ~Has(Configuration(policy), Of("entry"))
<1> DEFINE All == Creates \cup Writes \cup Finals
           c == Configuration(policy)
<1>1. /\ c \in Seq(All) /\ Before(c, Creates, Creates) /\ Before(c, Creates \cup Writes, Writes)
  BY ConfigurationShape
<1>2. All \subseteq Bootstrapping /\ All \subseteq Bystanding /\ All \subseteq Unfinal(op) /\ All \subseteq Steps
  BY DEF Creates, Writes, Finals, Of, Bootstrapping, Bystanding, Unfinal
<1>3. /\ All \cap Of("plan") = {} /\ All \cap Of("snapshot") = {} /\ All \cap Selecting = {}
      /\ All \cap Of("initialize") = {} /\ All \cap Of("health") = {} /\ All \cap Of("entry") = {}
  BY DEF Creates, Writes, Finals, Of, Selecting
<1> HIDE DEF All, c
<1>4. /\ Before(c, Bootstrapping, Of("plan")) /\ Before(c, Bystanding, Of("snapshot"))
      /\ Before(c, Unfinal(op), Selecting)
      /\ ~Has(c, Of("plan")) /\ ~Has(c, Of("snapshot")) /\ ~Has(c, Selecting)
      /\ ~Has(c, Of("initialize")) /\ ~Has(c, Of("health")) /\ ~Has(c, Of("entry"))
  BY <1>1, <1>3, HasNone
<1>5. c \in Seq(Bootstrapping) /\ c \in Seq(Bystanding) /\ c \in Seq(Unfinal(op)) /\ c \in Seq(Steps)
  BY <1>1, <1>2, SeqMonotone
<1> QED
  BY <1>1, <1>4, <1>5 DEF Ordered, c

-----------------------------------------------------------------------------
(* The programs of install.py *)

LEMMA DeploymentOrdered ==
  ASSUME NEW op \in Lasting, NEW version \in Offered
  PROVE  LET d == Deployment(version) IN
           /\ d \in Seq(Steps) /\ d \in Seq(Bootstrapping) /\ d \in Seq(Unfinal(op))
           /\ Ordered(op, d) /\ Has(d, Selecting) /\ ~Has(d, Of("plan"))
           /\ ~Has(d, Creates) /\ ~Has(d, Writes) /\ ~Has(d, Of("entry"))
<1> DEFINE a == Do("build", None)
           b == Do("snapshot", None)
           c == Do("select", None)
           e == Do("release", version)
           d == <<a, b, c, e>>
<1>1. /\ a \in Of("build") /\ b \in Of("snapshot") /\ c \in Of("select") /\ e \in Of("release")
  BY StepKinds DEF Versions, Offered
<1>2. Deployment(version) = d
  BY DEF Deployment
<1> HIDE DEF a, b, c, e
<1>3. /\ {a, b, c, e} \subseteq Unfinal(op) /\ {a, b, c, e} \subseteq Bootstrapping
      /\ {a, b, c, e} \subseteq Steps
      /\ {a, b, c, e} \cap Creates = {} /\ {a, b, c, e} \cap Writes = {}
      /\ {a, b, c, e} \cap Of("plan") = {} /\ {a, b, c, e} \cap Of("entry") = {}
      /\ a \in Bystanding /\ c \notin Of("snapshot") /\ e \notin Of("snapshot") /\ e \in Selecting
  BY <1>1 DEF Of, Unfinal, Bootstrapping, Creates, Writes, Bystanding, Selecting
<1>4. d \in Seq({a, b, c, e}) /\ Len(d) = 4 /\ d[1] = a /\ d[2] = b /\ d[3] = c /\ d[4] = e
  OBVIOUS
<1> HIDE DEF d
<1>5. Before(d, Bystanding, Of("snapshot"))
  BY <1>3, <1>4 DEF Before
<1>6. Has(d, Selecting)
  BY <1>3, <1>4 DEF Has
<1>7. /\ ~Has(d, Creates) /\ ~Has(d, Writes) /\ ~Has(d, Of("plan")) /\ ~Has(d, Of("entry"))
      /\ Before(d, Creates, Creates) /\ Before(d, Creates \cup Writes, Writes)
      /\ Before(d, Bootstrapping, Of("plan"))
  BY <1>3, <1>4, HasNone
<1>8. Before(d, Unfinal(op), Selecting)
  BY <1>3, <1>4, AllBefore
<1>9. d \in Seq(Steps) /\ d \in Seq(Bootstrapping) /\ d \in Seq(Unfinal(op))
  BY <1>3, <1>4, SeqMonotone
<1> QED
  BY <1>2, <1>5, <1>6, <1>7, <1>8, <1>9 DEF Ordered

-----------------------------------------------------------------------------
(* Where the programs begin *)

LEMMA PlanAlone ==
  ASSUME NEW op, NEW policy \in Policies
  PROVE  LET s == <<Do("plan", policy)>> IN
           /\ s \in Seq(Of("plan")) /\ s \in Seq(Steps) /\ Ordered(op, s)
           /\ ~Has(s, Creates) /\ ~Has(s, Writes) /\ ~Has(s, Of("entry"))
           /\ s \in Seq(Bystanding)
           /\ policy = "bootstrap" \/ op \notin {"install", "adopt"} => s \in Seq(Unfinal(op))
           /\ policy = "bootstrap" => s \in Seq(Bootstrapping)
<1> DEFINE a == Do("plan", policy)
           s == <<a>>
<1>1. a \in Of("plan") /\ a.on = policy
  BY StepKinds DEF Do
<1> HIDE DEF a
<1>2. s \in Seq({a}) /\ Len(s) = 1 /\ s[1] = a
  OBVIOUS
<1>3. /\ {a} \subseteq Of("plan") /\ {a} \subseteq Steps /\ {a} \subseteq Bystanding
      /\ {a} \cap Creates = {} /\ {a} \cap Writes = {} /\ {a} \cap Of("entry") = {}
      /\ {a} \cap Selecting = {} /\ {a} \cap Of("snapshot") = {}
      /\ {a} \cap Of("initialize") = {} /\ {a} \cap Of("health") = {}
      /\ policy = "bootstrap" \/ op \notin {"install", "adopt"} => {a} \subseteq Unfinal(op)
      /\ policy = "bootstrap" => {a} \subseteq Bootstrapping
  BY <1>1 DEF Of, Unfinal, Bootstrapping, Creates, Writes, Bystanding, Selecting
<1> HIDE DEF s
<1>4. Before(s, Bootstrapping, Of("plan"))
  BY <1>2 DEF Before
<1>5. /\ ~Has(s, Creates) /\ ~Has(s, Writes) /\ ~Has(s, Of("entry")) /\ ~Has(s, Of("snapshot"))
      /\ ~Has(s, Of("initialize")) /\ ~Has(s, Of("health"))
      /\ Before(s, Creates, Creates) /\ Before(s, Creates \cup Writes, Writes)
      /\ Before(s, Bystanding, Of("snapshot")) /\ Before(s, Unfinal(op), Selecting)
  BY <1>2, <1>3, HasNone
<1>6. /\ s \in Seq(Of("plan")) /\ s \in Seq(Steps) /\ s \in Seq(Bystanding)
      /\ policy = "bootstrap" \/ op \notin {"install", "adopt"} => s \in Seq(Unfinal(op))
      /\ policy = "bootstrap" => s \in Seq(Bootstrapping)
  BY <1>2, <1>3, SeqMonotone
<1> QED
  BY <1>4, <1>5, <1>6 DEF Ordered, s, a

(* What a program of install.py begins with, and what it is made of. *)
Begins(op, t) ==
  /\ t \in Seq(Steps) /\ Ordered(op, t) /\ t # <<>> /\ Head(t) \in Of("plan")
  /\ ~Has(t, Creates) /\ ~Has(t, Writes) /\ ~Has(t, Of("entry"))

LEMMA BeginsJoined ==
  ASSUME NEW op, NEW s, Begins(op, s), NEW t \in Seq(Steps), Ordered(op, t),
         ~Has(t, Creates), ~Has(t, Writes), ~Has(t, Of("entry")),
         Has(t, Of("plan")) => s \in Seq(Bootstrapping),
         Has(t, Of("snapshot")) => s \in Seq(Bystanding),
         Has(t, Selecting) => s \in Seq(Unfinal(op))
  PROVE  Begins(op, s \o t) /\ \A A : Has(s \o t, A) <=> Has(s, A) \/ Has(t, A)
<1>1. s \in Seq(Steps) /\ Ordered(op, s) /\ s # <<>>
  BY DEF Begins
<1>2. Ordered(op, s \o t)
  BY <1>1, OrderedJoined
<1>3. s \o t \in Seq(Steps) /\ \A A : Has(s \o t, A) <=> Has(s, A) \/ Has(t, A)
  BY <1>1, HasJoined, Joined
<1>4. s \o t # <<>> /\ Head(s \o t) = Head(s)
  <2>1. Len(s) \in Nat \ {0} /\ Head(s) = s[1]
    BY <1>1, HeadOrTail
  <2>2. 1 \in 1..Len(s \o t) /\ (s \o t)[1] = s[1]
    BY <1>1, <2>1, Joined
  <2>3. s \o t # <<>>
    BY <2>2, EmptySeq
  <2>4. Head(s \o t) = (s \o t)[1]
    BY <1>3, <2>3, HeadOrTail
  <2> QED
    BY <2>1, <2>2, <2>3, <2>4
<1> QED
  BY <1>1, <1>2, <1>3, <1>4 DEF Begins

LEMMA PlanBegins ==
  ASSUME NEW op, NEW policy \in Policies
  PROVE  Begins(op, <<Do("plan", policy)>>)
<1>1. Do("plan", policy) \in Of("plan")
  BY StepKinds
<1> QED
  BY <1>1, PlanAlone DEF Begins

LEMMA InstallBegins ==
  ASSUME NEW op \in {"install", "adopt"}, NEW version \in Offered
  PROVE  Begins(op, Program(op, version)) /\ Has(Program(op, version), Selecting)
<1> DEFINE p == <<Do("plan", "bootstrap")>>
           d == Deployment(version)
           f1 == <<Do("plan", "full")>>
           f2 == <<Do("initialize", None), Do("health", "last")>>
           f == <<Do("plan", "full"), Do("initialize", None), Do("health", "last")>>
           pd == p \o d
<1>0. op \in Lasting /\ "bootstrap" \in Policies /\ "full" \in Policies
  BY DEF Lasting, Policies
<1>1. Begins(op, p) /\ p \in Seq(Bootstrapping) /\ p \in Seq(Bystanding) /\ p \in Seq(Unfinal(op))
  BY <1>0, PlanAlone, PlanBegins
<1>2. /\ d \in Seq(Steps) /\ d \in Seq(Bootstrapping) /\ d \in Seq(Unfinal(op))
      /\ Ordered(op, d) /\ Has(d, Selecting) /\ ~Has(d, Of("plan"))
      /\ ~Has(d, Creates) /\ ~Has(d, Writes) /\ ~Has(d, Of("entry"))
  BY <1>0, DeploymentOrdered
<1>3. /\ f \in Seq(Steps) /\ Ordered(op, f) /\ ~Has(f, Selecting) /\ ~Has(f, Of("snapshot"))
      /\ ~Has(f, Creates) /\ ~Has(f, Writes) /\ ~Has(f, Of("entry"))
  <2> DEFINE a == Do("plan", "full")
             b == Do("initialize", None)
             c == Do("health", "last")
  <2>1. a \in Of("plan") /\ b \in Of("initialize") /\ c \in Of("health")
    BY <1>0, StepKinds
  <2> HIDE DEF a, b, c
  <2>2. f = <<a, b, c>>
    BY DEF a, b, c
  <2>3. f \in Seq({a, b, c}) /\ Len(f) = 3 /\ f[1] = a /\ f[2] = b /\ f[3] = c
    BY <2>2
  <2>4. /\ {a, b, c} \subseteq Steps
        /\ {a, b, c} \cap Creates = {} /\ {a, b, c} \cap Writes = {}
        /\ {a, b, c} \cap Of("entry") = {} /\ {a, b, c} \cap Of("snapshot") = {}
        /\ {a, b, c} \cap Selecting = {}
        /\ b \notin Of("plan") /\ c \notin Of("plan")
    BY <2>1 DEF Of, Creates, Writes, Selecting
  <2> HIDE DEF f
  <2>5. Before(f, Bootstrapping, Of("plan"))
    BY <2>3, <2>4 DEF Before
  <2>6. /\ ~Has(f, Creates) /\ ~Has(f, Writes) /\ ~Has(f, Of("entry")) /\ ~Has(f, Of("snapshot"))
        /\ ~Has(f, Selecting)
        /\ Before(f, Creates, Creates) /\ Before(f, Creates \cup Writes, Writes)
        /\ Before(f, Bystanding, Of("snapshot")) /\ Before(f, Unfinal(op), Selecting)
    BY <2>3, <2>4, HasNone
  <2>7. f \in Seq(Steps)
    BY <2>3, <2>4, SeqMonotone
  <2> QED
    BY <1>0, <2>5, <2>6, <2>7 DEF Ordered
<1>4. Program(op, version) = pd \o f
  BY DEF Program
<1> HIDE DEF p, d, f
<1>5. Begins(op, pd) /\ \A A : Has(pd, A) <=> Has(p, A) \/ Has(d, A)
  BY <1>1, <1>2, BeginsJoined
<1>6. pd \in Seq(Bootstrapping)
  BY <1>1, <1>2, Joined
<1> HIDE DEF pd
<1>7. Begins(op, pd \o f) /\ \A A : Has(pd \o f, A) <=> Has(pd, A) \/ Has(f, A)
  BY <1>3, <1>5, <1>6, BeginsJoined
<1> QED
  BY <1>2, <1>4, <1>5, <1>7

LEMMA UpgradeBegins ==
  ASSUME NEW version \in Offered
  PROVE  Begins("upgrade", Program("upgrade", version)) /\ Has(Program("upgrade", version), Selecting)
<1> DEFINE p == <<Do("plan", "bootstrap")>>
           b == IF host.files["settings"] = None THEN p ELSE <<>>
           r == <<Do("plan", Resolved("upgrade"))>>
           d == Deployment(version)
           h == <<Do("health", "trial")>>
           s1 == b \o r
           s2 == s1 \o d
<1>0. "upgrade" \in Lasting /\ "bootstrap" \in Policies /\ Resolved("upgrade") \in Policies
  BY ResolvedTyped DEF Lasting, Policies
<1>1. /\ Begins("upgrade", p) /\ p \in Seq(Bootstrapping) /\ p \in Seq(Bystanding)
      /\ p \in Seq(Unfinal("upgrade"))
  BY <1>0, PlanAlone, PlanBegins
<1>2. /\ Begins("upgrade", r) /\ r \in Seq(Bystanding) /\ r \in Seq(Unfinal("upgrade")) /\ r \in Seq(Steps)
      /\ Ordered("upgrade", r) /\ ~Has(r, Creates) /\ ~Has(r, Writes) /\ ~Has(r, Of("entry"))
  BY <1>0, PlanAlone, PlanBegins
<1>3. /\ d \in Seq(Steps) /\ Ordered("upgrade", d) /\ Has(d, Selecting) /\ ~Has(d, Of("plan"))
      /\ ~Has(d, Creates) /\ ~Has(d, Writes) /\ ~Has(d, Of("entry"))
  BY <1>0, DeploymentOrdered
<1>4. /\ h \in Seq(Steps) /\ Ordered("upgrade", h) /\ ~Has(h, Selecting) /\ ~Has(h, Of("snapshot"))
      /\ ~Has(h, Of("plan")) /\ ~Has(h, Creates) /\ ~Has(h, Writes) /\ ~Has(h, Of("entry"))
  <2> DEFINE e == Do("health", "trial")
  <2>1. e \in Of("health")
    BY StepKinds
  <2> HIDE DEF e
  <2>2. h = <<e>>
    BY DEF e
  <2>3. h \in Seq({e})
    BY <2>2
  <2>4. /\ {e} \subseteq Steps /\ {e} \cap Creates = {} /\ {e} \cap Writes = {}
        /\ {e} \cap Of("entry") = {} /\ {e} \cap Of("snapshot") = {} /\ {e} \cap Of("plan") = {}
        /\ {e} \cap Selecting = {}
    BY <2>1 DEF Of, Creates, Writes, Selecting
  <2> HIDE DEF h
  <2>5. /\ ~Has(h, Creates) /\ ~Has(h, Writes) /\ ~Has(h, Of("entry")) /\ ~Has(h, Of("snapshot"))
        /\ ~Has(h, Selecting) /\ ~Has(h, Of("plan"))
        /\ Before(h, Creates, Creates) /\ Before(h, Creates \cup Writes, Writes)
        /\ Before(h, Bootstrapping, Of("plan"))
        /\ Before(h, Bystanding, Of("snapshot")) /\ Before(h, Unfinal("upgrade"), Selecting)
    BY <2>3, <2>4, HasNone
  <2>6. h \in Seq(Steps)
    BY <2>3, <2>4, SeqMonotone
  <2> QED
    BY <1>0, <2>5, <2>6 DEF Ordered
<1>5. Program("upgrade", version) = s2 \o h
  BY DEF Program
<1> HIDE DEF p, r, d, h
<1>6. /\ Begins("upgrade", s1) /\ s1 \in Seq(Bystanding) /\ s1 \in Seq(Unfinal("upgrade"))
  <2>1. CASE b = p
    <3>1. Begins("upgrade", p \o r)
      BY <1>1, <1>2, BeginsJoined
    <3>2. p \o r \in Seq(Bystanding) /\ p \o r \in Seq(Unfinal("upgrade"))
      BY <1>1, <1>2, Joined
    <3> QED
      BY <2>1, <3>1, <3>2
  <2>2. CASE b = <<>>
    <3>1. s1 = r
      BY <1>2, <2>2, ConcatEmptySeq
    <3> QED
      BY <1>2, <3>1
  <2> QED
    BY <2>1, <2>2
<1> HIDE DEF b, s1
<1>7. Begins("upgrade", s2) /\ Has(s2, Selecting)
  BY <1>3, <1>6, BeginsJoined
<1> HIDE DEF s2
<1>8. Begins("upgrade", s2 \o h) /\ Has(s2 \o h, Selecting)
  BY <1>4, <1>7, BeginsJoined
<1> QED
  BY <1>5, <1>8

LEMMA ProgramBegins ==
  ASSUME NEW op \in {"configure"} \cup Lasting, NEW version \in Offered
  PROVE  Begins(op, Program(op, version)) /\ (op \in Lasting => Has(Program(op, version), Selecting))
<1>1. CASE op = "configure"
  <2>1. Program(op, version) = <<Do("plan", Resolved(op))>> /\ op \notin Lasting
    BY <1>1 DEF Program, Lasting
  <2>2. Begins(op, <<Do("plan", Resolved(op))>>)
    BY ResolvedTyped, PlanBegins
  <2> QED
    BY <2>1, <2>2
<1> QED
  BY <1>1, InstallBegins, UpgradeBegins DEF Lasting

-----------------------------------------------------------------------------
(* The invariant *)

Settings(h) == h.files["settings"]

(* installation.json stands only with the accounts it declares. *)
Witnessed(h) == Settings(h) # None => Wanted(Settings(h)) \subseteq h.ids

(* The steps that take back what process r did. *)
Back(r) == IF r.failing = "no" THEN r.undo ELSE r.todo

(* How far a command that goes well has come. *)
Progress(r, h) ==
  /\ \A id \in Identities : Has(r.todo, {Do("create", id)}) => Has(r.undo, {Do("drop", id)})
  /\ r.op \notin Lasting => ~Has(r.undo, Of("repath"))
  /\ r.op \in Lasting => Has(r.todo, Selecting) \/ h.selector # None
  /\ r.policy = None =>
       /\ r.undo = <<>>
       /\ IF r.todo = <<>> THEN r.op \notin Lasting ELSE Head(r.todo) \in Of("plan")
  /\ r.policy # None =>
       /\ Has(r.undo, Putting)
       /\ \A id \in Wanted(r.policy) : id \in h.ids \/ Has(r.todo, {Do("create", id)})
       /\ Has(r.todo, {Do("file", "settings")}) \/ Settings(h) = r.policy
       /\ Has(r.todo, Of("plan")) => r.policy = "bootstrap"
       /\ r.policy = "bootstrap" => "member" \notin h.ids /\ ~Has(r.todo, {Do("create", "member")})

(* The way back puts an installation.json back only while the accounts it declares
   are there, and drops accounts only once none declares them. *)
Retreat(r, h) ==
  LET s == Back(r) IN
    /\ Before(s, Steps \ PuttingBack(None), Putting)
    /\ Has(s, PuttingBack("full")) => ~Has(s, Drops)
    /\ After(s, Putting, Drops) \/ (r.failing # "no" /\ Settings(h) # "full")
    /\ \/ After(s, PuttingBack(None), FullDrops)
       \/ r.failing # "no" /\ Settings(h) = None /\ ~Has(s, Putting)
    /\ \A e \in Putting : Has(s, {e}) /\ e.was # None => Wanted(e.was) \subseteq h.ids

(* Without a selected product the way back removes every entry point. *)
Chosen(r, h) ==
  h.selector = None =>
    /\ \A e \in Entries : h.entries[e] # None => Has(Back(r), {Redo("repath", e, None)})
    /\ \A s \in Of("repath") : Has(Back(r), {s}) => s.was = None
    /\ r.failing = "no" =>
         /\ \A e \in Entries : Has(r.todo, {Do("entry", e)}) => Has(r.undo, {Redo("repath", e, None)})
         /\ Has(r.todo, Of("snapshot")) => ~Has(r.undo, Of("repath"))

(* The installation.json the way back ends with. *)
EndsWith(r, h, text) ==
  \/ Has(Back(r), PuttingBack(text))
  \/ ~Has(Back(r), Putting) /\ Settings(h) = text

(* With none the way back drops every account, with the bootstrap one the member. *)
Consistent(r, h) ==
  /\ EndsWith(r, h, None) => \A id \in h.ids : Has(Back(r), {Do("drop", id)})
  /\ EndsWith(r, h, "bootstrap") /\ "member" \in h.ids => Has(Back(r), {Do("drop", "member")})

Ours == run["installer"]
Theirs == run["manager"]
Broken == \E p \in Processes : run[p].failing = "badly"
Excused == spoiled = "incomplete" \/ Broken
Abandoned == spoiled # "no" \/ Broken

ManagerInv ==
  /\ Theirs.todo \in Seq(Deploying) /\ Theirs.undo \in Seq(Deploying)
  /\ Theirs.op \notin Lasting

OursInv ==
  /\ Ours.failing = "no" => Ordered(Ours.op, Ours.todo) /\ Progress(Ours, host)
  /\ ~Excused => Witnessed(host) /\ Retreat(Ours, host)
  /\ ~Abandoned => Chosen(Ours, host) /\ Consistent(Ours, host)

BoundaryInv == ManagerInv /\ OursInv

-----------------------------------------------------------------------------
(* Lemmas about its parts *)

LEMMA Nothing ==
  /\ None \notin Policies /\ None \notin Lasting /\ None # "full" /\ None # "bootstrap"
  /\ Policies = {"bootstrap", "full"} /\ "settings" \in Files /\ "member" \in Identities
  BY NoneAssumption DEF Policies, Operations, Lasting, Files, Identities

(* What the process does not touch. *)
LEMMA Unmoved ==
  ASSUME NEW r, NEW q, NEW h, NEW g,
         q.todo = r.todo, q.undo = r.undo, q.failing = r.failing, q.policy = r.policy, q.op = r.op,
         g.ids = h.ids, g.files = h.files, g.entries = h.entries,
         h.selector # None => g.selector # None
  PROVE  /\ Progress(r, h) => Progress(q, g)
         /\ Witnessed(h) => Witnessed(g)
         /\ Retreat(r, h) => Retreat(q, g)
         /\ Chosen(r, h) => Chosen(q, g)
         /\ Consistent(r, h) => Consistent(q, g)
<1>1. Back(q) = Back(r) /\ Settings(g) = Settings(h)
  BY DEF Back, Settings
<1>2. Progress(r, h) => Progress(q, g)
  BY <1>1 DEF Progress
<1>3. Witnessed(h) => Witnessed(g)
  BY <1>1 DEF Witnessed
<1>4. Retreat(r, h) => Retreat(q, g)
  BY <1>1 DEF Retreat
<1>5. Chosen(r, h) => Chosen(q, g)
  BY <1>1 DEF Chosen
<1>6. Consistent(r, h) => Consistent(q, g)
  BY <1>1 DEF Consistent, EndsWith
<1> QED
  BY <1>2, <1>3, <1>4, <1>5, <1>6

(* A process with nothing to take back. *)
LEMMA NothingBack ==
  ASSUME NEW r, NEW h, Back(r) = <<>>
  PROVE  /\ Retreat(r, h)
         /\ Consistent(r, h) <=> /\ Settings(h) = None => h.ids = {}
                                 /\ Settings(h) = "bootstrap" => "member" \notin h.ids
<1>1. Retreat(r, h)
  BY EmptyHas DEF Retreat
<1>2. \A text : EndsWith(r, h, text) <=> Settings(h) = text
  BY EmptyHas DEF EndsWith
<1>3. \A id : ~Has(Back(r), {Do("drop", id)})
  BY EmptyHas
<1> QED
  BY <1>1, <1>2, <1>3 DEF Consistent

LEMMA InstallerTyped ==
  ASSUME Inv
  PROVE  /\ host \in Hosts /\ Ours \in Runs /\ Ours.undo \in Seq(Steps) /\ Ours.todo \in Seq(Steps)
         /\ Ours.undo \in Seq(Backward) /\ (Ours.failing # "no" => Ours.todo \in Seq(Backward))
         /\ Ours.todo # <<>> => Head(Ours.todo) \in Steps /\ Tail(Ours.todo) \in Seq(Steps)
<1>1. "installer" \in Processes
  BY DEF Processes
<1>2. Backward \subseteq Steps
  BY DEF Backward, Steps
<1>3. /\ Ours \in Runs /\ Ours.undo \in Seq(Backward)
      /\ (Ours.failing # "no" => Ours.todo \in Seq(Backward))
      /\ (Ours.failing = "no" => Ours.todo \in Seq(Steps))
  BY <1>1, Ahead DEF Ours
<1>4. Ours.undo \in Seq(Steps) /\ Ours.todo \in Seq(Steps)
  BY <1>2, <1>3, SeqMonotone
<1>5. host \in Hosts
  BY DEF Inv, TypeOK
<1> QED
  BY <1>3, <1>4, <1>5, HeadTailProperties

-----------------------------------------------------------------------------
(* The way back of a configuration that is begun *)

(* Steps before a way back that put no file back and drop no account. *)
Elsewhere == Of("repath") \cup Of("reselect")

LEMMA ElsewhereAside ==
  ASSUME NEW b \in Seq(Elsewhere), NEW u \in Seq(Steps)
  PROVE  /\ b \in Seq(Steps) /\ b \o u \in Seq(Steps)
         /\ \A A : Has(b \o u, A) <=> Has(b, A) \/ Has(u, A)
         /\ \A A \in SUBSET (Putting \cup Drops) : Has(b \o u, A) <=> Has(u, A)
         /\ \A text : Has(b \o u, PuttingBack(text)) <=> Has(u, PuttingBack(text))
         /\ \A id \in Identities : Has(b \o u, {Do("drop", id)}) <=> Has(u, {Do("drop", id)})
         /\ \A e \in Putting : Has(b \o u, {e}) <=> Has(u, {e})
<1>1. Elsewhere \subseteq Steps /\ Elsewhere \cap (Putting \cup Drops) = {}
  BY DEF Elsewhere, Putting, Drops, Of
<1>2. b \in Seq(Steps)
  BY <1>1, SeqMonotone
<1>3. b \o u \in Seq(Steps) /\ \A A : Has(b \o u, A) <=> Has(b, A) \/ Has(u, A)
  BY <1>2, Joined, HasJoined
<1>4. \A A \in SUBSET (Putting \cup Drops) : ~Has(b, A)
  <2>1. ~Has(b, Putting \cup Drops)
    BY <1>1, HasNone
  <2> QED
    BY <2>1, HasMore
<1>5. \A A \in SUBSET (Putting \cup Drops) : Has(b \o u, A) <=> Has(u, A)
  BY <1>3, <1>4
<1>6. /\ \A text : PuttingBack(text) \in SUBSET (Putting \cup Drops)
      /\ \A id \in Identities : {Do("drop", id)} \in SUBSET (Putting \cup Drops)
      /\ \A e \in Putting : {e} \in SUBSET (Putting \cup Drops)
  BY StepKinds DEF PuttingBack
<1> QED
  BY <1>2, <1>3, <1>5, <1>6

LEMMA RetreatFarther ==
  ASSUME NEW r, NEW q, NEW h, r.failing = "no", q.failing = "no", r.undo \in Seq(Steps),
         NEW b \in Seq(Elsewhere), q.undo = b \o r.undo
  PROVE  /\ Retreat(r, h) => Retreat(q, h)
         /\ Consistent(r, h) => Consistent(q, h)
<1> DEFINE u == r.undo
           s == b \o u
<1>1. Back(r) = u /\ Back(q) = s
  BY DEF Back
<1>2. /\ b \in Seq(Steps) /\ u \in Seq(Steps) /\ s \in Seq(Steps)
      /\ \A A : Has(s, A) <=> Has(b, A) \/ Has(u, A)
      /\ \A A \in SUBSET (Putting \cup Drops) : Has(s, A) <=> Has(u, A)
      /\ \A text : Has(s, PuttingBack(text)) <=> Has(u, PuttingBack(text))
      /\ \A id \in Identities : Has(s, {Do("drop", id)}) <=> Has(u, {Do("drop", id)})
      /\ \A e \in Putting : Has(s, {e}) <=> Has(u, {e})
  BY ElsewhereAside
<1>3. /\ Has(s, Putting) <=> Has(u, Putting)
      /\ Has(s, Drops) <=> Has(u, Drops)
  BY <1>2
<1>4. /\ \A B \in {Putting, Drops, FullDrops} : ~Has(b, B)
      /\ \A A : /\ Before(b, A, Putting) /\ After(b, A, Drops) /\ After(b, A, FullDrops)
  <2>1. Elsewhere \cap Putting = {} /\ Elsewhere \cap Drops = {} /\ Elsewhere \cap FullDrops = {}
    BY DEF Elsewhere, Putting, Drops, FullDrops, Of
  <2> QED
    BY <2>1, HasNone
<1>5. \A i \in 1..Len(b) : b[i] \in Steps \ PuttingBack(None)
  BY ElementOfSeq DEF Elsewhere, Of, PuttingBack, Putting
<1> HIDE DEF s, u
<1>6. ASSUME Retreat(r, h)
      PROVE  Retreat(q, h)
  <2>1. /\ Before(u, Steps \ PuttingBack(None), Putting) /\ After(u, Putting, Drops)
        /\ After(u, PuttingBack(None), FullDrops)
        /\ Has(u, PuttingBack("full")) => ~Has(u, Drops)
        /\ \A e \in Putting : Has(u, {e}) /\ e.was # None => Wanted(e.was) \subseteq h.ids
    BY <1>1, <1>6 DEF Retreat
  <2>2. Before(s, Steps \ PuttingBack(None), Putting)
    BY <1>2, <1>4, <1>5, <2>1, BeforeJoined DEF s
  <2>3. After(s, Putting, Drops)
    BY <1>2, <1>4, <2>1, AfterJoined DEF s
  <2>4. After(s, PuttingBack(None), FullDrops)
    BY <1>2, <1>4, <2>1, AfterJoined DEF s
  <2> QED
    BY <1>1, <1>2, <1>3, <2>1, <2>2, <2>3, <2>4 DEF Retreat
<1>7. ASSUME Consistent(r, h)
      PROVE  Consistent(q, h)
  <2>1. \A text : EndsWith(q, h, text) <=> EndsWith(r, h, text)
    BY <1>1, <1>2, <1>3 DEF EndsWith
  <2>2. \A id : Has(u, {Do("drop", id)}) => Has(s, {Do("drop", id)})
    BY <1>2
  <2> QED
    BY <1>1, <1>7, <2>1, <2>2 DEF Consistent
<1> QED
  BY <1>6, <1>7

(* A command goes on with other than accounts, files and configurations. *)
LEMMA ProgressElsewhere ==
  ASSUME NEW r, NEW q, NEW h, NEW g, r.todo \in Seq(Steps), r.undo \in Seq(Steps), r.todo # <<>>,
         Ordered(r.op, r.todo), Progress(r, h),
         Head(r.todo) \notin Creates, Head(r.todo) \notin Writes, Head(r.todo) \notin Of("plan"),
         NEW s \in Seq(Steps), Ordered(r.op, s), s \in Seq(Bootstrapping), s \in Seq(Bystanding),
         s \in Seq(Unfinal(r.op)), ~Has(s, Creates), ~Has(s, Writes), ~Has(s, Of("plan")),
         q.todo = s \o Tail(r.todo), q.policy = r.policy, q.op = r.op,
         NEW b \in Seq(Elsewhere), q.undo = b \o r.undo, r.op \notin Lasting => ~Has(b, Of("repath")),
         g.ids = h.ids, g.files = h.files, h.selector # None => g.selector # None,
         Head(r.todo) \in Selecting => Has(s, Selecting) \/ g.selector # None
  PROVE  Ordered(q.op, q.todo) /\ Progress(q, g)
<1> DEFINE t == Tail(r.todo)
<1>1. /\ t \in Seq(Steps) /\ Ordered(r.op, t) /\ ~Has(t, Creates) /\ ~Has(t, Writes)
  BY OrderedTail, HeadTailProperties
<1>2. Ordered(q.op, q.todo)
  <2> DEFINE op == r.op
  <2>1. Ordered(op, t) /\ Ordered(op, s) /\ s \in Seq(Unfinal(op)) /\ q.op = op /\ q.todo = s \o t
    BY <1>1
  <2> HIDE DEF op, t
  <2>2. Ordered(op, s \o t)
    BY <1>1, <2>1, OrderedJoined
  <2> QED
    BY <2>1, <2>2
<1>3. \A A : Has(r.todo, A) <=> Head(r.todo) \in A \/ Has(t, A)
  BY HasTail
<1>4. \A A : Has(q.todo, A) <=> Has(s, A) \/ Has(t, A)
  <2>1. q.todo = s \o t
    OBVIOUS
  <2> HIDE DEF t
  <2>2. \A A : Has(s \o t, A) <=> Has(s, A) \/ Has(t, A)
    BY <1>1, HasJoined
  <2> QED
    BY <2>1, <2>2
<1>5. \A id \in Identities : ~Has(q.todo, {Do("create", id)}) /\ ~Has(r.todo, {Do("create", id)})
  <2> TAKE id \in Identities
  <2>1. {Do("create", id)} \subseteq Creates
    BY StepKinds
  <2>2. ~Has(s, {Do("create", id)}) /\ ~Has(t, {Do("create", id)}) /\ Head(r.todo) # Do("create", id)
    BY <1>1, <2>1, HasMore
  <2> QED
    BY <1>3, <1>4, <2>2
<1>6. ~Has(r.todo, {Do("file", "settings")})
  <2>1. {Do("file", "settings")} \subseteq Writes
    BY StepKinds, Nothing
  <2>2. ~Has(t, {Do("file", "settings")}) /\ Head(r.todo) # Do("file", "settings")
    BY <1>1, <2>1, HasMore
  <2> QED
    BY <1>3, <2>2
<1>7. r.policy # None
  BY DEF Progress
<1>8. /\ \A A : Has(q.undo, A) <=> Has(b, A) \/ Has(r.undo, A)
      /\ Has(q.undo, Putting) <=> Has(r.undo, Putting)
  BY ElsewhereAside
<1>9. Has(q.todo, Of("plan")) => Has(r.todo, Of("plan"))
  BY <1>3, <1>4
<1>10. r.op \in Lasting => Has(q.todo, Selecting) \/ g.selector # None
  BY <1>3, <1>4 DEF Progress
<1>11. Settings(g) = Settings(h)
  BY DEF Settings
<1> HIDE DEF t
<1>12. /\ r.op \notin Lasting => ~Has(q.undo, Of("repath"))
       /\ Has(q.undo, Putting)
  BY <1>7, <1>8 DEF Progress
<1>13. /\ \A id \in Wanted(r.policy) : id \in g.ids
       /\ Settings(g) = r.policy
       /\ r.policy = "bootstrap" => "member" \notin g.ids
  BY <1>5, <1>6, <1>7, <1>11, WantedTyped DEF Progress
<1>14. /\ Has(q.todo, Of("plan")) => r.policy = "bootstrap"
       /\ ~Has(q.todo, {Do("create", "member")})
  BY <1>5, <1>7, <1>9, Nothing DEF Progress
<1> QED
  BY <1>2, <1>5, <1>7, <1>10, <1>12, <1>13, <1>14 DEF Progress

-----------------------------------------------------------------------------
(* What a forward step does to the host *)

LEMMA DoneFields ==
  ASSUME host \in Hosts, NEW step \in Steps, NEW r
  PROVE  LET g == Done(step, r) IN
           /\ g.ids = IF step.do = "create" THEN host.ids \cup {step.on} ELSE host.ids
           /\ step.do # "file" => g.files = host.files
           /\ step.do = "file" => /\ step.on \in Files
                                  /\ g.files = [host.files EXCEPT ![step.on] = Rendered(step.on, r.policy)]
           /\ step.do # "entry" => g.entries = host.entries
           /\ step.do = "entry" => /\ step.on \in Entries
                                   /\ g.entries = [host.entries EXCEPT ![step.on] = "ours"]
           /\ g.selector = IF step.do = "activate" THEN step.on ELSE host.selector
<1> DEFINE g == Done(step, r)
<1>1. CASE step.do = "create"
  <2>1. g = [host EXCEPT !.ids = @ \cup {step.on}]
    BY <1>1 DEF Done
  <2> HIDE DEF g
  <2> QED
    BY <1>1, <2>1 DEF Hosts, g
<1>2. CASE step.do = "file"
  <2>1. g = [host EXCEPT !.files[step.on] = Rendered(step.on, r.policy)] /\ step.on \in Files
    BY <1>2 DEF Done, Steps
  <2> HIDE DEF g
  <2> QED
    BY <1>2, <2>1 DEF Hosts, g
<1>3. CASE step.do = "enable"
  <2>1. g = [host EXCEPT !.links = @ \cup {"persistent"}]
    BY <1>3 DEF Done
  <2> HIDE DEF g
  <2> QED
    BY <1>3, <2>1 DEF Hosts, g
<1>4. CASE step.do = "start"
  <2>1. g = [host EXCEPT !.active = TRUE]
    BY <1>4 DEF Done
  <2> HIDE DEF g
  <2> QED
    BY <1>4, <2>1 DEF Hosts, g
<1>5. CASE step.do = "entry"
  <2>1. g = [host EXCEPT !.entries[step.on] = "ours"] /\ step.on \in Entries
    BY <1>5 DEF Done, Steps
  <2> HIDE DEF g
  <2> QED
    BY <1>5, <2>1 DEF Hosts, g
<1>6. CASE step.do = "publish"
  <2>1. g = [host EXCEPT !.releases[step.on] = Artifact(r, step.on)]
    BY <1>6 DEF Done
  <2> HIDE DEF g
  <2> QED
    BY <1>6, <2>1 DEF Hosts, g
<1>7. CASE step.do = "activate"
  <2>1. g = [host EXCEPT !.selector = step.on]
    BY <1>7 DEF Done
  <2> HIDE DEF g
  <2> QED
    BY <1>7, <2>1 DEF Hosts, g
<1>8. CASE step.do = "initialize"
  <2>1. g = [host EXCEPT !.vpn = "managed"]
    BY <1>8 DEF Done
  <2> HIDE DEF g
  <2> QED
    BY <1>8, <2>1 DEF Hosts, g
<1>9. CASE step.do \notin {"create", "file", "enable", "start", "entry", "publish", "activate",
                           "initialize"}
  <2>1. g = host
    BY <1>9 DEF Done
  <2> HIDE DEF g
  <2> QED
    BY <1>9, <2>1 DEF g
<1> QED
  BY <1>1, <1>2, <1>3, <1>4, <1>5, <1>6, <1>7, <1>8, <1>9

(* installation.json is the policy's own text. *)
LEMMA SettingsDone ==
  ASSUME host \in Hosts, NEW step \in Steps, NEW r
  PROVE  Settings(Done(step, r)) =
           IF step = Do("file", "settings") THEN r.policy ELSE Settings(host)
<1> DEFINE g == Done(step, r)
<1>1. CASE step.do = "file"
  <2>1. /\ step.on \in Files /\ step = Do("file", step.on)
        /\ g.files = [host.files EXCEPT ![step.on] = Rendered(step.on, r.policy)]
    BY <1>1, DoneFields, StepFields DEF Writes, Of
  <2>2. Rendered("settings", r.policy) = r.policy
    BY DEF Rendered
  <2>3. step = Do("file", "settings") <=> step.on = "settings"
    BY <2>1, SameStep
  <2> HIDE DEF g
  <2>4. host.files \in [Files -> Contents]
    BY DEF Hosts
  <2> QED
    BY <2>1, <2>2, <2>3, <2>4, Nothing DEF Settings, g
<1>2. CASE step.do # "file"
  <2>1. g.files = host.files
    BY <1>2, DoneFields
  <2>2. step # Do("file", "settings")
    BY <1>2 DEF Do
  <2> HIDE DEF g
  <2> QED
    BY <2>1, <2>2 DEF Settings, g
<1> QED
  BY <1>1, <1>2

(* The step ahead leaves the way back as good as it was. *)
LEMMA DoneKeepsBack ==
  ASSUME host \in Hosts, NEW r, r.failing = "no", r.todo \in Seq(Steps), r.todo # <<>>,
         Ordered(r.op, r.todo), Progress(r, host)
  PROVE  LET g == Done(Head(r.todo), r) IN
           /\ Witnessed(host) => Witnessed(g)
           /\ Retreat(r, host) => Retreat(r, g)
           /\ Chosen(r, host) => Chosen(r, g)
           /\ Consistent(r, host) => Consistent(r, g)
<1> DEFINE step == Head(r.todo)
           t == Tail(r.todo)
           g == Done(step, r)
<1>1. step \in Steps /\ t \in Seq(Steps)
  BY HeadTailProperties
<1>2. \A A : Has(r.todo, A) <=> step \in A \/ Has(t, A)
  BY HasTail
<1>3. host.ids \subseteq g.ids /\ \A id \in g.ids : id \in host.ids \/ step = Do("create", id)
  <2>1. g.ids = IF step.do = "create" THEN host.ids \cup {step.on} ELSE host.ids
    BY <1>1, DoneFields
  <2>2. step.do = "create" => step = Do("create", step.on)
    BY <1>1, StepFields DEF Creates, Of
  <2> HIDE DEF g, step
  <2> QED
    BY <2>1, <2>2
<1>4. Settings(g) = IF step = Do("file", "settings") THEN r.policy ELSE Settings(host)
  BY <1>1, SettingsDone
<1>5. Has(t, Creates) => step \in Creates
  BY OrderedTail
<1>6. Do("file", "settings") \notin Creates /\ Do("file", "settings") \notin Of("plan")
      /\ \A id : Do("create", id) \notin Of("plan")
  BY DEF Creates, Of, Do
<1>7. r.policy = None => step \in Of("plan")
  BY DEF Progress
<1>8. step = Do("file", "settings") => Wanted(r.policy) \subseteq host.ids /\ r.policy # None
  <2> SUFFICES ASSUME step = Do("file", "settings")
               PROVE  Wanted(r.policy) \subseteq host.ids /\ r.policy # None
    OBVIOUS
  <2>1. r.policy # None /\ step \notin Creates /\ ~Has(t, Creates)
    BY <1>5, <1>6, <1>7
  <2>2. ASSUME NEW id \in Wanted(r.policy)
        PROVE  id \in host.ids
    <3>1. {Do("create", id)} \subseteq Creates
      BY StepKinds, WantedTyped
    <3>2. ~Has(t, {Do("create", id)}) /\ step # Do("create", id)
      BY <2>1, <3>1, HasMore
    <3>3. ~Has(r.todo, {Do("create", id)})
      BY <1>2, <3>2
    <3> QED
      BY <2>1, <3>3 DEF Progress
  <2> QED
    BY <2>1, <2>2
<1>9. Back(r) = r.undo
  BY DEF Back
<1>10. g.selector = None => host.selector = None
  <2>1. g.selector = IF step.do = "activate" THEN step.on ELSE host.selector
    BY <1>1, DoneFields
  <2>2. step.do = "activate" => step.on \in Versions
    BY <1>1 DEF Steps
  <2> HIDE DEF g, step
  <2> QED
    BY <2>1, <2>2, Values
<1>11. \A e \in Entries : g.entries[e] # None => host.entries[e] # None \/ step = Do("entry", e)
  <2>1. /\ step.do # "entry" => g.entries = host.entries
        /\ step.do = "entry" => /\ step.on \in Entries
                                /\ g.entries = [host.entries EXCEPT ![step.on] = "ours"]
    BY <1>1, DoneFields
  <2>2. step.do = "entry" => step = Do("entry", step.on)
    BY <1>1, StepFields DEF Of
  <2>3. host.entries \in [Entries -> {None, "was", "ours"}]
    BY DEF Hosts
  <2> HIDE DEF g, step
  <2> QED
    BY <2>1, <2>2, <2>3
<1> HIDE DEF g, t
<1>12. Witnessed(host) => Witnessed(g)
  BY <1>3, <1>4, <1>8 DEF Witnessed
<1>13. Retreat(r, host) => Retreat(r, g)
  <2> SUFFICES ASSUME Retreat(r, host) PROVE Retreat(r, g)
    OBVIOUS
  <2>1. \A e \in Putting : Has(r.undo, {e}) /\ e.was # None => Wanted(e.was) \subseteq g.ids
    BY <1>3, <1>9 DEF Retreat
  <2> QED
    BY <1>9, <2>1 DEF Retreat
<1>14. Chosen(r, host) => Chosen(r, g)
  <2> SUFFICES ASSUME Chosen(r, host), g.selector = None PROVE Chosen(r, g)
    BY DEF Chosen
  <2>1. host.selector = None
    BY <1>10
  <2>2. \A e \in Entries : step = Do("entry", e) => Has(r.todo, {Do("entry", e)})
    BY <1>2
  <2>3. \A e \in Entries : g.entries[e] # None => Has(r.undo, {Redo("repath", e, None)})
    BY <1>9, <1>11, <2>1, <2>2 DEF Chosen
  <2> QED
    BY <1>9, <2>1, <2>3 DEF Chosen
<1>15. Consistent(r, host) => Consistent(r, g)
  <2> SUFFICES ASSUME Consistent(r, host) PROVE Consistent(r, g)
    OBVIOUS
  <2>1. \A text : EndsWith(r, g, text) => EndsWith(r, host, text)
    <3>1. CASE r.policy = None
      <4>1. step \in Of("plan")
        BY <1>7, <3>1
      <4>2. Settings(g) = Settings(host)
        BY <1>4, <1>6, <4>1
      <4> QED
        BY <4>2 DEF EndsWith
    <3>2. CASE r.policy # None
      <4>1. Has(r.undo, Putting)
        BY <3>2 DEF Progress
      <4> QED
        BY <1>9, <4>1 DEF EndsWith
    <3> QED
      BY <3>1, <3>2
  <2>2. ASSUME NEW id \in Identities, step = Do("create", id)
        PROVE  Has(r.undo, {Do("drop", id)})
    <3>1. Has(r.todo, {Do("create", id)})
      BY <1>2, <2>2
    <3> QED
      BY <3>1 DEF Progress
  <2>3. \A id : step = Do("create", id) => id \in Identities
    BY <1>1, StepFields DEF Creates, Of, Do
  <2> QED
    BY <1>3, <1>9, <2>1, <2>2, <2>3 DEF Consistent
<1> QED
  BY <1>12, <1>13, <1>14, <1>15 DEF g

(* What a failure no longer takes back is complete by then. *)
LEMMA StopsComplete ==
  ASSUME NEW r, NEW h, r.failing = "no", r.todo \in Seq(Steps), r.todo # <<>>,
         Ordered(r.op, r.todo), Progress(r, h), r.policy # None,
         \/ Head(r.todo) \in Of("initialize") \cup Of("health")
         \/ Head(r.todo) = Do("plan", "full") /\ r.op \in {"install", "adopt"}
  PROVE  /\ Settings(h) = r.policy /\ (r.policy = "bootstrap" => "member" \notin h.ids)
         /\ h.selector # None
<1> DEFINE step == Head(r.todo)
           t == Tail(r.todo)
<1>1. step \in Steps /\ \A A : Has(r.todo, A) <=> step \in A \/ Has(t, A)
  BY HasTail, HeadTailProperties
<1>2. /\ Has(t, Writes) => step \in Creates \cup Writes
      /\ Has(t, Selecting) => step \in Unfinal(r.op)
  BY OrderedTail
<1> HIDE DEF step, t
<1>3. step \notin Creates \cup Writes /\ step \notin Unfinal(r.op) /\ step \notin Selecting
  BY DEF step, Creates, Writes, Unfinal, Selecting, Of, Do
<1>4. ~Has(r.todo, {Do("file", "settings")})
  <2>1. {Do("file", "settings")} \subseteq Writes
    BY StepKinds, Nothing
  <2>2. ~Has(t, {Do("file", "settings")}) /\ step # Do("file", "settings")
    BY <1>2, <1>3, <2>1, HasMore
  <2> QED
    BY <1>1, <2>2
<1>5. ~Has(r.todo, Selecting)
  BY <1>1, <1>2, <1>3
<1>6. r.op \in Lasting
  <2>1. CASE step \in Of("initialize") \cup Of("health")
    BY <1>1, <2>1 DEF Ordered
  <2>2. CASE r.op \in {"install", "adopt"}
    BY <2>2 DEF Lasting
  <2> QED
    BY <2>1, <2>2 DEF step
<1> QED
  BY <1>4, <1>5, <1>6 DEF Progress

LEMMA StopsKeeps ==
  ASSUME NEW r, NEW q, NEW h, NEW g, r.failing = "no", r.todo \in Seq(Steps), r.todo # <<>>,
         Ordered(r.op, r.todo), Progress(r, h), q.failing = "yes",
         \/ q.todo = r.undo
         \/ /\ q.todo = <<>> /\ r.policy # None /\ g.ids = h.ids /\ Settings(g) = Settings(h)
            /\ h.selector # None => g.selector # None
            /\ \/ Head(r.todo) \in Of("initialize") \cup Of("health")
               \/ Head(r.todo) = Do("plan", "full") /\ r.op \in {"install", "adopt"}
  PROVE  /\ Retreat(r, g) => Retreat(q, g)
         /\ Chosen(r, g) => Chosen(q, g)
         /\ Consistent(r, g) => Consistent(q, g)
<1>1. CASE q.todo = r.undo
  <2>1. Back(q) = r.undo /\ Back(r) = r.undo
    BY <1>1 DEF Back
  <2>2. Retreat(r, g) => Retreat(q, g)
    BY <2>1 DEF Retreat
  <2>3. Chosen(r, g) => Chosen(q, g)
    BY <2>1 DEF Chosen
  <2>4. Consistent(r, g) => Consistent(q, g)
    BY <2>1 DEF Consistent, EndsWith
  <2> QED
    BY <2>2, <2>3, <2>4
<1>2. CASE q.todo # r.undo
  <2>1. Back(q) = <<>>
    BY <1>2 DEF Back
  <2>2. /\ Settings(g) = r.policy /\ (r.policy = "bootstrap" => "member" \notin g.ids)
        /\ g.selector # None /\ r.policy # None
    BY <1>2, StopsComplete
  <2>3. Retreat(q, g) /\ Consistent(q, g)
    BY <2>1, <2>2, NothingBack
  <2>4. Chosen(q, g)
    BY <2>2 DEF Chosen
  <2> QED
    BY <2>3, <2>4
<1> QED
  BY <1>1, <1>2

(* A step of install.py, and the host it leaves. *)
LEMMA OursOnly ==
  ASSUME Inv, NEW r, run' = [run EXCEPT !["installer"] = r]
  PROVE  /\ Ours' = r /\ Theirs' = Theirs
         /\ spoiled' = spoiled /\ Ours.failing # "badly" =>
              (Excused => Excused') /\ (Abandoned => Abandoned')
<1>1. run \in [Processes -> Runs] /\ "installer" \in Processes /\ "manager" \in Processes
  BY DEF Inv, TypeOK, Processes
<1>2. Ours' = r /\ Theirs' = Theirs
  BY <1>1 DEF Ours, Theirs
<1>3. \A p \in Processes : p # "installer" => run'[p] = run[p]
  BY <1>1
<1>4. Ours.failing # "badly" => (Broken => Broken')
  BY <1>3 DEF Broken, Ours
<1> QED
  BY <1>2, <1>4 DEF Excused, Abandoned

LEMMA OursBegin ==
  ASSUME Inv, BoundaryInv, NEW op \in {"configure"} \cup Lasting, NEW flag,
         NEW version \in Offered, Begin("installer", op, flag, version)
  PROVE  BoundaryInv'
<1> DEFINE first == Started(op, flag, version)
           lonely == (Theirs = Idle)
<1>1. /\ Ours = Idle /\ host' = host /\ spoiled' = spoiled
      /\ run' = [q \in Processes |-> IF q = "installer" THEN first
                                    ELSE [run[q] EXCEPT !.alone = (run[q] = Idle)]]
  BY DEF Begin, Ours
<1>2. run \in [Processes -> Runs] /\ Processes = {"installer", "manager"}
  BY DEF Inv, TypeOK, Processes
<1>3. first.op = op /\ first.todo = Program(op, version) /\ first.undo = <<>> /\ first.policy = None
      /\ first.failing = "no"
  BY DEF Started
<1> HIDE DEF first
<1>4. Ours' = first /\ Theirs' = [Theirs EXCEPT !.alone = lonely]
  BY <1>1, <1>2 DEF Ours, Theirs
<1> HIDE DEF lonely
<1>5. /\ Theirs'.todo = Theirs.todo /\ Theirs'.undo = Theirs.undo /\ Theirs'.op = Theirs.op
      /\ Theirs'.failing = Theirs.failing
  <2>1. Theirs \in Runs
    BY <1>2 DEF Theirs
  <2> QED
    BY <1>4, <2>1 DEF Runs
<1>6. ManagerInv'
  BY <1>5 DEF BoundaryInv, ManagerInv
<1>7. Begins(op, Program(op, version)) /\ (op \in Lasting => Has(Program(op, version), Selecting))
  BY ProgramBegins
<1>8. /\ Ours.todo = <<>> /\ Ours.undo = <<>> /\ Ours.failing = "no"
  BY <1>1, IdleTyped
<1>9. Ordered(first.op, first.todo) /\ Progress(first, host)
  <2>1. \A id \in Identities : ~Has(first.todo, {Do("create", id)})
    <3> TAKE id \in Identities
    <3>1. {Do("create", id)} \subseteq Creates
      BY StepKinds
    <3> QED
      BY <1>3, <1>7, <3>1, HasMore DEF Begins
  <2>2. ~Has(<<>>, Of("repath"))
    BY EmptyHas
  <2> QED
    BY <1>3, <1>7, <2>1, <2>2 DEF Begins, Progress
<1>10. (Excused => Excused') /\ (Abandoned => Abandoned')
  <2>1. Broken => Theirs.failing = "badly"
    BY <1>2, <1>8 DEF Broken, Ours, Theirs
  <2>2. Theirs'.failing = "badly" => Broken'
    BY <1>2 DEF Broken, Theirs
  <2> QED
    BY <1>1, <1>5, <2>1, <2>2 DEF Excused, Abandoned
<1>11. Back(Ours) = <<>> /\ Back(first) = <<>>
  BY <1>3, <1>8 DEF Back
<1>12. Retreat(first, host)
  BY <1>11, NothingBack
<1>13. Consistent(Ours, host) => Consistent(first, host)
  BY <1>11, NothingBack
<1>14. Chosen(Ours, host) => Chosen(first, host)
  <2>1. \A e \in Entries : ~Has(first.todo, {Do("entry", e)})
    <3> TAKE e \in Entries
    <3>1. {Do("entry", e)} \subseteq Of("entry")
      BY StepKinds
    <3> QED
      BY <1>3, <1>7, <3>1, HasMore DEF Begins
  <2>2. ~Has(<<>>, Of("repath"))
    BY EmptyHas
  <2> QED
    BY <1>3, <1>11, <2>1, <2>2 DEF Chosen
<1>15. OursInv'
  BY <1>1, <1>3, <1>4, <1>9, <1>10, <1>12, <1>13, <1>14 DEF BoundaryInv, OursInv
<1> QED
  BY <1>6, <1>15 DEF BoundaryInv

-----------------------------------------------------------------------------
(* One step of install.py *)

(* One step of install.py leaves BoundaryInv true when its parts are. *)
LEMMA OursTo ==
  ASSUME Inv, BoundaryInv, Ours.failing # "badly", NEW q, run' = [run EXCEPT !["installer"] = q],
         spoiled' = spoiled,
         q.failing = "no" => Ordered(q.op, q.todo) /\ Progress(q, host'),
         ~Excused => Witnessed(host') /\ Retreat(q, host'),
         ~Abandoned => Chosen(q, host') /\ Consistent(q, host')
  PROVE  BoundaryInv'
<1>1. /\ Ours' = q /\ Theirs' = Theirs
      /\ (Excused => Excused') /\ (Abandoned => Abandoned')
  BY OursOnly
<1>2. ManagerInv'
  BY <1>1 DEF BoundaryInv, ManagerInv
<1>3. OursInv'
  BY <1>1 DEF OursInv
<1> QED
  BY <1>2, <1>3 DEF BoundaryInv

LEMMA OursContinues ==
  ASSUME Inv, NEW s \in Seq(Steps), NEW b \in Seq(Steps), Ours.todo # <<>>, Continue("installer", s, b)
  PROVE  \E q : /\ run' = [run EXCEPT !["installer"] = q] /\ spoiled' = spoiled
                /\ q.todo = s \o Tail(Ours.todo) /\ q.undo = b
                /\ q.op = Ours.op /\ q.policy = Ours.policy /\ q.failing = Ours.failing
<1> DEFINE t == s \o Tail(Ours.todo)
           q == [Ours EXCEPT !.todo = t, !.undo = b]
<1>1. run \in [Processes -> Runs] /\ "installer" \in Processes /\ Ours \in Runs
  BY InstallerTyped DEF Inv, TypeOK, Processes
<1>2. run' = [run EXCEPT !["installer"] = q]
  BY <1>1 DEF Continue, Ours
<1> HIDE DEF t
<1>3. /\ q.todo = t /\ q.undo = b /\ q.op = Ours.op /\ q.policy = Ours.policy /\ q.failing = Ours.failing
  BY <1>1 DEF Runs
<1>4. spoiled' = spoiled
  BY DEF Continue, history
<1> HIDE DEF q
<1> QED
  BY <1>2, <1>3, <1>4 DEF t

Placing == Of("stage") \cup Of("publish") \cup Of("activate")

LEMMA PlacingLoose ==
  ASSUME NEW op, NEW s \in Seq(Placing)
  PROVE  /\ Ordered(op, s) /\ s \in Seq(Bootstrapping) /\ s \in Seq(Bystanding)
         /\ s \in Seq(Unfinal(op)) /\ s \in Seq(Steps)
         /\ ~Has(s, Creates) /\ ~Has(s, Writes) /\ ~Has(s, Of("plan"))
         /\ ~Has(s, Of("entry")) /\ ~Has(s, Of("snapshot"))
<1>1. Placing \subseteq Loose(op) /\ Placing \subseteq Steps
  BY DEF Placing, Loose, Unfinal, Of
<1>2. /\ Placing \cap Creates = {} /\ Placing \cap Writes = {} /\ Placing \cap Of("plan") = {}
      /\ Placing \cap Of("entry") = {} /\ Placing \cap Of("snapshot") = {}
  BY DEF Placing, Creates, Writes, Of
<1>3. s \in Seq(Loose(op)) /\ s \in Seq(Steps)
  BY <1>1, SeqMonotone
<1> QED
  BY <1>2, <1>3, LooseOrdered, HasNone

(* A step that concerns neither accounts, files nor the entry points to take back. *)
LEMMA OursElsewhere ==
  ASSUME Inv, BoundaryInv, Ours.failing = "no", Ours.todo # <<>>,
         Head(Ours.todo) \notin Creates, Head(Ours.todo) \notin Writes, Head(Ours.todo) \notin Of("plan"),
         NEW s \in Seq(Placing), NEW b \in Seq(Of("reselect")), Continue("installer", s, b \o Ours.undo),
         host'.ids = host.ids, host'.files = host.files,
         host.selector # None => host'.selector # None,
         Head(Ours.todo) \in Selecting => Has(s, Selecting) \/ host'.selector # None,
         Witnessed(host) => Witnessed(host'), Retreat(Ours, host) => Retreat(Ours, host'),
         Chosen(Ours, host) => Chosen(Ours, host'), Consistent(Ours, host) => Consistent(Ours, host')
  PROVE  BoundaryInv'
<1>1. /\ Ours.undo \in Seq(Steps) /\ Ours.todo \in Seq(Steps) /\ Tail(Ours.todo) \in Seq(Steps)
      /\ Ordered(Ours.op, Ours.todo) /\ Progress(Ours, host)
  BY InstallerTyped DEF BoundaryInv, OursInv
<1>2. b \in Seq(Elsewhere) /\ b \in Seq(Steps) /\ ~Has(b, Of("repath"))
  <2>1. Of("reselect") \subseteq Elsewhere /\ Of("reselect") \subseteq Steps
        /\ Of("reselect") \cap Of("repath") = {}
    BY DEF Elsewhere, Of
  <2> QED
    BY <2>1, SeqMonotone, HasNone
<1>3. s \in Seq(Steps) /\ b \o Ours.undo \in Seq(Steps)
  BY <1>1, <1>2, PlacingLoose, Joined
<1>4. PICK q : /\ run' = [run EXCEPT !["installer"] = q] /\ spoiled' = spoiled
               /\ q.todo = s \o Tail(Ours.todo) /\ q.undo = b \o Ours.undo
               /\ q.op = Ours.op /\ q.policy = Ours.policy /\ q.failing = Ours.failing
  BY <1>3, OursContinues
<1>5. Ordered(q.op, q.todo) /\ Progress(q, host')
  <2> DEFINE r == Ours
             g == host'
  <2>1. /\ Ordered(r.op, s) /\ s \in Seq(Bootstrapping) /\ s \in Seq(Bystanding)
        /\ s \in Seq(Unfinal(r.op)) /\ s \in Seq(Steps)
        /\ ~Has(s, Creates) /\ ~Has(s, Writes) /\ ~Has(s, Of("plan"))
    BY PlacingLoose
  <2>2. /\ r.todo \in Seq(Steps) /\ r.undo \in Seq(Steps) /\ r.todo # <<>>
        /\ Ordered(r.op, r.todo) /\ Progress(r, host)
        /\ Head(r.todo) \notin Creates /\ Head(r.todo) \notin Writes /\ Head(r.todo) \notin Of("plan")
        /\ q.todo = s \o Tail(r.todo) /\ q.policy = r.policy /\ q.op = r.op
        /\ q.undo = b \o r.undo
        /\ g.ids = host.ids /\ g.files = host.files /\ (host.selector # None => g.selector # None)
        /\ Head(r.todo) \in Selecting => Has(s, Selecting) \/ g.selector # None
    BY <1>1, <1>4
  <2> HIDE DEF r, g
  <2>3. Ordered(q.op, q.todo) /\ Progress(q, g)
    BY <1>2, <2>1, <2>2, ProgressElsewhere
  <2> QED
    BY <2>3 DEF g
<1>6. Retreat(Ours, host) => Retreat(q, host')
  BY <1>1, <1>2, <1>4, RetreatFarther
<1>7. Consistent(Ours, host) => Consistent(q, host')
  BY <1>1, <1>2, <1>4, RetreatFarther
<1>8. /\ \A A : Has(q.undo, A) <=> Has(b, A) \/ Has(Ours.undo, A)
      /\ \A A : Has(q.todo, A) <=> Has(s, A) \/ Has(Tail(Ours.todo), A)
      /\ \A A : Has(Ours.todo, A) <=> Head(Ours.todo) \in A \/ Has(Tail(Ours.todo), A)
  <2>1. \A A : Has(b \o Ours.undo, A) <=> Has(b, A) \/ Has(Ours.undo, A)
    BY <1>1, <1>2, HasJoined
  <2>2. \A A : Has(s \o Tail(Ours.todo), A) <=> Has(s, A) \/ Has(Tail(Ours.todo), A)
    BY <1>1, <1>3, HasJoined
  <2> QED
    BY <1>1, <1>4, <2>1, <2>2, HasTail
<1>9. Chosen(Ours, host) => Chosen(q, host')
  <2> SUFFICES ASSUME Chosen(Ours, host'), host'.selector = None PROVE Chosen(q, host')
    BY DEF Chosen
  <2>1. Back(Ours) = Ours.undo /\ Back(q) = q.undo
    BY <1>4 DEF Back
  <2>2. \A e \in Of("repath") : ~Has(b, {e})
    <3>1. \A e \in Of("repath") : {e} \subseteq Of("repath")
      OBVIOUS
    <3> QED
      BY <1>2, <3>1, HasMore
  <2>3. \A e \in Entries : ~Has(s, {Do("entry", e)})
    <3> TAKE e \in Entries
    <3>1. {Do("entry", e)} \subseteq Of("entry")
      BY StepKinds
    <3> QED
      BY <3>1, PlacingLoose, HasMore
  <2>4. ~Has(s, Of("snapshot"))
    BY PlacingLoose
  <2>5. /\ \A e \in Entries : host'.entries[e] # None => Has(q.undo, {Redo("repath", e, None)})
        /\ \A e \in Entries : Has(q.todo, {Do("entry", e)}) => Has(q.undo, {Redo("repath", e, None)})
    BY <1>8, <2>1, <2>3 DEF Chosen
  <2>6. /\ \A e \in Of("repath") : Has(q.undo, {e}) => e.was = None
        /\ Has(q.todo, Of("snapshot")) => ~Has(q.undo, Of("repath"))
    BY <1>2, <1>8, <2>1, <2>2, <2>4 DEF Chosen
  <2> QED
    BY <2>1, <2>5, <2>6 DEF Chosen
<1>10. /\ ~Excused => Witnessed(host') /\ Retreat(q, host')
       /\ ~Abandoned => Chosen(q, host') /\ Consistent(q, host')
  BY <1>6, <1>7, <1>9 DEF BoundaryInv, OursInv
<1> QED
  BY <1>4, <1>5, <1>10, OursTo

LEMMA PlacingKinds ==
  ASSUME NEW v \in Versions
  PROVE  /\ <<Do("stage", v), Do("publish", v)>> \in Seq(Placing)
         /\ <<Do("activate", v)>> \in Seq(Placing) /\ Has(<<Do("activate", v)>>, Selecting)
         /\ Reselect(v) \in Seq(Of("reselect"))
<1>1. /\ Do("stage", v) \in Placing /\ Do("publish", v) \in Placing /\ Do("activate", v) \in Placing
      /\ Do("activate", v) \in Selecting /\ Do("reselect", v) \in Of("reselect")
  BY StepKinds DEF Placing, Selecting
<1> QED
  BY <1>1, HasOne DEF Reselect

LEMMA OursSelect ==
  ASSUME Inv, BoundaryInv, Select("installer")
  PROVE  BoundaryInv'
<1> DEFINE import == host.selector = "plain" /\ host.releases["legacy-import"] = None
           s == IF import
                THEN <<Do("stage", "legacy-import"), Do("publish", "legacy-import")>> ELSE <<>>
           b == IF host.selector = None \/ import THEN <<>> ELSE Reselect(Product(host))
<1>1. /\ host' = host /\ Ours.failing = "no" /\ Ours.todo # <<>> /\ Head(Ours.todo).do = "select"
      /\ Continue("installer", s, b \o Ours.undo)
  BY DEF Select, Ready, At, Now, Ours
<1>2. "legacy-import" \in Versions /\ host \in Hosts
  BY InstallerTyped DEF Versions
<1>3. s \in Seq(Placing)
  BY <1>2, PlacingKinds, EmptyTyped
<1>4. b \in Seq(Of("reselect"))
  <2>1. host.selector # None => Product(host) \in Versions
    BY <1>2 DEF Product, Hosts
  <2> QED
    BY <2>1, PlacingKinds, EmptyTyped
<1>5. /\ Head(Ours.todo) \notin Creates /\ Head(Ours.todo) \notin Writes
      /\ Head(Ours.todo) \notin Of("plan") /\ Head(Ours.todo) \notin Selecting
  BY <1>1 DEF Creates, Writes, Of, Selecting
<1> HIDE DEF s, b
<1> QED
  BY <1>1, <1>3, <1>4, <1>5, OursElsewhere

LEMMA OursRelease ==
  ASSUME Inv, BoundaryInv, Release("installer")
  PROVE  BoundaryInv'
<1> DEFINE v == Head(Ours.todo).on
           p == IF host.releases[v] = None THEN <<Do("stage", v), Do("publish", v)>> ELSE <<>>
           a == <<Do("activate", v)>>
           s == p \o a
<1>1. /\ host' = host /\ Ours.failing = "no" /\ Ours.todo # <<>> /\ Head(Ours.todo).do = "release"
      /\ Continue("installer", s, Ours.undo)
  BY DEF Release, Ready, At, Now, Ours
<1>2. v \in Versions /\ Ours.undo \in Seq(Steps)
  BY <1>1, InstallerTyped DEF Steps
<1>3. p \in Seq(Placing) /\ a \in Seq(Placing) /\ Has(a, Selecting)
  BY <1>2, PlacingKinds, EmptyTyped
<1>4. /\ Head(Ours.todo) \notin Creates /\ Head(Ours.todo) \notin Writes
      /\ Head(Ours.todo) \notin Of("plan")
  BY <1>1 DEF Creates, Writes, Of
<1> HIDE DEF v, p, a
<1>5. s \in Seq(Placing) /\ Has(s, Selecting)
  BY <1>3, Joined, HasJoined
<1> HIDE DEF s
<1>6. <<>> \in Seq(Of("reselect")) /\ <<>> \o Ours.undo = Ours.undo
  BY <1>2, EmptyTyped, ConcatEmptySeq
<1>7. Continue("installer", s, <<>> \o Ours.undo)
  BY <1>1, <1>6
<1> QED
  BY <1>1, <1>4, <1>5, <1>6, <1>7, OursElsewhere

EntrySteps == [i \in 1..5 |-> Do("entry", EntryOrder[i])]

LEMMA EntryStepsLoose ==
  ASSUME NEW op
  PROVE  /\ EntrySteps \in Seq(Steps) /\ Ordered(op, EntrySteps)
         /\ EntrySteps \in Seq(Bootstrapping) /\ EntrySteps \in Seq(Bystanding)
         /\ EntrySteps \in Seq(Unfinal(op))
         /\ ~Has(EntrySteps, Creates) /\ ~Has(EntrySteps, Writes) /\ ~Has(EntrySteps, Of("plan"))
         /\ ~Has(EntrySteps, Of("snapshot"))
<1>1. \A i \in 1..5 : EntryOrder[i] \in Entries
  BY DEF EntryOrder, Entries
<1>2. \A i \in 1..5 : Do("entry", EntryOrder[i]) \in Of("entry")
  BY <1>1, StepKinds
<1>3. EntrySteps \in Seq(Of("entry"))
  BY <1>2, SeqDef DEF EntrySteps
<1>4. Of("entry") \subseteq Loose(op) /\ Of("entry") \subseteq Steps
  BY DEF Loose, Unfinal, Of
<1>5. /\ Of("entry") \cap Creates = {} /\ Of("entry") \cap Writes = {} /\ Of("entry") \cap Of("plan") = {}
      /\ Of("entry") \cap Of("snapshot") = {}
  BY DEF Creates, Writes, Of
<1>6. EntrySteps \in Seq(Loose(op)) /\ EntrySteps \in Seq(Steps)
  BY <1>3, <1>4, SeqMonotone
<1> QED
  BY <1>3, <1>5, <1>6, LooseOrdered, HasNone

LEMMA OursSnapshot ==
  ASSUME Inv, BoundaryInv, Snapshot("installer")
  PROVE  BoundaryInv'
<1> DEFINE s == EntrySteps
           b == EntryUndo
<1>1. /\ host' = host /\ Ours.failing = "no" /\ Ours.todo # <<>> /\ Head(Ours.todo).do = "snapshot"
      /\ Continue("installer", s, b \o Ours.undo)
  BY DEF Snapshot, Ready, At, Now, Ours, EntrySteps
<1>2. /\ Ours.undo \in Seq(Steps) /\ Ours.todo \in Seq(Steps) /\ Tail(Ours.todo) \in Seq(Steps)
      /\ Head(Ours.todo) \in Steps /\ host \in Hosts
      /\ Ordered(Ours.op, Ours.todo) /\ Progress(Ours, host)
  BY <1>1, InstallerTyped DEF BoundaryInv, OursInv
<1>3. /\ b \in Seq(Of("repath"))
      /\ \A e \in Entries : Has(b, {Redo("repath", e, host.entries[e])})
      /\ \A e : Has(b, {e}) => e.was = host.entries[e.on]
  BY <1>2, EntryUndoShape
<1> HIDE DEF b
<1>4. b \in Seq(Elsewhere) /\ b \in Seq(Steps)
  <2>1. Of("repath") \subseteq Elsewhere /\ Of("repath") \subseteq Steps
    BY DEF Elsewhere, Of
  <2> QED
    BY <1>3, <2>1, SeqMonotone
<1>5. s \in Seq(Steps) /\ b \o Ours.undo \in Seq(Steps)
  BY <1>2, <1>4, EntryStepsLoose, Joined
<1>6. /\ \A A : Has(Ours.todo, A) <=> Head(Ours.todo) \in A \/ Has(Tail(Ours.todo), A)
      /\ Head(Ours.todo) \in Of("snapshot") /\ ~Has(Tail(Ours.todo), Of("snapshot"))
  <2>1. Head(Ours.todo) \in Of("snapshot") /\ Head(Ours.todo) \notin Bystanding
    BY <1>1, <1>2 DEF Of, Bystanding
  <2> QED
    BY <1>1, <1>2, <2>1, HasTail, OrderedTail
<1>7. Ours.op \in Lasting
  BY <1>2, <1>6 DEF Ordered
<1> HIDE DEF s
<1>8. PICK q : /\ run' = [run EXCEPT !["installer"] = q] /\ spoiled' = spoiled
               /\ q.todo = s \o Tail(Ours.todo) /\ q.undo = b \o Ours.undo
               /\ q.op = Ours.op /\ q.policy = Ours.policy /\ q.failing = Ours.failing
  BY <1>1, <1>5, OursContinues
<1>9. Ordered(q.op, q.todo) /\ Progress(q, host')
  <2> DEFINE r == Ours
             g == host'
  <2>1. /\ Ordered(r.op, s) /\ s \in Seq(Bootstrapping) /\ s \in Seq(Bystanding)
        /\ s \in Seq(Unfinal(r.op)) /\ s \in Seq(Steps)
        /\ ~Has(s, Creates) /\ ~Has(s, Writes) /\ ~Has(s, Of("plan"))
    BY EntryStepsLoose DEF s
  <2>2. /\ Head(Ours.todo) \notin Creates /\ Head(Ours.todo) \notin Writes
        /\ Head(Ours.todo) \notin Of("plan") /\ Head(Ours.todo) \notin Selecting
    BY <1>1 DEF Creates, Writes, Of, Selecting
  <2>3. /\ r.todo \in Seq(Steps) /\ r.undo \in Seq(Steps) /\ r.todo # <<>>
        /\ Ordered(r.op, r.todo) /\ Progress(r, host)
        /\ Head(r.todo) \notin Creates /\ Head(r.todo) \notin Writes /\ Head(r.todo) \notin Of("plan")
        /\ q.todo = s \o Tail(r.todo) /\ q.policy = r.policy /\ q.op = r.op
        /\ q.undo = b \o r.undo
        /\ g.ids = host.ids /\ g.files = host.files /\ (host.selector # None => g.selector # None)
        /\ Head(r.todo) \in Selecting => Has(s, Selecting) \/ g.selector # None
        /\ r.op \notin Lasting => ~Has(b, Of("repath"))
    BY <1>1, <1>2, <1>7, <1>8, <2>2
  <2> HIDE DEF r, g
  <2>4. Ordered(q.op, q.todo) /\ Progress(q, g)
    BY <1>4, <2>1, <2>3, ProgressElsewhere
  <2> QED
    BY <2>4 DEF g
<1>10. Retreat(Ours, host) => Retreat(q, host')
  BY <1>1, <1>2, <1>4, <1>8, RetreatFarther
<1>11. Consistent(Ours, host) => Consistent(q, host')
  BY <1>1, <1>2, <1>4, <1>8, RetreatFarther
<1>12. Chosen(Ours, host) => Chosen(q, host')
  <2> SUFFICES ASSUME Chosen(Ours, host), host.selector = None PROVE Chosen(q, host)
    BY <1>1 DEF Chosen
  <2>1. Back(Ours) = Ours.undo /\ Back(q) = q.undo
    BY <1>1, <1>8 DEF Back
  <2>2. \A A : Has(q.undo, A) <=> Has(b, A) \/ Has(Ours.undo, A)
    BY <1>2, <1>4, <1>8, HasJoined
  <2>3. \A A : Has(q.todo, A) <=> Has(s, A) \/ Has(Tail(Ours.todo), A)
    <3>1. \A A : Has(s \o Tail(Ours.todo), A) <=> Has(s, A) \/ Has(Tail(Ours.todo), A)
      BY <1>2, <1>5, HasJoined
    <3> QED
      BY <1>8, <3>1
  <2>4. ~Has(Ours.undo, Of("repath"))
    BY <1>1, <1>6 DEF Chosen
  <2>5. \A e \in Of("repath") : ~Has(Ours.undo, {e})
    <3>1. \A e \in Of("repath") : {e} \subseteq Of("repath")
      OBVIOUS
    <3> QED
      BY <2>4, <3>1, HasMore
  <2>6. \A e \in Entries : host.entries[e] = None
    <3> TAKE e \in Entries
    <3>1. Redo("repath", e, None) \in Of("repath")
      BY StepKinds
    <3> QED
      BY <2>1, <2>5, <3>1 DEF Chosen
  <2>7. \A e \in Entries : Has(q.undo, {Redo("repath", e, None)})
    BY <1>3, <2>2, <2>6
  <2>8. \A e \in Of("repath") : Has(q.undo, {e}) => e.was = None
    <3>1. \A e \in Of("repath") : e.on \in Entries
      BY DEF Of, Steps
    <3> QED
      BY <1>3, <2>2, <2>5, <2>6, <3>1
  <2>9. ~Has(q.todo, Of("snapshot"))
    <3>1. ~Has(s, Of("snapshot"))
      BY EntryStepsLoose DEF s
    <3> QED
      BY <1>6, <2>3, <3>1
  <2> QED
    BY <2>1, <2>7, <2>8, <2>9 DEF Chosen
<1>13. /\ ~Excused => Witnessed(host') /\ Retreat(q, host')
       /\ ~Abandoned => Chosen(q, host') /\ Consistent(q, host')
  BY <1>1, <1>10, <1>11, <1>12 DEF BoundaryInv, OursInv
<1> QED
  BY <1>1, <1>8, <1>9, <1>13, OursTo

(* Accounts are created and files written as far as the plan says. *)
LEMMA ProgressHere ==
  ASSUME host \in Hosts, NEW r, NEW q, r.todo \in Seq(Steps), r.todo # <<>>,
         Progress(r, host), Head(r.todo) \in Creates \cup Writes,
         q.todo = Tail(r.todo), q.undo = r.undo, q.policy = r.policy, q.op = r.op
  PROVE  Progress(q, Done(Head(r.todo), r))
<1> DEFINE step == Head(r.todo)
           g == Done(step, r)
<1>1. \A A : Has(r.todo, A) <=> step \in A \/ Has(q.todo, A)
  BY HasTail
<1>2. step \in Steps /\ step \notin Of("plan") /\ step \notin Selecting
      /\ step.do # "activate"
  BY HeadTailProperties DEF Creates, Writes, Of, Selecting
<1>3. Settings(g) = IF step = Do("file", "settings") THEN r.policy ELSE Settings(host)
  BY <1>2, SettingsDone
<1>4. /\ host.ids \subseteq g.ids /\ (\A id \in g.ids : id \in host.ids \/ step = Do("create", id))
      /\ \A id : step = Do("create", id) => id \in g.ids
  <2>1. g.ids = IF step.do = "create" THEN host.ids \cup {step.on} ELSE host.ids
    BY <1>2, DoneFields
  <2>2. step.do = "create" => step = Do("create", step.on)
    BY <1>2, StepFields DEF Creates, Of
  <2>3. \A id : step = Do("create", id) => step.do = "create" /\ step.on = id
    BY DEF Do
  <2> HIDE DEF g, step
  <2> QED
    BY <2>1, <2>2, <2>3
<1>5. g.selector = host.selector
  BY <1>2, DoneFields
<1> HIDE DEF g, step
<1>6. r.policy # None
  BY <1>2 DEF Progress, step
<1>7. \A id \in Wanted(r.policy) : id \in g.ids \/ Has(q.todo, {Do("create", id)})
  <2> TAKE id \in Wanted(r.policy)
  <2>1. id \in host.ids \/ Has(r.todo, {Do("create", id)})
    BY <1>6 DEF Progress
  <2>2. Has(r.todo, {Do("create", id)}) => step = Do("create", id) \/ Has(q.todo, {Do("create", id)})
    BY <1>1
  <2> QED
    BY <1>4, <2>1, <2>2
<1>8. Has(q.todo, {Do("file", "settings")}) \/ Settings(g) = r.policy
  BY <1>1, <1>3, <1>6 DEF Progress
<1>9. r.policy = "bootstrap" => "member" \notin g.ids /\ ~Has(q.todo, {Do("create", "member")})
  BY <1>1, <1>4, <1>6 DEF Progress
<1>10. /\ \A id \in Identities : Has(q.todo, {Do("create", id)}) => Has(q.undo, {Do("drop", id)})
       /\ q.op \notin Lasting => ~Has(q.undo, Of("repath"))
       /\ q.op \in Lasting => Has(q.todo, Selecting) \/ g.selector # None
  BY <1>1, <1>2, <1>5 DEF Progress
<1>11. Has(q.undo, Putting) /\ (Has(q.todo, Of("plan")) => r.policy = "bootstrap")
  BY <1>1, <1>6 DEF Progress
<1>12. Progress(q, g)
  BY <1>6, <1>7, <1>8, <1>9, <1>10, <1>11 DEF Progress
<1> QED
  BY <1>12 DEF g, step

LEMMA OursHere ==
  ASSUME Inv, BoundaryInv, Ours.failing = "no", Ours.todo # <<>>, Head(Ours.todo) \in Creates \cup Writes,
         Continue("installer", <<>>, Ours.undo), host' = Done(Head(Ours.todo), Ours)
  PROVE  BoundaryInv'
<1>1. /\ Ours.undo \in Seq(Steps) /\ Ours.todo \in Seq(Steps) /\ Tail(Ours.todo) \in Seq(Steps)
      /\ host \in Hosts /\ Ordered(Ours.op, Ours.todo) /\ Progress(Ours, host)
  BY InstallerTyped DEF BoundaryInv, OursInv
<1>2. <<>> \in Seq(Steps) /\ <<>> \o Tail(Ours.todo) = Tail(Ours.todo)
  BY <1>1, EmptyTyped, ConcatEmptySeq
<1>3. PICK q : /\ run' = [run EXCEPT !["installer"] = q] /\ spoiled' = spoiled
               /\ q.todo = <<>> \o Tail(Ours.todo) /\ q.undo = Ours.undo
               /\ q.op = Ours.op /\ q.policy = Ours.policy /\ q.failing = Ours.failing
  BY <1>1, <1>2, OursContinues
<1>4. Progress(q, host')
  <2> DEFINE r == Ours
  <2>1. /\ r.todo \in Seq(Steps) /\ r.todo # <<>>
        /\ Progress(r, host) /\ Head(r.todo) \in Creates \cup Writes
        /\ q.todo = Tail(r.todo) /\ q.undo = r.undo /\ q.policy = r.policy /\ q.op = r.op
        /\ host' = Done(Head(r.todo), r)
    BY <1>1, <1>2, <1>3
  <2> HIDE DEF r
  <2>2. Progress(q, Done(Head(r.todo), r))
    BY <1>1, <2>1, ProgressHere
  <2> QED
    BY <2>1, <2>2
<1>5. Ordered(q.op, q.todo)
  BY <1>1, <1>2, <1>3, OrderedTail
<1>6. Back(q) = Back(Ours)
  BY <1>3 DEF Back
<1>7. /\ Witnessed(host) => Witnessed(host')
      /\ Retreat(Ours, host) => Retreat(Ours, host')
      /\ Chosen(Ours, host) => Chosen(Ours, host')
      /\ Consistent(Ours, host) => Consistent(Ours, host')
  <2> DEFINE r == Ours
             g == Done(Head(r.todo), r)
  <2>1. /\ r.failing = "no" /\ r.todo \in Seq(Steps) /\ r.todo # <<>>
        /\ Ordered(r.op, r.todo) /\ Progress(r, host) /\ host' = g
    BY <1>1
  <2> HIDE DEF r
  <2>2. /\ Witnessed(host) => Witnessed(g)
        /\ Retreat(r, host) => Retreat(r, g)
        /\ Chosen(r, host) => Chosen(r, g)
        /\ Consistent(r, host) => Consistent(r, g)
    BY <1>1, <2>1, DoneKeepsBack
  <2> HIDE DEF g
  <2> QED
    BY <2>1, <2>2 DEF r
<1>8. Retreat(Ours, host') => Retreat(q, host')
  BY <1>3, <1>6 DEF Retreat
<1>9. Consistent(Ours, host') => Consistent(q, host')
  BY <1>6 DEF Consistent, EndsWith
<1>10. \A A : Has(q.todo, A) => Has(Ours.todo, A)
  BY <1>1, <1>2, <1>3, HasTail
<1>11. Chosen(Ours, host') => Chosen(q, host')
  BY <1>3, <1>6, <1>10 DEF Chosen
<1>12. /\ ~Excused => Witnessed(host') /\ Retreat(q, host')
       /\ ~Abandoned => Chosen(q, host') /\ Consistent(q, host')
  BY <1>7, <1>8, <1>9, <1>11 DEF BoundaryInv, OursInv
<1> QED
  BY <1>3, <1>4, <1>5, <1>12, OursTo

LEMMA OursAdvance ==
  ASSUME Inv, BoundaryInv, Advance("installer")
  PROVE  BoundaryInv'
<1> DEFINE step == Head(Ours.todo)
           b == IF step.do = "publish" /\ step.on = "legacy-import" THEN Reselect("legacy-import") ELSE <<>>
<1>1. /\ Ours.failing = "no" /\ Ours.todo # <<>> /\ step.do \in Forward
      /\ host' = Done(step, Ours) /\ Continue("installer", <<>>, b \o Ours.undo)
  BY DEF Advance, Ready, At, Now, Ours
<1>2. /\ Ours.undo \in Seq(Steps) /\ Ours.todo \in Seq(Steps) /\ step \in Steps
      /\ host \in Hosts /\ Ordered(Ours.op, Ours.todo) /\ Progress(Ours, host)
  BY <1>1, InstallerTyped DEF BoundaryInv, OursInv
<1>3. CASE step \in Creates \cup Writes
  <2>1. step.do \in {"create", "file"}
    BY <1>3 DEF Creates, Writes, Of
  <2>2. b = <<>>
    BY <2>1
  <2>3. b \o Ours.undo = Ours.undo
    BY <1>2, <2>2, ConcatEmptySeq
  <2> HIDE DEF b, step
  <2>4. Continue("installer", <<>>, Ours.undo)
    BY <1>1, <2>3
  <2> QED
    BY <1>1, <1>3, <2>4, OursHere DEF step
<1>4. CASE step \notin Creates \cup Writes
  <2>1. b \in Seq(Of("reselect")) /\ <<>> \in Seq(Placing)
    BY PlacingKinds, EmptyTyped DEF Versions
  <2>2. step.do \notin {"create", "file", "plan", "release"}
    BY <1>1, <1>2, <1>4 DEF Forward, Creates, Writes, Of
  <2>3. /\ host'.ids = host.ids /\ host'.files = host.files
        /\ host'.selector = IF step.do = "activate" THEN step.on ELSE host.selector
    BY <1>1, <1>2, <2>2, DoneFields
  <2>4. step.do = "activate" => step.on # None
    BY <1>2, Values DEF Steps
  <2>5. /\ Witnessed(host) => Witnessed(host')
        /\ Retreat(Ours, host) => Retreat(Ours, host')
        /\ Chosen(Ours, host) => Chosen(Ours, host')
        /\ Consistent(Ours, host) => Consistent(Ours, host')
    <3> DEFINE r == Ours
               g == Done(Head(r.todo), r)
    <3>1. /\ r.failing = "no" /\ r.todo \in Seq(Steps) /\ r.todo # <<>>
          /\ Ordered(r.op, r.todo) /\ Progress(r, host) /\ host' = g
      BY <1>1, <1>2
    <3> HIDE DEF r
    <3>2. /\ Witnessed(host) => Witnessed(g)
          /\ Retreat(r, host) => Retreat(r, g)
          /\ Chosen(r, host) => Chosen(r, g)
          /\ Consistent(r, host) => Consistent(r, g)
      BY <1>2, <3>1, DoneKeepsBack
    <3> HIDE DEF g
    <3> QED
      BY <3>1, <3>2 DEF r
  <2> HIDE DEF b, step
  <2>6. step \notin Of("plan") /\ (step \in Selecting => step.do = "activate")
    BY <2>2 DEF Of, Selecting
  <2> QED
    BY <1>1, <1>4, <2>1, <2>3, <2>4, <2>5, <2>6, OursElsewhere DEF step
<1> QED
  BY <1>3, <1>4

-----------------------------------------------------------------------------
(* Failures of install.py *)

LEMMA OursStepFails ==
  ASSUME Inv, BoundaryInv, StepFails("installer")
  PROVE  BoundaryInv'
<1> DEFINE step == Head(Ours.todo)
           t == Compensation("installer")
           q == [Ours EXCEPT !.todo = t, !.undo = <<>>, !.failing = "yes"]
<1>1. /\ Ours.failing = "no" /\ Ours.todo # <<>> /\ spoiled' = spoiled
      /\ run' = [run EXCEPT !["installer"] = q]
      /\ host' = host \/ host' = Done(step, Ours)
  <2>1. run \in [Processes -> Runs] /\ "installer" \in Processes
    BY DEF Inv, TypeOK, Processes
  <2>2. run' = [run EXCEPT !["installer"] = q]
    BY <2>1 DEF StepFails, Ours
  <2> QED
    BY <2>2 DEF StepFails, Ours, Now, history
<1>2. /\ Ours.undo \in Seq(Steps) /\ Ours.todo \in Seq(Steps) /\ step \in Steps
      /\ host \in Hosts /\ Ours \in Runs /\ Ordered(Ours.op, Ours.todo) /\ Progress(Ours, host)
  BY <1>1, InstallerTyped DEF BoundaryInv, OursInv
<1>3. \/ t = Ours.undo
      \/ /\ t = <<>>
         /\ \/ step \in Of("initialize") \cup Of("health")
            \/ step = Do("plan", "full") /\ Ours.op \in {"install", "adopt"}
  <2>1. CASE step.do = "plan"
    <3>1. t = Enclosing("installer", step.on) /\ step = Do("plan", step.on)
      BY <1>1, <1>2, <2>1, StepFields DEF Compensation, At, Now, Ours, Of
    <3> QED
      BY <3>1 DEF Enclosing, Ours
  <2>2. CASE step.do = "initialize"
    <3>1. t = <<>>
      BY <1>1, <2>2 DEF Compensation, At, Now, Ours
    <3> QED
      BY <1>2, <2>2, <3>1 DEF Of
  <2>3. CASE step = Do("health", "last")
    <3>1. step.do = "health"
      BY <2>3 DEF Do
    <3>2. t = <<>>
      BY <1>1, <2>3, <3>1 DEF Compensation, At, Now, Ours
    <3> QED
      BY <1>2, <3>1, <3>2 DEF Of
  <2>4. CASE step.do # "plan" /\ step.do # "initialize" /\ step # Do("health", "last")
    BY <1>1, <2>4 DEF Compensation, At, Now, Ours
  <2> QED
    BY <2>1, <2>2, <2>3, <2>4
<1> HIDE DEF t
<1>4. q.todo = t /\ q.failing = "yes"
  BY <1>2 DEF Runs
<1> HIDE DEF q
<1>5. /\ Witnessed(host) => Witnessed(host')
      /\ Retreat(Ours, host) => Retreat(Ours, host')
      /\ Chosen(Ours, host) => Chosen(Ours, host')
      /\ Consistent(Ours, host) => Consistent(Ours, host')
  <2> DEFINE r == Ours
             g == Done(Head(r.todo), r)
  <2>1. /\ r.failing = "no" /\ r.todo \in Seq(Steps) /\ r.todo # <<>>
        /\ Ordered(r.op, r.todo) /\ Progress(r, host)
    BY <1>1, <1>2
  <2> HIDE DEF r
  <2>2. /\ Witnessed(host) => Witnessed(g)
        /\ Retreat(r, host) => Retreat(r, g)
        /\ Chosen(r, host) => Chosen(r, g)
        /\ Consistent(r, host) => Consistent(r, g)
    BY <1>2, <2>1, DoneKeepsBack
  <2>3. host' = host \/ host' = g
    BY <1>1 DEF r
  <2> HIDE DEF g
  <2> QED
    BY <2>2, <2>3 DEF r
<1>6. \/ q.todo = Ours.undo
      \/ /\ q.todo = <<>> /\ Ours.policy # None
         /\ host'.ids = host.ids /\ Settings(host') = Settings(host)
         /\ (host.selector # None => host'.selector # None)
         /\ \/ step \in Of("initialize") \cup Of("health")
            \/ step = Do("plan", "full") /\ Ours.op \in {"install", "adopt"}
  <2>1. CASE t = Ours.undo
    BY <1>4, <2>1
  <2>2. CASE Ours.policy = None
    <3>1. Ours.undo = <<>>
      BY <1>2, <2>2 DEF Progress
    <3> QED
      BY <1>3, <1>4, <3>1
  <2>3. CASE t # Ours.undo /\ Ours.policy # None
    <3>1. step.do \in {"initialize", "health", "plan"}
      BY <1>3, <2>3 DEF Of, Do
    <3>2. /\ host'.ids = host.ids /\ Settings(host') = Settings(host)
          /\ host'.selector = host.selector
      <4> DEFINE g == Done(step, Ours)
      <4>1. g.ids = host.ids /\ g.files = host.files /\ g.selector = host.selector
        BY <1>2, <3>1, DoneFields
      <4>2. host' = host \/ host' = g
        BY <1>1
      <4> HIDE DEF g
      <4> QED
        BY <4>1, <4>2 DEF Settings
    <3> QED
      BY <1>3, <1>4, <2>3, <3>2
  <2> QED
    BY <2>1, <2>2, <2>3
<1> HIDE DEF step
<1>7. /\ Retreat(Ours, host') => Retreat(q, host')
      /\ Chosen(Ours, host') => Chosen(q, host')
      /\ Consistent(Ours, host') => Consistent(q, host')
  <2> DEFINE r == Ours
             g == host'
  <2>1. /\ r.failing = "no" /\ r.todo \in Seq(Steps) /\ r.todo # <<>>
        /\ Ordered(r.op, r.todo) /\ Progress(r, host)
        /\ \/ q.todo = r.undo
           \/ /\ q.todo = <<>> /\ r.policy # None /\ g.ids = host.ids /\ Settings(g) = Settings(host)
              /\ host.selector # None => g.selector # None
              /\ \/ Head(r.todo) \in Of("initialize") \cup Of("health")
                 \/ Head(r.todo) = Do("plan", "full") /\ r.op \in {"install", "adopt"}
    BY <1>1, <1>2, <1>6 DEF step
  <2> HIDE DEF r, g
  <2>2. /\ Retreat(r, g) => Retreat(q, g)
        /\ Chosen(r, g) => Chosen(q, g)
        /\ Consistent(r, g) => Consistent(q, g)
    BY <1>4, <2>1, StopsKeeps
  <2> QED
    BY <2>2 DEF r, g
<1>8. /\ ~Excused => Witnessed(host') /\ Retreat(q, host')
      /\ ~Abandoned => Chosen(q, host') /\ Consistent(q, host')
  BY <1>5, <1>7 DEF BoundaryInv, OursInv
<1> QED
  BY <1>1, <1>4, <1>8, OursTo

LEMMA OursCompensationFails ==
  ASSUME Inv, BoundaryInv, CompensationFails("installer")
  PROVE  BoundaryInv'
<1> DEFINE t == Tail(Ours.todo)
           q == [Ours EXCEPT !.todo = t, !.failing = "badly"]
<1>1. run' = [run EXCEPT !["installer"] = q]
  <2>1. run \in [Processes -> Runs] /\ "installer" \in Processes
    BY DEF Inv, TypeOK, Processes
  <2> QED
    BY <2>1 DEF CompensationFails, Ours
<1> HIDE DEF t
<1>2. q.failing = "badly"
  BY InstallerTyped DEF Runs
<1> HIDE DEF q
<1>3. Ours' = q /\ Theirs' = Theirs
  BY <1>1, OursOnly
<1>4. Broken'
  <2>1. "installer" \in Processes
    BY DEF Processes
  <2>2. Ours'.failing = "badly"
    BY <1>2, <1>3
  <2> QED
    BY <2>1, <2>2 DEF Broken, Ours
<1>5. OursInv'
  BY <1>2, <1>3, <1>4 DEF OursInv, Excused, Abandoned
<1> QED
  BY <1>3, <1>5 DEF BoundaryInv, ManagerInv

LEMMA IdleProgress ==
  ASSUME NEW h
  PROVE  /\ Ordered(Idle.op, Idle.todo) /\ Progress(Idle, h) /\ Back(Idle) = <<>>
         /\ Chosen(Idle, h) <=> (h.selector = None => \A e \in Entries : h.entries[e] = None)
<1>1. /\ Idle.op = None /\ Idle.todo = <<>> /\ Idle.undo = <<>> /\ Idle.policy = None /\ Idle.failing = "no"
  BY DEF Idle
<1>2. Ordered(Idle.op, Idle.todo)
  BY <1>1, EmptyOrdered
<1>3. Progress(Idle, h)
  BY <1>1, Nothing, EmptyHas DEF Progress
<1>4. Back(Idle) = <<>>
  BY <1>1 DEF Back
<1>5. Chosen(Idle, h) <=> (h.selector = None => \A e \in Entries : h.entries[e] = None)
  BY <1>1, <1>4, EmptyHas DEF Chosen
<1> QED
  BY <1>2, <1>3, <1>4, <1>5

(* A command that went well has what its last configuration declares. *)
LEMMA Complete ==
  ASSUME NEW r, NEW h, r.todo = <<>>, Progress(r, h)
  PROVE  /\ r.op \in Lasting => r.policy # None /\ h.selector # None
         /\ r.policy # None =>
              /\ Settings(h) = r.policy /\ Witnessed(h)
              /\ r.policy = "bootstrap" => "member" \notin h.ids
<1>1. \A A : ~Has(r.todo, A)
  BY EmptyHas
<1> QED
  BY <1>1 DEF Progress, Witnessed

LEMMA OursFinish ==
  ASSUME Inv, BoundaryInv, Finish("installer")
  PROVE  BoundaryInv'
<1>1. /\ host' = host /\ run' = [run EXCEPT !["installer"] = Idle] /\ Ours.todo = <<>>
      /\ spoiled' = IF Ours.failing = "badly" THEN "incomplete"
                    ELSE IF Ours.failing = "no" /\ Ours.op \in Lasting THEN "no" ELSE spoiled
  BY DEF Finish, Ours, Lasting
<1>2. Ours' = Idle /\ Theirs' = Theirs
  BY <1>1, OursOnly
<1>3. ManagerInv'
  BY <1>2 DEF BoundaryInv, ManagerInv
<1>4. /\ Ordered(Idle.op, Idle.todo) /\ Progress(Idle, host) /\ Back(Idle) = <<>>
      /\ Chosen(Idle, host) <=> (host.selector = None => \A e \in Entries : host.entries[e] = None)
  BY IdleProgress
<1>5. Retreat(Idle, host)
  BY <1>4, NothingBack
<1>6. Consistent(Idle, host) <=> /\ Settings(host) = None => host.ids = {}
                                 /\ Settings(host) = "bootstrap" => "member" \notin host.ids
  BY <1>4, NothingBack
<1>7. Ours.failing = "no" =>
        /\ Ours.op \in Lasting => Ours.policy # None /\ host.selector # None
        /\ Ours.policy # None => /\ Settings(host) = Ours.policy /\ Witnessed(host)
                                 /\ Ours.policy = "bootstrap" => "member" \notin host.ids
        /\ Ours.policy = None => Ours.undo = <<>>
        /\ Ours.op \notin Lasting => ~Has(Ours.undo, Of("repath"))
  <2> SUFFICES ASSUME Ours.failing = "no"
               PROVE  /\ Ours.op \in Lasting => Ours.policy # None /\ host.selector # None
                      /\ Ours.policy # None =>
                           /\ Settings(host) = Ours.policy /\ Witnessed(host)
                           /\ Ours.policy = "bootstrap" => "member" \notin host.ids
                      /\ Ours.policy = None => Ours.undo = <<>>
                      /\ Ours.op \notin Lasting => ~Has(Ours.undo, Of("repath"))
    OBVIOUS
  <2> DEFINE r == Ours
  <2>1. r.todo = <<>> /\ Progress(r, host)
    BY <1>1 DEF BoundaryInv, OursInv
  <2> HIDE DEF r
  <2>2. /\ r.op \in Lasting => r.policy # None /\ host.selector # None
        /\ r.policy # None => /\ Settings(host) = r.policy /\ Witnessed(host)
                              /\ r.policy = "bootstrap" => "member" \notin host.ids
    BY <2>1, Complete
  <2>3. /\ r.policy = None => r.undo = <<>>
        /\ r.op \notin Lasting => ~Has(r.undo, Of("repath"))
    BY <2>1 DEF Progress
  <2> QED
    BY <2>2, <2>3 DEF r
<1>8. Broken' => spoiled' = "incomplete" \/ Theirs.failing = "badly"
  <2>1. Idle.failing = "no"
    BY IdleTyped
  <2>2. \A p \in Processes : p = "installer" \/ p = "manager"
    BY DEF Processes
  <2>3. run'["installer"] = Idle /\ run'["manager"] = Theirs
    BY <1>2 DEF Ours, Theirs
  <2> QED
    BY <2>1, <2>2, <2>3 DEF Broken
<1>9. Broken => Ours.failing = "badly" \/ Theirs.failing = "badly"
  BY DEF Broken, Processes, Ours, Theirs
<1>10. Theirs.failing = "badly" => Broken'
  <2>1. "manager" \in Processes /\ run'["manager"] = Theirs
    BY <1>2 DEF Processes, Theirs
  <2> QED
    BY <2>1 DEF Broken
<1>11. CASE Ours.failing = "badly"
  <2>1. spoiled' = "incomplete"
    BY <1>1, <1>11
  <2>2. OursInv'
    BY <1>1, <1>2, <1>4, <2>1 DEF OursInv, Excused, Abandoned
  <2> QED
    BY <1>3, <2>2 DEF BoundaryInv
<1>12. CASE Ours.failing = "no" /\ Ours.op \in Lasting
  <2>1. Witnessed(host) /\ Chosen(Idle, host) /\ Consistent(Idle, host)
    BY <1>4, <1>6, <1>7, <1>12, Nothing
  <2>2. OursInv'
    BY <1>1, <1>2, <1>4, <1>5, <2>1 DEF OursInv
  <2> QED
    BY <1>3, <2>2 DEF BoundaryInv
<1>13. CASE Ours.failing # "badly" /\ ~(Ours.failing = "no" /\ Ours.op \in Lasting)
  <2>1. spoiled' = spoiled
    BY <1>1, <1>13
  <2>2. (Excused => Excused') /\ (Abandoned => Abandoned')
    BY <1>9, <1>10, <1>13, <2>1 DEF Excused, Abandoned
  <2>3. ~Excused' => Witnessed(host)
    BY <2>2 DEF BoundaryInv, OursInv
  <2>4. ASSUME Chosen(Ours, host), Consistent(Ours, host)
        PROVE  Chosen(Idle, host) /\ Consistent(Idle, host)
    <3>1. CASE Back(Ours) = <<>>
      <4>1. Consistent(Idle, host)
        BY <1>6, <2>4, <3>1, NothingBack
      <4>2. Chosen(Idle, host)
        BY <1>4, <2>4, <3>1, EmptyHas DEF Chosen
      <4> QED
        BY <4>1, <4>2
    <3>2. CASE Back(Ours) # <<>>
      <4>1. Ours.failing = "no" /\ Back(Ours) = Ours.undo /\ Ours.op \notin Lasting
        BY <1>1, <1>13, <3>2 DEF Back
      <4>2. Ours.policy # None
        BY <1>7, <3>2, <4>1
      <4>3. Consistent(Idle, host)
        BY <1>6, <1>7, <4>1, <4>2
      <4>4. \A e \in Entries : ~Has(Ours.undo, {Redo("repath", e, None)})
        <5> TAKE e \in Entries
        <5>1. {Redo("repath", e, None)} \subseteq Of("repath")
          BY StepKinds
        <5> QED
          BY <1>7, <4>1, <5>1, HasMore
      <4>5. Chosen(Idle, host)
        BY <1>4, <2>4, <4>1, <4>4 DEF Chosen
      <4> QED
        BY <4>3, <4>5
    <3> QED
      BY <3>1, <3>2
  <2>5. ~Abandoned' => Chosen(Idle, host) /\ Consistent(Idle, host)
    BY <2>2, <2>4 DEF BoundaryInv, OursInv
  <2>6. OursInv'
    BY <1>1, <1>2, <1>4, <1>5, <2>3, <2>5 DEF OursInv
  <2> QED
    BY <1>3, <2>6 DEF BoundaryInv
<1> QED
  BY <1>11, <1>12, <1>13

-----------------------------------------------------------------------------
(* What a compensation does to the host *)

LEMMA OutcomeFields ==
  ASSUME host \in Hosts, NEW step \in Backward, NEW g \in Outcomes(step)
  PROVE  /\ step.do # "drop" => g.ids = host.ids
         /\ step.do = "drop" =>
              /\ g.ids \subseteq host.ids /\ step.on \notin g.ids
              /\ step.on = "member" => host.ids \ {"member"} \subseteq g.ids
         /\ step.do # "putback" => g.files = host.files
         /\ step.do = "putback" => g.files = [host.files EXCEPT ![step.on] = step.was]
         /\ step.do # "repath" => g.entries = host.entries
         /\ step.do = "repath" => g.entries = [host.entries EXCEPT ![step.on] = step.was]
<1> DEFINE h == Undone(step)
<1>1. step.do \in Compensations
  BY DEF Backward
<1>2. CASE step.do = "drop"
  <2>1. h = [host EXCEPT !.ids = @ \ Removed(step.on)]
    BY <1>2 DEF Undone
  <2>2. g = h \/ (step.on = "user" /\ g = [h EXCEPT !.ids = @ \ {"group"}])
    BY <1>2 DEF Outcomes
  <2>3. step.on \in Removed(step.on) /\ (step.on = "member" => Removed(step.on) = {"member"})
    BY DEF Removed
  <2> HIDE DEF h
  <2>4. /\ h.ids = host.ids \ Removed(step.on) /\ h.files = host.files /\ h.entries = host.entries
    BY <2>1 DEF Hosts
  <2>5. /\ g.ids = h.ids \/ (step.on = "user" /\ g.ids = h.ids \ {"group"})
        /\ g.files = h.files /\ g.entries = h.entries
    BY <2>1, <2>2 DEF Hosts
  <2> QED
    BY <1>2, <2>3, <2>4, <2>5
<1>3. CASE step.do # "drop"
  <2>1. g = h
    BY <1>3 DEF Outcomes
  <2>2. CASE step.do = "quiesce"
    <3> DEFINE l == IF host.files["timer"] = None THEN host.links ELSE {}
    <3>1. h = [host EXCEPT !.active = FALSE, !.links = l]
      BY <2>2 DEF Undone
    <3> HIDE DEF h, l
    <3> QED
      BY <2>1, <2>2, <3>1 DEF Hosts
  <2>3. CASE step.do = "putback"
    <3>1. h = [host EXCEPT !.files[step.on] = step.was]
      BY <2>3 DEF Undone
    <3> HIDE DEF h
    <3> QED
      BY <2>1, <2>3, <3>1 DEF Hosts
  <2>4. CASE step.do = "retimer"
    <3> DEFINE l == OldLinks(step.was)
               a == IF step.was.unit = "not-found" THEN host.active ELSE step.was.active
    <3>1. h = [host EXCEPT !.links = l, !.active = a]
      BY <2>4 DEF Undone, OldTimer
    <3> HIDE DEF h, l, a
    <3> QED
      BY <2>1, <2>4, <3>1 DEF Hosts
  <2>5. CASE step.do = "repath"
    <3>1. h = [host EXCEPT !.entries[step.on] = step.was]
      BY <2>5 DEF Undone
    <3> HIDE DEF h
    <3> QED
      BY <2>1, <2>5, <3>1 DEF Hosts
  <2>6. CASE step.do = "reselect"
    <3>1. h = [host EXCEPT !.selector = step.on]
      BY <2>6 DEF Undone
    <3> HIDE DEF h
    <3> QED
      BY <2>1, <2>6, <3>1 DEF Hosts
  <2> QED
    BY <1>1, <1>3, <2>2, <2>3, <2>4, <2>5, <2>6 DEF Compensations
<1> QED
  BY <1>2, <1>3

LEMMA OutcomeSettings ==
  ASSUME host \in Hosts, NEW step \in Backward, NEW g \in Outcomes(step)
  PROVE  Settings(g) = IF step \in Putting THEN step.was ELSE Settings(host)
<1>0. step \in Steps
  BY DEF Backward
<1>1. CASE step.do = "putback"
  <2>1. g.files = [host.files EXCEPT ![step.on] = step.was] /\ step.on \in Files
    BY <1>0, <1>1, OutcomeFields, StepFields DEF Of
  <2>2. step \in Putting <=> step.on = "settings"
    BY <1>0, <1>1 DEF Putting, Of
  <2>3. host.files \in [Files -> Contents]
    BY DEF Hosts
  <2> QED
    BY <2>1, <2>2, <2>3, Nothing DEF Settings
<1>2. CASE step.do # "putback"
  BY <1>2, OutcomeFields DEF Settings, Putting, Of
<1> QED
  BY <1>1, <1>2

(* The first step of a way back is after nothing. *)
LEMMA NothingBefore ==
  ASSUME NEW T, NEW s \in Seq(T), s # <<>>, NEW A, NEW B, After(s, A, B)
  PROVE  Head(s) \notin B
<1>1. Len(s) \in Nat \ {0} /\ Head(s) = s[1]
  BY HeadOrTail
<1> QED
  BY <1>1 DEF After

LEMMA RetreatNearer ==
  ASSUME host \in Hosts, NEW r, NEW q, r.failing # "no", q.failing # "no",
         r.todo \in Seq(Backward), r.todo # <<>>, q.todo = Tail(r.todo),
         NEW g \in Outcomes(Head(r.todo)), Witnessed(host), Retreat(r, host)
  PROVE  Witnessed(g) /\ Retreat(q, g)
<1> DEFINE s == r.todo
           step == Head(s)
           t == Tail(s)
<1>1. step \in Backward /\ step \in Steps /\ Back(r) = s /\ Back(q) = t
  BY HeadTailProperties DEF Back, Backward
<1>2. \A A : Has(s, A) <=> step \in A \/ Has(t, A)
  BY HasTail
<1>3. /\ Before(s, Steps \ PuttingBack(None), Putting)
      /\ Has(s, PuttingBack("full")) => ~Has(s, Drops)
      /\ After(s, Putting, Drops) \/ Settings(host) # "full"
      /\ \/ After(s, PuttingBack(None), FullDrops)
         \/ Settings(host) = None /\ ~Has(s, Putting)
      /\ \A e \in Putting : Has(s, {e}) /\ e.was # None => Wanted(e.was) \subseteq host.ids
  BY <1>1 DEF Retreat
<1>4. /\ Before(t, Steps \ PuttingBack(None), Putting)
      /\ Has(t, Putting) => step \notin PuttingBack(None)
  BY <1>3, BeforeTail
<1>5. Has(t, PuttingBack("full")) => ~Has(t, Drops)
  BY <1>2, <1>3
<1>6. Settings(g) = IF step \in Putting THEN step.was ELSE Settings(host)
  BY <1>1, OutcomeSettings
<1>7. /\ After(s, Putting, Drops) /\ step \notin Putting => After(t, Putting, Drops)
      /\ After(s, PuttingBack(None), FullDrops) /\ step \notin PuttingBack(None) =>
           After(t, PuttingBack(None), FullDrops)
      /\ After(s, Putting, Drops) => step \notin Drops
      /\ After(s, PuttingBack(None), FullDrops) => step \notin FullDrops
      /\ ~Has(t, Drops) => After(t, Putting, Drops)
  <2>1. /\ After(s, Putting, Drops) /\ step \notin Putting => After(t, Putting, Drops)
        /\ After(s, PuttingBack(None), FullDrops) /\ step \notin PuttingBack(None) =>
             After(t, PuttingBack(None), FullDrops)
    BY AfterTail
  <2>2. /\ After(s, Putting, Drops) => step \notin Drops
        /\ After(s, PuttingBack(None), FullDrops) => step \notin FullDrops
    BY NothingBefore
  <2>3. ~Has(t, Drops) => After(t, Putting, Drops)
    BY DEF Has, After
  <2> QED
    BY <2>1, <2>2, <2>3
<1>8. step \in Drops =>
        /\ step \notin Putting /\ Settings(host) # "full"
        /\ step.on # "member" => Settings(host) = None /\ ~Has(s, Putting)
        /\ \A e \in Putting : Has(s, {e}) => e.was # "full"
  <2> SUFFICES ASSUME step \in Drops
               PROVE  /\ step \notin Putting /\ Settings(host) # "full"
                      /\ step.on # "member" => Settings(host) = None /\ ~Has(s, Putting)
                      /\ \A e \in Putting : Has(s, {e}) => e.was # "full"
    OBVIOUS
  <2>1. step \notin Putting
    BY DEF Drops, Putting, Of
  <2>2. step.on # "member" => step \in FullDrops
    BY DEF FullDrops
  <2>3. ASSUME NEW e \in Putting, Has(s, {e}), e.was = "full"
        PROVE  FALSE
    <3>1. {e} \subseteq PuttingBack("full")
      BY <2>3 DEF PuttingBack
    <3>2. Has(s, PuttingBack("full"))
      BY <2>3, <3>1, HasMore
    <3> QED
      BY <1>2, <1>3, <3>2
  <2> QED
    BY <1>3, <1>7, <2>1, <2>2, <2>3
<1>9. step \in Drops \/ g.ids = host.ids
  BY <1>1, OutcomeFields DEF Drops, Of
<1>10. step \in Drops /\ step.on = "member" => host.ids \ {"member"} \subseteq g.ids
  BY <1>1, OutcomeFields DEF Drops, Of
<1>11. \A text : text # "full" => "member" \notin Wanted(text)
  BY DEF Wanted, Staging
<1> HIDE DEF s, step, t
<1>12. \A e \in Putting : Has(t, {e}) /\ e.was # None => Wanted(e.was) \subseteq g.ids
  <2> SUFFICES ASSUME NEW e \in Putting, Has(t, {e}), e.was # None PROVE Wanted(e.was) \subseteq g.ids
    OBVIOUS
  <2>1. Has(s, {e}) /\ Wanted(e.was) \subseteq host.ids
    BY <1>2, <1>3
  <2>2. CASE step \in Drops
    <3>1. {e} \subseteq Putting
      OBVIOUS
    <3>2. Has(s, Putting)
      BY <2>1, <3>1, HasMore
    <3>3. step.on = "member" /\ e.was # "full"
      BY <1>8, <2>1, <2>2, <3>2
    <3> QED
      BY <1>10, <1>11, <2>1, <2>2, <3>3
  <2> QED
    BY <1>9, <2>1, <2>2
<1>13. Witnessed(g)
  <2>1. CASE step \in Putting
    <3>1. Has(s, {step}) /\ g.ids = host.ids
      <4>1. step \notin Drops
        BY <2>1 DEF Drops, Putting, Of
      <4> QED
        BY <1>2, <1>9, <4>1
    <3> QED
      BY <1>3, <1>6, <2>1, <3>1 DEF Witnessed
  <2>2. CASE step \notin Putting
    <3>1. CASE step \in Drops
      BY <1>6, <1>8, <1>10, <1>11, <2>2, <3>1 DEF Witnessed
    <3> QED
      BY <1>6, <1>9, <2>2, <3>1 DEF Witnessed
  <2> QED
    BY <2>1, <2>2
<1>14. After(t, Putting, Drops) \/ Settings(g) # "full"
  <2>1. CASE step \in Putting
    <3>1. step.was = "full" => step \in PuttingBack("full")
      BY <2>1 DEF PuttingBack
    <3> QED
      BY <1>2, <1>3, <1>6, <1>7, <2>1, <3>1
  <2> QED
    BY <1>3, <1>6, <1>7, <2>1
<1>15. \/ After(t, PuttingBack(None), FullDrops)
       \/ Settings(g) = None /\ ~Has(t, Putting)
  <2>1. CASE step \in Putting
    <3>1. step.was = None <=> step \in PuttingBack(None)
      BY <2>1 DEF PuttingBack
    <3> QED
      BY <1>2, <1>3, <1>4, <1>6, <1>7, <2>1, <3>1
  <2>2. CASE step \notin Putting
    <3>1. step \notin PuttingBack(None)
      BY <2>2 DEF PuttingBack
    <3> QED
      BY <1>2, <1>3, <1>6, <1>7, <2>2, <3>1
  <2> QED
    BY <2>1, <2>2
<1>16. Retreat(q, g)
  BY <1>1, <1>4, <1>5, <1>12, <1>14, <1>15 DEF Retreat
<1> QED
  BY <1>13, <1>16

LEMMA OthersNearer ==
  ASSUME host \in Hosts, NEW r, NEW q, r.failing # "no", q.failing # "no",
         r.todo \in Seq(Backward), r.todo # <<>>, q.todo = Tail(r.todo),
         NEW g \in Outcomes(Head(r.todo)), host.selector # None => g.selector # None
  PROVE  /\ Chosen(r, host) => Chosen(q, g)
         /\ Consistent(r, host) => Consistent(q, g)
<1> DEFINE s == r.todo
           step == Head(s)
           t == Tail(s)
<1>1. step \in Backward /\ step \in Steps /\ Back(r) = s /\ Back(q) = t
  BY HeadTailProperties DEF Back, Backward
<1>2. \A A : Has(s, A) <=> step \in A \/ Has(t, A)
  BY HasTail
<1>3. Settings(g) = IF step \in Putting THEN step.was ELSE Settings(host)
  BY <1>1, OutcomeSettings
<1>4. /\ g.ids \subseteq host.ids
      /\ \A id \in g.ids : step # Do("drop", id)
  <2>1. step.do # "drop" => g.ids = host.ids
    BY <1>1, OutcomeFields
  <2>2. step.do = "drop" => g.ids \subseteq host.ids /\ step.on \notin g.ids
    BY <1>1, OutcomeFields
  <2>3. \A id : step = Do("drop", id) => step.do = "drop" /\ step.on = id
    BY DEF Do
  <2> HIDE DEF step
  <2> QED
    BY <2>1, <2>2, <2>3
<1>5. ASSUME Chosen(r, host), g.selector = None
      PROVE  /\ \A e \in Entries : g.entries[e] # None => Has(t, {Redo("repath", e, None)})
             /\ \A e \in Of("repath") : Has(t, {e}) => e.was = None
  <2>1. /\ \A e \in Entries : host.entries[e] # None => Has(s, {Redo("repath", e, None)})
        /\ \A e \in Of("repath") : Has(s, {e}) => e.was = None
    BY <1>1, <1>5 DEF Chosen
  <2>2. \A e \in Of("repath") : Has(t, {e}) => e.was = None
    BY <1>2, <2>1
  <2>3. CASE step.do = "repath"
    <3>1. step \in Of("repath") /\ Has(s, {step})
      BY <1>1, <1>2, <2>3 DEF Of
    <3>2. step = Redo("repath", step.on, None) /\ step.on \in Entries
      BY <2>1, <3>1, StepFields
    <3>3. g.entries = [host.entries EXCEPT ![step.on] = None]
      <4>1. g.entries = [host.entries EXCEPT ![step.on] = step.was]
        BY <1>1, <2>3, OutcomeFields
      <4>2. step.was = None
        BY <2>1, <3>1
      <4> QED
        BY <4>1, <4>2
    <3>4. host.entries \in [Entries -> {None, "was", "ours"}]
      BY DEF Hosts
    <3> HIDE DEF s, step, t
    <3>5. ASSUME NEW e \in Entries, g.entries[e] # None
          PROVE  Has(t, {Redo("repath", e, None)})
      <4>1. e # step.on /\ host.entries[e] # None
        BY <3>2, <3>3, <3>4, <3>5
      <4>2. step # Redo("repath", e, None)
        BY <3>2, <4>1 DEF Redo
      <4> QED
        BY <1>2, <2>1, <4>1, <4>2
    <3> QED
      BY <2>2, <3>5
  <2>4. CASE step.do # "repath"
    <3>1. g.entries = host.entries
      BY <1>1, <2>4, OutcomeFields
    <3>2. \A e : step # Redo("repath", e, None)
      BY <2>4 DEF Redo
    <3> HIDE DEF s, step, t
    <3> QED
      BY <1>2, <2>1, <2>2, <3>1, <3>2
  <2> QED
    BY <2>3, <2>4
<1> HIDE DEF s, step, t
<1>6. Chosen(r, host) => Chosen(q, g)
  BY <1>1, <1>5 DEF Chosen
<1>7. ASSUME Consistent(r, host)
      PROVE  Consistent(q, g)
  <2>1. ASSUME NEW text, EndsWith(q, g, text)
        PROVE  EndsWith(r, host, text)
    <3>1. CASE Has(t, PuttingBack(text))
      BY <1>1, <1>2, <3>1 DEF EndsWith
    <3>2. CASE ~Has(t, PuttingBack(text)) /\ step \in Putting
      <4>1. Settings(g) = text /\ step.was = text
        BY <1>1, <1>3, <2>1, <3>2 DEF EndsWith
      <4>2. step \in PuttingBack(text)
        BY <3>2, <4>1 DEF PuttingBack
      <4> QED
        BY <1>1, <1>2, <4>2 DEF EndsWith
    <3>3. CASE ~Has(t, PuttingBack(text)) /\ step \notin Putting
      <4>1. ~Has(t, Putting) /\ Settings(host) = text
        BY <1>1, <1>3, <2>1, <3>3 DEF EndsWith
      <4> QED
        BY <1>1, <1>2, <3>3, <4>1 DEF EndsWith
    <3> QED
      BY <3>1, <3>2, <3>3
  <2>2. \A id \in g.ids : Has(s, {Do("drop", id)}) => Has(t, {Do("drop", id)})
    BY <1>2, <1>4
  <2> QED
    BY <1>1, <1>4, <1>7, <2>1, <2>2 DEF Consistent
<1> QED
  BY <1>6, <1>7

LEMMA OursCompensate ==
  ASSUME Inv, BoundaryInv, Compensate("installer")
  PROVE  BoundaryInv'
<1>1. /\ Ours.failing # "no" /\ Ours.todo # <<>> /\ host' \in Outcomes(Head(Ours.todo))
      /\ Continue("installer", <<>>, <<>>) /\ spoiled' = spoiled
  BY DEF Compensate, Continue, history, Ours, Now
<1>2. /\ host \in Hosts /\ Ours.todo \in Seq(Backward) /\ Tail(Ours.todo) \in Seq(Steps)
  BY <1>1, InstallerTyped
<1>3. <<>> \in Seq(Steps) /\ <<>> \o Tail(Ours.todo) = Tail(Ours.todo)
  BY <1>2, EmptyTyped, ConcatEmptySeq
<1>4. PICK q : /\ run' = [run EXCEPT !["installer"] = q] /\ spoiled' = spoiled
               /\ q.todo = <<>> \o Tail(Ours.todo) /\ q.undo = <<>>
               /\ q.op = Ours.op /\ q.policy = Ours.policy /\ q.failing = Ours.failing
  BY <1>1, <1>3, OursContinues
<1>5. host.selector # None => host'.selector # None
  <2>1. "installer" \in Processes
    BY DEF Processes
  <2> QED
    BY <2>1, CompensateKeeps DEF Keeps, Safe
<1>6. CASE Ours.failing = "badly"
  <2>1. Ours' = q /\ Theirs' = Theirs
    BY <1>4, OursOnly
  <2>2. Broken'
    <3>1. "installer" \in Processes /\ run'["installer"] = q
      BY <2>1 DEF Processes, Ours
    <3> QED
      BY <1>4, <1>6, <3>1 DEF Broken
  <2>3. OursInv'
    BY <1>1, <1>4, <2>1, <2>2 DEF OursInv, Excused, Abandoned
  <2> QED
    BY <2>1, <2>3 DEF BoundaryInv, ManagerInv
<1>7. CASE Ours.failing # "badly"
  <2> DEFINE r == Ours
             g == host'
  <2>1. /\ r.failing # "no" /\ q.failing # "no" /\ r.todo \in Seq(Backward) /\ r.todo # <<>>
        /\ q.todo = Tail(r.todo) /\ g \in Outcomes(Head(r.todo))
        /\ host.selector # None => g.selector # None
    BY <1>1, <1>2, <1>3, <1>4, <1>5
  <2> HIDE DEF r, g
  <2>2. /\ Witnessed(host) /\ Retreat(r, host) => Witnessed(g) /\ Retreat(q, g)
        /\ Chosen(r, host) => Chosen(q, g)
        /\ Consistent(r, host) => Consistent(q, g)
    BY <1>2, <2>1, RetreatNearer, OthersNearer
  <2>3. /\ ~Excused => Witnessed(host') /\ Retreat(q, host')
        /\ ~Abandoned => Chosen(q, host') /\ Consistent(q, host')
    BY <2>2 DEF r, g, BoundaryInv, OursInv
  <2> QED
    BY <1>1, <1>4, <1>7, <2>3, OursTo
<1> QED
  BY <1>6, <1>7

-----------------------------------------------------------------------------
(* The plan of a configuration *)

LEMMA AfterMore ==
  ASSUME NEW s, NEW A, NEW B, NEW X, NEW Y, A \subseteq X, Y \subseteq B, After(s, A, B)
  PROVE  After(s, X, Y)
  BY DEF After

LEMMA WantedPolicies ==
  /\ Wanted("full") = Identities
  /\ \A policy : Wanted(policy) \subseteq Wanted("bootstrap") \cup {"member"}
  /\ \A policy : Wanted("bootstrap") \subseteq Wanted(policy)
  /\ "member" \notin Wanted("bootstrap")
  BY DEF Wanted, Staging, Identities

(* A configuration is planned after none, or on top of the bootstrap one. *)
LEMMA PlannedOn ==
  ASSUME NEW r, r.todo \in Seq(Steps), r.todo # <<>>, Head(r.todo) \in Of("plan"),
         Ordered(r.op, r.todo), Progress(r, host)
  PROVE  /\ ~Has(Tail(r.todo), Creates) /\ ~Has(Tail(r.todo), Writes)
         /\ Has(Tail(r.todo), Of("plan")) => Head(r.todo).on = "bootstrap"
         /\ r.policy = None => r.undo = <<>>
         /\ r.policy # None => /\ Settings(host) = "bootstrap" /\ "member" \notin host.ids
                               /\ Wanted("bootstrap") \subseteq host.ids
         /\ r.op \in {"install", "adopt"} /\ Head(r.todo).on = "full" => host.selector # None
<1> DEFINE step == Head(r.todo)
           t == Tail(r.todo)
<1>1. /\ step \notin Creates /\ step \notin Writes /\ step \notin Selecting
      /\ step # Do("file", "settings") /\ \A id : step # Do("create", id)
  <2>1. step.do = "plan"
    BY DEF Of
  <2>2. step \notin Creates /\ step \notin Writes /\ step \notin Selecting
    BY <2>1 DEF Of, Creates, Writes, Selecting
  <2>3. step # Do("file", "settings") /\ \A id : step # Do("create", id)
    <3>1. \A what, id : Do(what, id).do = what
      BY DEF Do
    <3> HIDE DEF step
    <3> QED
      BY <2>1, <3>1
  <2> QED
    BY <2>2, <2>3
<1>2. \A A : Has(r.todo, A) <=> step \in A \/ Has(t, A)
  BY HasTail
<1>3. /\ Has(t, Creates) => step \in Creates
      /\ Has(t, Writes) => step \in Creates \cup Writes
      /\ Has(t, Of("plan")) => step \in Bootstrapping
      /\ Has(t, Selecting) => step \in Unfinal(r.op)
  BY OrderedTail
<1> HIDE DEF step, t
<1>4. step \in Bootstrapping => step.on = "bootstrap"
  BY DEF Bootstrapping, Of, step
<1>5. ~Has(t, Creates) /\ ~Has(t, Writes)
  BY <1>1, <1>3
<1>6. ~Has(r.todo, {Do("file", "settings")}) /\ \A id \in Identities : ~Has(r.todo, {Do("create", id)})
  <2>1. {Do("file", "settings")} \subseteq Writes
        /\ \A id \in Identities : {Do("create", id)} \subseteq Creates
    BY StepKinds, Nothing
  <2>2. ~Has(t, {Do("file", "settings")}) /\ \A id \in Identities : ~Has(t, {Do("create", id)})
    BY <1>5, <2>1, HasMore
  <2> QED
    BY <1>1, <1>2, <2>2
<1>7. Has(r.todo, Of("plan"))
  BY <1>2 DEF step
<1>8. r.policy # None => /\ Settings(host) = "bootstrap" /\ "member" \notin host.ids
                         /\ Wanted("bootstrap") \subseteq host.ids
  <2> SUFFICES ASSUME r.policy # None
               PROVE  /\ Settings(host) = "bootstrap" /\ "member" \notin host.ids
                      /\ Wanted("bootstrap") \subseteq host.ids
    OBVIOUS
  <2>1. r.policy = "bootstrap"
    BY <1>7 DEF Progress
  <2>2. \A id \in Wanted("bootstrap") : id \in host.ids
    BY <1>6, <2>1, WantedTyped DEF Progress
  <2> QED
    BY <1>6, <2>1, <2>2 DEF Progress
<1>9. r.op \in {"install", "adopt"} /\ step.on = "full" => host.selector # None
  <2> SUFFICES ASSUME r.op \in {"install", "adopt"}, step.on = "full" PROVE host.selector # None
    OBVIOUS
  <2>1. step.do = "plan" /\ step \notin Unfinal(r.op)
    BY DEF Unfinal, Of, step
  <2>2. ~Has(r.todo, Selecting)
    BY <1>1, <1>2, <1>3, <2>1
  <2> QED
    BY <2>2 DEF Progress, Lasting
<1>10. r.policy = None => r.undo = <<>>
  BY DEF Progress
<1> QED
  BY <1>3, <1>4, <1>5, <1>8, <1>9, <1>10 DEF step, t

(* The way back from a planned configuration. *)
LEMMA PlannedRetreat ==
  ASSUME host \in Hosts, NEW policy \in Policies, NEW r, NEW q, NEW e \in Seq(Steps),
         r.failing = "no", q.failing = "no", r.undo \in Seq(Steps),
         e = r.undo \/ e = <<>>, q.undo = HostUndo(policy) \o e,
         r.policy = None => r.undo = <<>>,
         r.policy # None => /\ Settings(host) = "bootstrap" /\ "member" \notin host.ids
                            /\ Wanted("bootstrap") \subseteq host.ids
  PROVE  /\ q.undo \in Seq(Steps) /\ HostUndo(policy) \in Seq(Steps)
         /\ \A A : Has(q.undo, A) <=> Has(HostUndo(policy), A) \/ Has(e, A)
         /\ Witnessed(host) /\ Retreat(r, host) => Retreat(q, host)
         /\ Consistent(r, host) => Consistent(q, host)
<1> DEFINE h == HostUndo(policy)
           u == r.undo
           s == h \o e
           w == Settings(host)
<1>1. /\ h \in Seq(Backing)
      /\ Before(h, Steps \ PuttingBack(None), Putting)
      /\ Has(h, {OldSettings})
      /\ \A x \in Putting : Has(h, {x}) => x = OldSettings
      /\ After(h, {OldSettings}, Drops)
      /\ \A id \in Identities : Has(h, {Do("drop", id)}) <=> id \in Missing(policy)
  BY HostUndoShape
<1>2. /\ OldSettings \in Putting /\ OldSettings.was = w
      /\ OldSettings \in PuttingBack(w)
  BY PutBackShape DEF OldSettings, Settings, Redo, PuttingBack
<1>3. Backing \subseteq Steps
  BY DEF Backing, Drops, Of
<1> HIDE DEF h
<1>4. h \in Seq(Steps)
  BY <1>1, <1>3, SeqMonotone
<1>5. s \in Seq(Steps) /\ \A A : Has(s, A) <=> Has(h, A) \/ Has(e, A)
  BY <1>4, Joined, HasJoined
<1>6. Back(r) = u /\ Back(q) = s
  BY DEF Back, h
<1>7. Has(h, Putting) /\ Has(h, PuttingBack(w))
  <2>1. {OldSettings} \subseteq Putting /\ {OldSettings} \subseteq PuttingBack(w)
    BY <1>2
  <2> QED
    BY <1>1, <2>1, HasMore
<1>8. \A text : Has(h, PuttingBack(text)) => text = w
  <2> TAKE text
  <2> SUFFICES ASSUME Has(h, PuttingBack(text)) PROVE text = w
    OBVIOUS
  <2>1. PICK i \in 1..Len(h) : h[i] \in PuttingBack(text)
    BY DEF Has
  <2>2. Has(h, {h[i]}) /\ h[i] \in Putting /\ h[i].was = text
    BY <2>1 DEF Has, PuttingBack
  <2> QED
    BY <1>1, <1>2, <2>2
<1>9. \A id : Has(h, {Do("drop", id)}) /\ id \in Identities => id \notin host.ids
  BY <1>1 DEF Missing
<1>10. ASSUME NEW D \in SUBSET Drops, Has(h, D)
       PROVE  \E d \in D : d.on \in Missing(policy) /\ d = Do("drop", d.on)
  <2>1. PICK i \in 1..Len(h) : h[i] \in D
    BY <1>10 DEF Has
  <2>2. h[i] = Do("drop", h[i].on) /\ h[i].on \in Identities
    BY <2>1, StepFields
  <2>3. Has(h, {Do("drop", h[i].on)})
    BY <2>1, <2>2 DEF Has
  <2> QED
    BY <1>1, <2>1, <2>2, <2>3
<1>11. e # <<>> => e = u /\ r.policy # None /\ w = "bootstrap"
  OBVIOUS
<1>12. \A A : Has(e, A) => e # <<>> /\ Has(u, A)
  BY <1>11, EmptyHas
<1>13. FullDrops \in SUBSET Drops /\ \A d \in FullDrops : d.on # "member"
  BY DEF FullDrops
<1> HIDE DEF s, u, w
<1>14. ASSUME Witnessed(host), Retreat(r, host)
       PROVE  Retreat(q, host)
  <2>1. /\ Before(u, Steps \ PuttingBack(None), Putting)
        /\ Has(u, PuttingBack("full")) => ~Has(u, Drops)
        /\ After(u, PuttingBack(None), FullDrops)
        /\ \A x \in Putting : Has(u, {x}) /\ x.was # None => Wanted(x.was) \subseteq host.ids
    BY <1>6, <1>14 DEF Retreat
  <2>2. w # None => Wanted(w) \subseteq host.ids
    BY <1>14 DEF Witnessed, w
  <2>3. Before(s, Steps \ PuttingBack(None), Putting)
    <3>1. Before(e, Steps \ PuttingBack(None), Putting)
      BY <1>11, <2>1, EmptyHas
    <3>2. Has(e, Putting) => \A i \in 1..Len(h) : h[i] \in Steps \ PuttingBack(None)
      <4> SUFFICES ASSUME Has(e, Putting), NEW i \in 1..Len(h)
                   PROVE  h[i] \in Steps \ PuttingBack(None)
        OBVIOUS
      <4>1. w = "bootstrap"
        BY <1>11, <1>12
      <4>2. ~Has(h, PuttingBack(None))
        BY <1>8, <4>1, Nothing
      <4>3. h[i] \in Steps
        BY <1>4, ElementOfSeq
      <4> QED
        BY <4>2, <4>3 DEF Has
    <3> QED
      BY <1>1, <1>4, <3>1, <3>2, BeforeJoined DEF s
  <2>4. Has(s, PuttingBack("full")) => ~Has(s, Drops)
    <3> SUFFICES ASSUME Has(s, PuttingBack("full")), Has(s, Drops) PROVE FALSE
      OBVIOUS
    <3>1. Wanted("full") \subseteq host.ids /\ ~Has(e, Drops)
      <4>1. CASE Has(h, PuttingBack("full"))
        <5>1. w = "full"
          BY <1>8, <4>1
        <5> QED
          BY <1>11, <1>12, <2>2, <5>1, Nothing
      <4>2. CASE Has(e, PuttingBack("full"))
        <5>1. e = u /\ Has(u, PuttingBack("full"))
          BY <1>11, <1>12, <4>2
        <5>2. PICK i \in 1..Len(u) : u[i] \in PuttingBack("full")
          BY <5>1 DEF Has
        <5>3. Has(u, {u[i]}) /\ u[i] \in Putting /\ u[i].was = "full"
          BY <5>2 DEF Has, PuttingBack
        <5> QED
          BY <2>1, <5>1, <5>3, Nothing
      <4> QED
        BY <1>5, <4>1, <4>2
    <3>2. Has(h, Drops)
      BY <1>5, <3>1
    <3>3. Missing(policy) # {}
      BY <1>10, <3>2
    <3> QED
      BY <3>1, <3>3, WantedTyped, WantedPolicies DEF Missing
  <2>5. After(s, Putting, Drops)
    <3>1. After(h, Putting, Drops)
      <4>1. {OldSettings} \subseteq Putting
        BY <1>2
      <4> QED
        BY <1>1, <4>1, AfterMore
    <3> QED
      BY <1>4, <1>7, <3>1, AfterJoined DEF s
  <2>6. After(s, PuttingBack(None), FullDrops)
    <3>1. CASE w = None
      <4>1. {OldSettings} \subseteq PuttingBack(None)
        BY <1>2, <3>1
      <4>2. After(h, PuttingBack(None), FullDrops)
        BY <1>1, <1>13, <4>1, AfterMore
      <4>3. Has(h, PuttingBack(None))
        BY <1>7, <3>1
      <4> QED
        BY <1>4, <4>2, <4>3, AfterJoined DEF s
    <3>2. CASE w # None
      <4>1. Missing(policy) \subseteq {"member"}
        BY <2>2, <3>2, WantedPolicies DEF Missing
      <4>2. ~Has(h, FullDrops)
        BY <1>10, <1>13, <4>1
      <4>3. After(h, PuttingBack(None), FullDrops)
        BY <4>2 DEF Has, After
      <4>4. After(e, PuttingBack(None), FullDrops)
        BY <1>11, <2>1, EmptyHas
      <4> QED
        BY <1>4, <4>3, <4>4, AfterJoined DEF s
    <3> QED
      BY <3>1, <3>2
  <2>7. \A x \in Putting : Has(s, {x}) /\ x.was # None => Wanted(x.was) \subseteq host.ids
    BY <1>1, <1>2, <1>5, <1>12, <2>1, <2>2
  <2> QED
    BY <1>6, <2>3, <2>4, <2>5, <2>6, <2>7 DEF Retreat
<1>15. ASSUME Consistent(r, host)
       PROVE  Consistent(q, host)
  <2>1. /\ EndsWith(r, host, None) => \A id \in host.ids : Has(u, {Do("drop", id)})
        /\ EndsWith(r, host, "bootstrap") /\ "member" \in host.ids => Has(u, {Do("drop", "member")})
    BY <1>6, <1>15 DEF Consistent
  <2>2. ASSUME NEW text, EndsWith(q, host, text)
        PROVE  \/ EndsWith(r, host, text) /\ e = u
               \/ w = text
    <3>1. Has(s, PuttingBack(text))
      BY <1>5, <1>6, <1>7, <2>2 DEF EndsWith
    <3>2. CASE Has(h, PuttingBack(text))
      BY <1>8, <3>2
    <3>3. CASE Has(e, PuttingBack(text))
      <4>1. e = u /\ Has(u, PuttingBack(text))
        BY <1>11, <1>12, <3>3
      <4> QED
        BY <1>6, <4>1 DEF EndsWith
    <3> QED
      BY <1>5, <3>1, <3>2, <3>3
  <2>3. r.policy = None => u = <<>> /\ EndsWith(r, host, w)
    BY <1>6, EmptyHas DEF EndsWith, u, w
  <2>4. EndsWith(q, host, None) => \A id \in host.ids : Has(s, {Do("drop", id)})
    <3> SUFFICES ASSUME EndsWith(q, host, None), NEW id \in host.ids PROVE Has(s, {Do("drop", id)})
      OBVIOUS
    <3>1. CASE EndsWith(r, host, None) /\ e = u
      BY <1>5, <2>1, <3>1
    <3>2. CASE w = None
      <4>1. r.policy = None
        BY <3>2, Nothing DEF w
      <4>2. Has(<<>>, {Do("drop", id)})
        BY <2>1, <2>3, <3>2, <4>1
      <4> QED
        BY <4>2, EmptyHas
    <3> QED
      BY <2>2, <3>1, <3>2
  <2>5. EndsWith(q, host, "bootstrap") /\ "member" \in host.ids => Has(s, {Do("drop", "member")})
    <3> SUFFICES ASSUME EndsWith(q, host, "bootstrap"), "member" \in host.ids
                 PROVE  Has(s, {Do("drop", "member")})
      OBVIOUS
    <3>1. CASE EndsWith(r, host, "bootstrap") /\ e = u
      BY <1>5, <2>1, <3>1
    <3>2. CASE w = "bootstrap"
      <4>1. r.policy = None
        OBVIOUS
      <4>2. Has(<<>>, {Do("drop", "member")})
        BY <2>1, <2>3, <3>2, <4>1
      <4> QED
        BY <4>2, EmptyHas
    <3> QED
      BY <2>2, <3>1, <3>2
  <2> QED
    BY <1>6, <2>4, <2>5 DEF Consistent
<1> QED
  BY <1>4, <1>5, <1>14, <1>15 DEF s, h

(* The host with a planned configuration ahead. *)
LEMMA PlannedProgress ==
  ASSUME host \in Hosts, NEW policy \in Policies, NEW r, NEW q,
         r.todo \in Seq(Steps), r.todo # <<>>, Head(r.todo) = Do("plan", policy),
         Head(r.todo) \in Of("plan"), Ordered(r.op, r.todo), Progress(r, host),
         policy = "bootstrap" => "member" \notin host.ids,
         NEW e, e = r.undo \/ e = <<>>,
         q.todo = Configuration(policy) \o Tail(r.todo), q.undo = HostUndo(policy) \o e,
         \A A : Has(q.undo, A) <=> Has(HostUndo(policy), A) \/ Has(e, A),
         q.op = r.op, q.policy = policy
  PROVE  /\ Ordered(q.op, q.todo) /\ Progress(q, host)
         /\ ~Has(HostUndo(policy), Of("repath"))
         /\ \A A \in {Of("snapshot"), Of("entry")} \cup SUBSET Of("entry") : Has(q.todo, A) => Has(r.todo, A)
<1> DEFINE c == Configuration(policy)
           t == Tail(r.todo)
           h == HostUndo(policy)
<1>1. /\ ~Has(t, Creates) /\ ~Has(t, Writes)
      /\ Has(t, Of("plan")) => policy = "bootstrap"
  BY PlannedOn DEF Do
<1>2. \A op : /\ Ordered(op, c) /\ c \in Seq(Bootstrapping) /\ c \in Seq(Bystanding)
              /\ c \in Seq(Unfinal(op)) /\ c \in Seq(Steps)
              /\ ~Has(c, Of("plan")) /\ ~Has(c, Selecting)
              /\ ~Has(c, Of("snapshot")) /\ ~Has(c, Of("entry"))
  BY ConfigurationOrdered
<1>3. /\ \A id \in Identities : Has(c, {Do("create", id)}) <=> id \in Missing(policy)
      /\ Has(c, {Do("file", "settings")})
  BY ConfigurationShape
<1>4. /\ h \in Seq(Backing) /\ Has(h, {OldSettings}) /\ OldSettings \in Putting
      /\ \A id \in Identities : Has(h, {Do("drop", id)}) <=> id \in Missing(policy)
  BY HostUndoShape, PutBackShape
<1>5. t \in Seq(Steps) /\ Ordered(r.op, t)
  BY OrderedTail, HeadTailProperties
<1>6. Head(r.todo) \notin Selecting
  BY DEF Of, Selecting
<1>7. \A A : Has(r.todo, A) <=> Head(r.todo) \in A \/ Has(t, A)
  BY HasTail
<1> HIDE DEF c, t, h
<1>8. Ordered(r.op, c \o t)
  <2> DEFINE op == r.op
  <2>1. /\ Ordered(op, c) /\ Ordered(op, t)
        /\ c \in Seq(Bootstrapping) /\ c \in Seq(Bystanding) /\ c \in Seq(Unfinal(op)) /\ c \in Seq(Steps)
    BY <1>2, <1>5
  <2> HIDE DEF op
  <2>2. Ordered(op, c \o t)
    BY <1>1, <1>5, <2>1, OrderedJoined
  <2> QED
    BY <2>2 DEF op
<1>9. q.todo = c \o t /\ q.undo = h \o e /\ \A A : Has(q.undo, A) <=> Has(h, A) \/ Has(e, A)
  BY DEF c, t, h
<1>10. \A A : Has(q.todo, A) <=> Has(c, A) \/ Has(t, A)
  <2>1. \A A : Has(c \o t, A) <=> Has(c, A) \/ Has(t, A)
    BY <1>2, <1>5, HasJoined
  <2> QED
    BY <1>9, <2>1
<1>11. \A id \in Identities : Has(q.todo, {Do("create", id)}) <=> id \in Missing(policy)
  <2> TAKE id \in Identities
  <2>1. {Do("create", id)} \subseteq Creates
    BY StepKinds
  <2>2. ~Has(t, {Do("create", id)})
    BY <1>1, <2>1, HasMore
  <2> QED
    BY <1>3, <1>10, <2>2
<1>12. ~Has(h, Of("repath")) /\ Has(h, Putting)
  <2>1. Backing \cap Of("repath") = {} /\ {OldSettings} \subseteq Putting
    BY <1>4 DEF Backing, Drops, Of
  <2> QED
    BY <1>4, <2>1, HasNone, HasMore
<1>13. \A A : Has(e, A) => Has(r.undo, A)
  BY EmptyHas
<1>14. policy # None
  BY Nothing
<1>15. /\ \A id \in Identities : Has(q.todo, {Do("create", id)}) => Has(q.undo, {Do("drop", id)})
       /\ q.op \notin Lasting => ~Has(q.undo, Of("repath"))
       /\ q.op \in Lasting => Has(q.todo, Selecting) \/ host.selector # None
  BY <1>4, <1>6, <1>7, <1>9, <1>10, <1>11, <1>12, <1>13 DEF Progress
<1>16. /\ Has(q.undo, Putting)
       /\ \A id \in Wanted(policy) : id \in host.ids \/ Has(q.todo, {Do("create", id)})
       /\ Has(q.todo, {Do("file", "settings")})
       /\ Has(q.todo, Of("plan")) => policy = "bootstrap"
  BY <1>1, <1>2, <1>3, <1>9, <1>10, <1>11, <1>12, WantedTyped DEF Missing
<1>17. policy = "bootstrap" => "member" \notin host.ids /\ ~Has(q.todo, {Do("create", "member")})
  BY <1>11, WantedPolicies, Nothing DEF Missing
<1>18. Ordered(q.op, q.todo)
  BY <1>8, <1>9
<1>19. Progress(q, host)
  BY <1>14, <1>15, <1>16, <1>17 DEF Progress
<1>20. \A A \in {Of("snapshot"), Of("entry")} \cup SUBSET Of("entry") : Has(q.todo, A) => Has(r.todo, A)
  <2> TAKE A \in {Of("snapshot"), Of("entry")} \cup SUBSET Of("entry")
  <2>1. ~Has(c, A)
    BY <1>2, HasMore
  <2> QED
    BY <1>7, <1>10, <2>1
<1> QED
  BY <1>12, <1>18, <1>19, <1>20 DEF h

LEMMA OursPlan ==
  ASSUME Inv, BoundaryInv, Plan("installer")
  PROVE  BoundaryInv'
<1> DEFINE step == Head(Ours.todo)
           policy == step.on
           c == Configuration(policy)
           h == HostUndo(policy)
           e == Enclosing("installer", policy)
           t == c \o Tail(Ours.todo)
           u == h \o e
           q == [Ours EXCEPT !.policy = policy, !.todo = t, !.undo = u]
<1>1. /\ host' = host /\ Ours.failing = "no" /\ Ours.todo # <<>> /\ step.do = "plan" /\ spoiled' = spoiled
      /\ run' = [run EXCEPT !["installer"] = q] /\ ~Refuses(policy, Ours.flag)
  <2>1. run \in [Processes -> Runs] /\ "installer" \in Processes
    BY DEF Inv, TypeOK, Processes
  <2>2. run' = [run EXCEPT !["installer"] = q]
    BY <2>1 DEF Plan, Ours, Now
  <2> QED
    BY <2>2 DEF Plan, Ready, Rejected, At, Now, Ours, history
<1>2. /\ Ours.undo \in Seq(Steps) /\ Ours.todo \in Seq(Steps) /\ step \in Steps /\ Ours \in Runs
      /\ host \in Hosts /\ Ordered(Ours.op, Ours.todo) /\ Progress(Ours, host)
  BY <1>1, InstallerTyped DEF BoundaryInv, OursInv
<1>3. step \in Of("plan") /\ policy \in Policies /\ step = Do("plan", policy)
  BY <1>1, <1>2, StepFields DEF Of
<1>4. /\ e = Ours.undo \/ (e = <<>> /\ Ours.op \in {"install", "adopt"} /\ policy = "full")
  BY <1>3 DEF Enclosing, Ours, Policies
<1>5. policy = "bootstrap" => "member" \notin host.ids
  BY <1>1 DEF Refuses
<1> HIDE DEF t, u
<1>6. q.todo = t /\ q.undo = u /\ q.policy = policy /\ q.op = Ours.op /\ q.failing = "no"
  BY <1>1, <1>2 DEF Runs
<1> HIDE DEF q, e, policy
<1>7. e \in Seq(Steps)
  BY <1>2, <1>4, EmptyTyped
<1> DEFINE r == Ours
<1>8. /\ r.todo \in Seq(Steps) /\ r.undo \in Seq(Steps) /\ r.todo # <<>>
      /\ Head(r.todo) = Do("plan", policy) /\ Head(r.todo) \in Of("plan") /\ Head(r.todo).on = policy
      /\ Ordered(r.op, r.todo) /\ Progress(r, host) /\ r.failing = "no"
      /\ e = r.undo \/ (e = <<>> /\ r.op \in {"install", "adopt"} /\ policy = "full")
      /\ q.todo = Configuration(policy) \o Tail(r.todo) /\ q.undo = HostUndo(policy) \o e
      /\ q.policy = policy /\ q.op = r.op /\ q.failing = "no"
  BY <1>1, <1>2, <1>3, <1>4, <1>6 DEF t, u, policy
<1> HIDE DEF r, step
<1>9. /\ r.policy = None => r.undo = <<>>
      /\ r.policy # None => /\ Settings(host) = "bootstrap" /\ "member" \notin host.ids
                            /\ Wanted("bootstrap") \subseteq host.ids
      /\ r.op \in {"install", "adopt"} /\ policy = "full" => host.selector # None
  BY <1>8, PlannedOn
<1>10. /\ q.undo \in Seq(Steps)
       /\ \A A : Has(q.undo, A) <=> Has(HostUndo(policy), A) \/ Has(e, A)
       /\ Witnessed(host) /\ Retreat(r, host) => Retreat(q, host)
       /\ Consistent(r, host) => Consistent(q, host)
  BY <1>2, <1>3, <1>7, <1>8, <1>9, PlannedRetreat
<1>11. /\ Ordered(q.op, q.todo) /\ Progress(q, host)
       /\ ~Has(HostUndo(policy), Of("repath"))
       /\ \A A \in {Of("snapshot"), Of("entry")} \cup SUBSET Of("entry") : Has(q.todo, A) => Has(r.todo, A)
  BY <1>2, <1>3, <1>5, <1>8, <1>10, PlannedProgress
<1>12. Chosen(r, host) => Chosen(q, host)
  <2> SUFFICES ASSUME Chosen(r, host), host.selector = None PROVE Chosen(q, host)
    BY DEF Chosen
  <2>1. e = r.undo
    BY <1>8, <1>9
  <2>2. Back(r) = r.undo /\ Back(q) = q.undo
    BY <1>8 DEF Back
  <2>3. \A A : Has(r.undo, A) => Has(q.undo, A)
    BY <1>10, <2>1
  <2>4. \A A \in SUBSET Of("repath") : Has(q.undo, A) => Has(r.undo, A)
    <3> TAKE A \in SUBSET Of("repath")
    <3>1. ~Has(HostUndo(policy), A)
      BY <1>11, HasMore
    <3> QED
      BY <1>10, <2>1, <3>1
  <2>5. \A x \in Entries : {Do("entry", x)} \in SUBSET Of("entry")
    BY StepKinds
  <2>6. \A x \in Entries : host.entries[x] # None => Has(q.undo, {Redo("repath", x, None)})
    BY <2>2, <2>3 DEF Chosen
  <2>7. \A x \in Of("repath") : Has(q.undo, {x}) => x.was = None
    <3>1. \A x \in Of("repath") : {x} \in SUBSET Of("repath")
      OBVIOUS
    <3> QED
      BY <2>2, <2>4, <3>1 DEF Chosen
  <2>8. \A x \in Entries : Has(q.todo, {Do("entry", x)}) => Has(q.undo, {Redo("repath", x, None)})
    <3> TAKE x \in Entries
    <3>1. Has(q.todo, {Do("entry", x)}) => Has(r.todo, {Do("entry", x)})
      BY <1>11, <2>5
    <3> QED
      BY <1>8, <2>3, <3>1 DEF Chosen
  <2>9. Has(q.todo, Of("snapshot")) => ~Has(q.undo, Of("repath"))
    <3>1. Has(q.todo, Of("snapshot")) => Has(r.todo, Of("snapshot"))
      BY <1>11
    <3> QED
      BY <1>8, <2>4, <3>1 DEF Chosen
  <2> QED
    BY <2>2, <2>6, <2>7, <2>8, <2>9 DEF Chosen
<1>13. /\ ~Excused => Witnessed(host') /\ Retreat(q, host')
       /\ ~Abandoned => Chosen(q, host') /\ Consistent(q, host')
  BY <1>1, <1>10, <1>12 DEF r, BoundaryInv, OursInv
<1>14. Ours.failing # "badly" /\ Ordered(q.op, q.todo) /\ Progress(q, host')
  BY <1>1, <1>11
<1> QED
  BY <1>1, <1>13, <1>14, OursTo

-----------------------------------------------------------------------------
(* awgctl update *)

(* What awgctl update does leaves the accounts, files and entry points alone. *)
Aside(g) ==
  /\ g.ids = host.ids /\ g.files = host.files /\ g.entries = host.entries
  /\ host.selector # None => g.selector # None

LEMMA OursAside ==
  ASSUME BoundaryInv, Ours'.todo = Ours.todo, Ours'.undo = Ours.undo,
         Ours'.failing = Ours.failing, Ours'.policy = Ours.policy, Ours'.op = Ours.op,
         Aside(host'), Excused => Excused', Abandoned => Abandoned'
  PROVE  OursInv'
<1> DEFINE r == Ours
           q == Ours'
           g == host'
<1>1. /\ q.todo = r.todo /\ q.undo = r.undo /\ q.failing = r.failing /\ q.policy = r.policy /\ q.op = r.op
      /\ g.ids = host.ids /\ g.files = host.files /\ g.entries = host.entries
      /\ host.selector # None => g.selector # None
  BY DEF Aside
<1> HIDE DEF r, q, g
<1>2. /\ Progress(r, host) => Progress(q, g)
      /\ Witnessed(host) => Witnessed(g)
      /\ Retreat(r, host) => Retreat(q, g)
      /\ Chosen(r, host) => Chosen(q, g)
      /\ Consistent(r, host) => Consistent(q, g)
  BY <1>1, Unmoved
<1>3. /\ r.failing = "no" => Ordered(r.op, r.todo) /\ Progress(r, host)
      /\ ~Excused => Witnessed(host) /\ Retreat(r, host)
      /\ ~Abandoned => Chosen(r, host) /\ Consistent(r, host)
  BY DEF r, BoundaryInv, OursInv
<1>4. /\ q.failing = "no" => Ordered(q.op, q.todo) /\ Progress(q, g)
      /\ ~Excused' => Witnessed(g) /\ Retreat(q, g)
      /\ ~Abandoned' => Chosen(q, g) /\ Consistent(q, g)
  BY <1>1, <1>2, <1>3
<1> QED
  BY <1>4 DEF OursInv, q, g

(* One step of awgctl update. *)
LEMMA TheirsTo ==
  ASSUME Inv, BoundaryInv, NEW q, run' = [run EXCEPT !["manager"] = q],
         q.todo \in Seq(Deploying), q.undo \in Seq(Deploying), q.op \notin Lasting,
         Theirs.failing = "badly" => q.failing = "badly" \/ spoiled' = "incomplete",
         spoiled' = spoiled \/ spoiled' = "incomplete", Aside(host')
  PROVE  BoundaryInv'
<1>1. run \in [Processes -> Runs] /\ "installer" \in Processes /\ "manager" \in Processes
      /\ \A p \in Processes : p = "installer" \/ p = "manager"
  BY DEF Inv, TypeOK, Processes
<1>2. Ours' = Ours /\ Theirs' = q
  BY <1>1 DEF Ours, Theirs
<1>3. Broken => Broken' \/ spoiled' = "incomplete"
  <2>1. run'["installer"] = run["installer"] /\ run'["manager"] = q
    BY <1>1
  <2> QED
    BY <1>1, <2>1 DEF Broken, Theirs
<1>4. (Excused => Excused') /\ (Abandoned => Abandoned')
  BY <1>3 DEF Excused, Abandoned
<1>5. ManagerInv'
  BY <1>2 DEF ManagerInv
<1>6. OursInv'
  BY <1>2, <1>4, OursAside
<1> QED
  BY <1>5, <1>6 DEF BoundaryInv

LEMMA TheirsFields ==
  ASSUME Inv, BoundaryInv
  PROVE  /\ run["manager"] = Theirs /\ Theirs \in Runs /\ host \in Hosts /\ "manager" \in Processes
         /\ Theirs.todo \in Seq(Deploying) /\ Theirs.undo \in Seq(Deploying) /\ Theirs.op \notin Lasting
         /\ Theirs.todo # <<>> => /\ Head(Theirs.todo) \in Deploying
                                  /\ Tail(Theirs.todo) \in Seq(Deploying)
<1>1. /\ Theirs.todo \in Seq(Deploying) /\ Theirs.undo \in Seq(Deploying) /\ Theirs.op \notin Lasting
  BY DEF BoundaryInv, ManagerInv
<1>2. run["manager"] = Theirs /\ Theirs \in Runs /\ host \in Hosts /\ "manager" \in Processes
  BY DEF Inv, TypeOK, Processes, Theirs
<1> QED
  BY <1>1, <1>2, HeadTailProperties

LEMMA TheirsContinue ==
  ASSUME Inv, BoundaryInv, NEW s \in Seq(Deploying), NEW b \in Seq(Deploying), Theirs.todo # <<>>,
         Continue("manager", s, b), Aside(host')
  PROVE  BoundaryInv'
<1> DEFINE t == s \o Tail(Theirs.todo)
           q == [Theirs EXCEPT !.todo = t, !.undo = b]
<1>1. /\ Theirs \in Runs /\ Tail(Theirs.todo) \in Seq(Deploying) /\ Theirs.op \notin Lasting
  BY TheirsFields
<1>2. t \in Seq(Deploying)
  BY <1>1, Joined
<1>3. run' = [run EXCEPT !["manager"] = q] /\ spoiled' = spoiled
  <2>1. run \in [Processes -> Runs] /\ "manager" \in Processes
    BY DEF Inv, TypeOK, Processes
  <2> QED
    BY <2>1 DEF Continue, history, Theirs
<1> HIDE DEF t
<1>4. q.todo = t /\ q.undo = b /\ q.op = Theirs.op /\ q.failing = Theirs.failing
  BY <1>1 DEF Runs
<1> HIDE DEF q
<1> QED
  BY <1>1, <1>2, <1>3, <1>4, TheirsTo

LEMMA PlacingDeploying == Placing \subseteq Deploying /\ Of("reselect") \subseteq Deploying
  BY DEF Placing, Deploying, Of

LEMMA AsideItself == Aside(host)
  BY DEF Aside

LEMMA TheirsDone ==
  ASSUME Inv, BoundaryInv, Theirs.todo # <<>>
  PROVE  Aside(Done(Head(Theirs.todo), Theirs))
<1> DEFINE step == Head(Theirs.todo)
           g == Done(step, Theirs)
<1>1. /\ step \in Steps /\ step.do \notin {"create", "file", "entry"} /\ host \in Hosts
  BY TheirsFields DEF Deploying
<1>2. /\ g.ids = host.ids /\ g.files = host.files /\ g.entries = host.entries
      /\ g.selector = IF step.do = "activate" THEN step.on ELSE host.selector
  BY <1>1, DoneFields
<1>3. step.do = "activate" => step.on # None
  BY <1>1, Values DEF Steps
<1> QED
  BY <1>2, <1>3 DEF Aside

LEMMA TheirsForward ==
  ASSUME Inv, BoundaryInv,
         \/ Plan("manager") \/ Snapshot("manager") \/ Select("manager")
         \/ Release("manager") \/ Advance("manager")
  PROVE  BoundaryInv'
<1> DEFINE step == Head(Theirs.todo)
<1>1. /\ run["manager"] = Theirs /\ host \in Hosts
      /\ Theirs.todo \in Seq(Deploying) /\ Theirs.undo \in Seq(Deploying)
      /\ Theirs.todo # <<>> => step \in Deploying
  BY TheirsFields
<1>2. /\ Theirs.todo # <<>> => step \in Steps /\ step.do \notin {"plan", "snapshot"}
  BY <1>1 DEF Deploying
<1>3. <<>> \in Seq(Deploying)
  BY EmptyTyped
<1>4. \A v \in Versions : Reselect(v) \in Seq(Deploying)
  <2> TAKE v \in Versions
  <2>1. Reselect(v) \in Seq(Of("reselect"))
    BY PlacingKinds
  <2> QED
    BY <2>1, PlacingDeploying, SeqMonotone
<1>5. \A s \in Seq(Placing) : s \in Seq(Deploying)
  BY PlacingDeploying, SeqMonotone
<1>6. CASE Select("manager")
  <2> DEFINE import == host.selector = "plain" /\ host.releases["legacy-import"] = None
             s == IF import
                  THEN <<Do("stage", "legacy-import"), Do("publish", "legacy-import")>> ELSE <<>>
             b == IF host.selector = None \/ import THEN <<>> ELSE Reselect(Product(host))
  <2>1. host' = host /\ Theirs.todo # <<>> /\ Continue("manager", s, b \o Theirs.undo)
    BY <1>1, <1>6 DEF Select, Ready, At, Now
  <2>2. "legacy-import" \in Versions
    BY DEF Versions
  <2>3. s \in Seq(Deploying)
    BY <1>3, <1>5, <2>2, PlacingKinds
  <2>4. host.selector # None => Product(host) \in Versions
    BY <1>1, <2>2 DEF Product, Hosts
  <2>5. b \in Seq(Deploying)
    BY <1>3, <1>4, <2>4
  <2> HIDE DEF s, b
  <2>6. b \o Theirs.undo \in Seq(Deploying)
    BY <1>1, <2>5, Joined
  <2> QED
    BY <2>1, <2>3, <2>6, AsideItself, TheirsContinue
<1>7. CASE Release("manager")
  <2> DEFINE v == step.on
             p == IF host.releases[v] = None THEN <<Do("stage", v), Do("publish", v)>> ELSE <<>>
             a == <<Do("activate", v)>>
             s == p \o a
  <2>1. /\ host' = host /\ Theirs.todo # <<>> /\ step.do = "release"
        /\ Continue("manager", s, Theirs.undo)
    BY <1>1, <1>7 DEF Release, Ready, At, Now
  <2>2. v \in Versions
    BY <1>2, <2>1 DEF Steps
  <2>3. p \in Seq(Deploying) /\ a \in Seq(Deploying)
    BY <1>3, <1>5, <2>2, PlacingKinds
  <2> HIDE DEF p, a
  <2>4. s \in Seq(Deploying)
    BY <2>3, Joined
  <2> HIDE DEF s
  <2> QED
    BY <1>1, <2>1, <2>4, AsideItself, TheirsContinue
<1>8. CASE Advance("manager")
  <2> DEFINE b == IF step.do = "publish" /\ step.on = "legacy-import"
                  THEN Reselect("legacy-import") ELSE <<>>
  <2>1. /\ Theirs.todo # <<>> /\ host' = Done(step, Theirs)
        /\ Continue("manager", <<>>, b \o Theirs.undo)
    BY <1>1, <1>8 DEF Advance, Ready, At, Now
  <2>2. b \in Seq(Deploying)
    BY <1>3, <1>4 DEF Versions
  <2> HIDE DEF b
  <2>3. b \o Theirs.undo \in Seq(Deploying)
    BY <1>1, <2>2, Joined
  <2>4. Aside(host')
    BY <2>1, TheirsDone
  <2> QED
    BY <1>3, <2>1, <2>3, <2>4, TheirsContinue
<1>9. ~Plan("manager") /\ ~Snapshot("manager")
  BY <1>1, <1>2 DEF Plan, Snapshot, Ready, At, Now
<1> QED
  BY <1>6, <1>7, <1>8, <1>9

LEMMA TheirsFails ==
  ASSUME Inv, BoundaryInv,
         StepFails("manager") \/ Compensate("manager") \/ CompensationFails("manager")
  PROVE  BoundaryInv'
<1> DEFINE step == Head(Theirs.todo)
<1>1. /\ run["manager"] = Theirs /\ host \in Hosts /\ Theirs \in Runs /\ Theirs.op \notin Lasting
      /\ Theirs.todo \in Seq(Deploying) /\ Theirs.undo \in Seq(Deploying) /\ "manager" \in Processes
      /\ Theirs.todo # <<>> => step \in Deploying /\ Tail(Theirs.todo) \in Seq(Deploying)
  BY TheirsFields
<1>2. run \in [Processes -> Runs]
  BY DEF Inv, TypeOK
<1>3. <<>> \in Seq(Deploying)
  BY EmptyTyped
<1>4. CASE StepFails("manager")
  <2> DEFINE t == Compensation("manager")
             q == [Theirs EXCEPT !.todo = t, !.undo = <<>>, !.failing = "yes"]
  <2>1. /\ Theirs.todo # <<>> /\ Theirs.failing = "no" /\ spoiled' = spoiled
        /\ host' = host \/ host' = Done(step, Theirs)
        /\ run' = [run EXCEPT !["manager"] = q]
    BY <1>1, <1>2, <1>4 DEF StepFails, Now, history
  <2>2. t \in Seq(Deploying)
    BY <1>1, <1>3 DEF Compensation, Enclosing
  <2> HIDE DEF t
  <2>3. q.todo = t /\ q.undo = <<>> /\ q.op = Theirs.op
    BY <1>1 DEF Runs
  <2>4. Aside(host')
    BY <2>1, AsideItself, TheirsDone
  <2> HIDE DEF q
  <2> QED
    BY <1>1, <1>3, <2>1, <2>2, <2>3, <2>4, TheirsTo
<1>5. ASSUME Theirs.failing # "no", Theirs.todo # <<>>
      PROVE  step \in Backward /\ step.do = "reselect"
  <2>1. step \in Backward
    BY <1>1, <1>5, Ahead DEF Now
  <2>2. step.do = "reselect"
    BY <1>1, <1>5, <2>1 DEF Backward, Compensations, Deploying
  <2> QED
    BY <2>1, <2>2
<1>6. CASE Compensate("manager")
  <2>1. /\ Theirs.failing # "no" /\ Theirs.todo # <<>> /\ host' \in Outcomes(step)
        /\ Continue("manager", <<>>, <<>>)
    BY <1>1, <1>6 DEF Compensate, Now
  <2>2. host.selector # None => host'.selector # None
    BY <1>1, <1>6, CompensateKeeps DEF Keeps, Safe
  <2>3. host'.ids = host.ids /\ host'.files = host.files /\ host'.entries = host.entries
    BY <1>1, <1>5, <2>1, OutcomeFields
  <2> QED
    BY <1>3, <2>1, <2>2, <2>3, TheirsContinue DEF Aside
<1>7. CASE CompensationFails("manager")
  <2> DEFINE t == Tail(Theirs.todo)
             q == [Theirs EXCEPT !.todo = t, !.failing = "badly"]
             h == Undone(step)
  <2>1. /\ Theirs.failing # "no" /\ Theirs.todo # <<>> /\ spoiled' = spoiled
        /\ run' = [run EXCEPT !["manager"] = q]
    BY <1>1, <1>2, <1>7 DEF CompensationFails, history
  <2>2. t \in Seq(Deploying)
    BY <1>1, <2>1
  <2> HIDE DEF t
  <2>3. q.todo = t /\ q.undo = Theirs.undo /\ q.op = Theirs.op /\ q.failing = "badly"
    BY <1>1 DEF Runs
  <2> HIDE DEF q
  <2>4. host.selector # None => host'.selector # None
    BY <1>1, <1>7, CompensationFailsKeeps DEF Keeps, Safe
  <2>5. h \in Outcomes(step)
    BY DEF Outcomes
  <2>6. h.ids = host.ids /\ h.files = host.files /\ h.entries = host.entries
    BY <1>1, <1>5, <2>1, <2>5, OutcomeFields
  <2>7. host' = host \/ host' \in Halfway(step)
    BY <1>1, <1>5, <1>7, <2>1 DEF CompensationFails, Now, At
  <2>8. host'.ids = host.ids /\ host'.files = host.files /\ host'.entries = host.entries
    <3>1. h \in Hosts \/ host' = host
      <4>1. CASE Impossible(step)
        BY <1>1, <1>5, <1>7, <2>1, <4>1 DEF CompensationFails, Now, At
      <4>2. CASE ~Impossible(step)
        <5>1. host.releases[step.on] # None
          BY <1>5, <2>1, <4>2 DEF Impossible
        <5> QED
          BY <1>1, <1>5, <2>1, <5>1, UndoneSafe DEF Safe
      <4> QED
        BY <4>1, <4>2
    <3>2. CASE host' = host
      BY <3>2
    <3>3. CASE host' # host
      <4>1. \E l \in {host.links, h.links}, a \in {host.active, h.active} :
              host' = [h EXCEPT !.links = l, !.active = a]
        BY <2>7, <3>3 DEF Halfway
      <4>2. h \in Hosts
        BY <3>1, <3>3
      <4> HIDE DEF h
      <4>3. PICK l \in {host.links, h.links}, a \in {host.active, h.active} :
              host' = [h EXCEPT !.links = l, !.active = a]
        BY <4>1, Zenon
      <4>4. host'.ids = h.ids /\ host'.files = h.files /\ host'.entries = h.entries
        BY <4>2, <4>3 DEF Hosts
      <4> QED
        BY <2>6, <4>4
    <3> QED
      BY <3>2, <3>3
  <2>9. Aside(host')
    BY <2>4, <2>8 DEF Aside
  <2> QED
    BY <1>1, <2>1, <2>2, <2>3, <2>9, TheirsTo
<1> QED
  BY <1>4, <1>6, <1>7

LEMMA TheirsFinish ==
  ASSUME Inv, BoundaryInv, Finish("manager")
  PROVE  BoundaryInv'
<1>1. /\ host' = host /\ run' = [run EXCEPT !["manager"] = Idle]
      /\ spoiled' = IF Theirs.failing = "badly" THEN "incomplete" ELSE spoiled
  BY TheirsFields DEF Finish, Lasting
<1>2. Idle.op \notin Lasting
  BY Nothing DEF Idle
<1> QED
  BY <1>1, <1>2, IdleTyped, EmptyTyped, AsideItself, TheirsTo

LEMMA TheirsBegin ==
  ASSUME Inv, BoundaryInv, Update
  PROVE  BoundaryInv'
<1>0. PICK version \in Offered : Begin("manager", "update", FALSE, version)
  BY DEF Update, Offered
<1> DEFINE first == Started("update", FALSE, version)
           lonely == (run["installer"] = Idle)
<1>1. /\ Theirs = Idle /\ host' = host /\ spoiled' = spoiled
      /\ run' = [q \in Processes |-> IF q = "manager" THEN first
                                    ELSE [run[q] EXCEPT !.alone = (run[q] = Idle)]]
  BY <1>0 DEF Begin, Theirs
<1>2. run \in [Processes -> Runs] /\ Processes = {"installer", "manager"}
  BY DEF Inv, TypeOK, Processes
<1>3. /\ first.op = "update" /\ first.undo = <<>>
      /\ first.todo = <<Do("select", None), Do("release", version), Do("health", "trial")>>
  BY DEF Started, Program
<1>4. first.todo \in Seq(Deploying)
  <2> DEFINE a == Do("select", None)
             b == Do("release", version)
             c == Do("health", "trial")
  <2>1. a \in Of("select") /\ b \in Of("release") /\ c \in Of("health")
    BY StepKinds DEF Versions, Offered
  <2> HIDE DEF a, b, c
  <2>2. a \in Deploying /\ b \in Deploying /\ c \in Deploying
    BY <2>1 DEF Of, Deploying
  <2>3. <<a, b, c>> \in Seq(Deploying)
    BY <2>2
  <2> HIDE DEF first
  <2> QED
    BY <1>3, <2>3 DEF a, b, c
<1> HIDE DEF first
<1>5. Ours' = [Ours EXCEPT !.alone = lonely] /\ Theirs' = first
  BY <1>1, <1>2 DEF Ours, Theirs
<1> HIDE DEF lonely
<1>6. /\ Ours'.todo = Ours.todo /\ Ours'.undo = Ours.undo /\ Ours'.op = Ours.op
      /\ Ours'.failing = Ours.failing /\ Ours'.policy = Ours.policy
  <2>1. Ours \in Runs
    BY <1>2 DEF Ours
  <2> QED
    BY <1>5, <2>1 DEF Runs
<1>7. ManagerInv'
  BY <1>3, <1>4, <1>5, EmptyTyped DEF ManagerInv, Lasting
<1>8. (Excused => Excused') /\ (Abandoned => Abandoned')
  <2>1. Broken => Ours.failing = "badly"
    BY <1>1, <1>2, IdleTyped DEF Broken, Ours, Theirs
  <2>2. Ours'.failing = "badly" => Broken'
    BY <1>2 DEF Broken, Ours
  <2> QED
    BY <1>1, <1>6, <2>1, <2>2 DEF Excused, Abandoned
<1>9. OursInv'
  BY <1>1, <1>6, <1>8, AsideItself, OursAside
<1> QED
  BY <1>7, <1>9 DEF BoundaryInv

-----------------------------------------------------------------------------
(* Kills, reboots and the invariant *)

LEMMA KilledBoundary ==
  ASSUME Inv, BoundaryInv, NEW P \in SUBSET Processes, Killed(P), Aside(host')
  PROVE  BoundaryInv'
<1>1. /\ run' = [p \in Processes |-> IF p \in P THEN Idle ELSE run[p]]
      /\ spoiled' = IF spoiled = "incomplete" \/ \E p \in P : run[p].failing = "badly"
                    THEN "incomplete" ELSE "killed"
  BY DEF Killed
<1>2. "installer" \in Processes /\ "manager" \in Processes
  BY DEF Processes
<1>3. /\ Ours' = IF "installer" \in P THEN Idle ELSE Ours
      /\ Theirs' = IF "manager" \in P THEN Idle ELSE Theirs
  BY <1>1, <1>2 DEF Ours, Theirs
<1>4. Excused => Excused'
  <2>1. ASSUME NEW p \in Processes, run[p].failing = "badly"
        PROVE  spoiled' = "incomplete" \/ Broken'
    BY <1>1, <2>1 DEF Broken
  <2> QED
    BY <1>1, <2>1 DEF Excused, Broken
<1>5. Abandoned'
  BY <1>1 DEF Abandoned
<1>6. ManagerInv'
  <2>1. Idle.op \notin Lasting
    BY Nothing DEF Idle
  <2> QED
    BY <1>3, <2>1, IdleTyped, EmptyTyped DEF BoundaryInv, ManagerInv
<1>7. CASE "installer" \in P
  <2>1. Ours' = Idle
    BY <1>3, <1>7
  <2> DEFINE g == host'
  <2>2. Settings(g) = Settings(host) /\ g.ids = host.ids
    BY DEF Settings, Aside
  <2> HIDE DEF g
  <2>3. Witnessed(host) => Witnessed(g)
    BY <2>2 DEF Witnessed
  <2>4. Ordered(Idle.op, Idle.todo) /\ Progress(Idle, g) /\ Retreat(Idle, g)
    BY IdleProgress, NothingBack
  <2>5. ~Excused => Witnessed(host)
    BY DEF BoundaryInv, OursInv
  <2>6. OursInv'
    BY <1>4, <1>5, <2>1, <2>3, <2>4, <2>5 DEF OursInv, g
  <2> QED
    BY <1>6, <2>6 DEF BoundaryInv
<1>8. CASE "installer" \notin P
  <2>1. OursInv'
    BY <1>3, <1>4, <1>5, <1>8, OursAside
  <2> QED
    BY <1>6, <2>1 DEF BoundaryInv
<1> QED
  BY <1>7, <1>8

LEMMA RebootBoundary ==
  ASSUME Inv, BoundaryInv, Reboot
  PROVE  BoundaryInv'
<1>1. host' = Booted(host) /\ host \in Hosts
  BY DEF Reboot, Inv, TypeOK
<1>2. Aside(host')
  <2> DEFINE l == host.links \ {"runtime"}
             a == host.files["timer"] # None /\ "persistent" \in host.links
  <2>1. Booted(host) = [host EXCEPT !.links = l, !.active = a]
    BY DEF Booted
  <2> HIDE DEF l, a
  <2> QED
    BY <1>1, <2>1 DEF Hosts, Aside
<1>3. CASE Quiet
  <2>1. Ours' = Ours /\ Theirs' = Theirs /\ (Excused <=> Excused') /\ (Abandoned <=> Abandoned')
    BY <1>3 DEF Reboot, history, Ours, Theirs, Excused, Abandoned, Broken
  <2>2. OursInv'
    BY <1>2, <2>1, OursAside
  <2> QED
    BY <2>1, <2>2 DEF BoundaryInv, ManagerInv
<1>4. CASE ~Quiet
  BY <1>2, <1>4, KilledBoundary DEF Reboot
<1> QED
  BY <1>3, <1>4

LEMMA NextBoundary ==
  ASSUME Inv, BoundaryInv, [Next]_vars
  PROVE  BoundaryInv'
<1>1. CASE Configure
  BY <1>1, OursBegin DEF Configure, Offered
<1>2. CASE Install \/ Adopt \/ Upgrade
  BY <1>2, OursBegin DEF Install, Adopt, Upgrade, Lasting, Offered
<1>3. CASE Update
  BY <1>3, TheirsBegin
<1>4. CASE \/ Plan("installer") \/ Snapshot("installer") \/ Select("installer")
           \/ Release("installer") \/ Advance("installer") \/ StepFails("installer")
           \/ Compensate("installer") \/ CompensationFails("installer") \/ Finish("installer")
  BY <1>4, OursPlan, OursSnapshot, OursSelect, OursRelease, OursAdvance, OursStepFails,
     OursCompensate, OursCompensationFails, OursFinish
<1>5. CASE \/ Plan("manager") \/ Snapshot("manager") \/ Select("manager")
           \/ Release("manager") \/ Advance("manager") \/ StepFails("manager")
           \/ Compensate("manager") \/ CompensationFails("manager") \/ Finish("manager")
  BY <1>5, TheirsForward, TheirsFails, TheirsFinish
<1>6. CASE \E p \in Processes : Kill(p)
  <2>1. PICK p \in Processes : Kill(p)
    BY <1>6
  <2>2. Killed({p}) /\ {p} \in SUBSET Processes /\ host' = host
    BY <2>1 DEF Kill
  <2> QED
    BY <2>2, AsideItself, KilledBoundary
<1>7. CASE Reboot
  BY <1>7, RebootBoundary
<1>8. CASE UNCHANGED vars
  BY <1>8 DEF vars, BoundaryInv, ManagerInv, OursInv, Ours, Theirs, Excused, Abandoned, Broken
<1> QED
  BY <1>1, <1>2, <1>3, <1>4, <1>5, <1>6, <1>7, <1>8 DEF Next, Processes

LEMMA InitBoundary == Init => BoundaryInv
<1> SUFFICES ASSUME Init PROVE BoundaryInv
  OBVIOUS
<1>1. /\ Ours = Idle /\ Theirs = Idle
  BY DEF Init, Ours, Theirs, Processes
<1>2. ManagerInv
  BY <1>1, IdleTyped, EmptyTyped, Nothing DEF ManagerInv, Idle
<1>3. Ordered(Idle.op, Idle.todo) /\ Progress(Idle, host) /\ Retreat(Idle, host)
  BY IdleProgress, NothingBack
<1>4. /\ Bare.ids = {} /\ Settings(Bare) = None
      /\ \A e \in Entries : Bare.entries[e] = None
  BY Nothing DEF Bare, Settings
<1>5. /\ Legacy.ids = {} /\ Settings(Legacy) = None /\ Legacy.selector = "plain"
  BY Nothing DEF Legacy, Bare, Settings
<1>6. \A links, active, mine :
        LET g == Managed(links, active, mine)
        IN  g.ids = Identities /\ Settings(g) = "full" /\ g.selector = Earlier
  BY Nothing DEF Managed, Legacy, Bare, Settings
<1>7. LET g == [Bare EXCEPT !.vpn = "foreign"]
      IN  g.ids = {} /\ Settings(g) = None /\ \A e \in Entries : g.entries[e] = None
  BY <1>4 DEF Bare, Settings
<1>8. Witnessed(host) /\ Chosen(Idle, host) /\ Consistent(Idle, host)
  <2>1. \/ /\ host.ids = {} /\ Settings(host) = None
           /\ (\A e \in Entries : host.entries[e] = None) \/ host.selector = "plain"
        \/ /\ host.ids = Identities /\ Settings(host) = "full"
           /\ host.selector = Earlier
    <3>1. CASE host = Bare
      BY <1>4, <3>1
    <3>2. CASE host = [Bare EXCEPT !.vpn = "foreign"]
      BY <1>7, <3>2
    <3>3. CASE host = Legacy
      BY <1>5, <3>3
    <3>4. CASE \E links, active, mine : host = Managed(links, active, mine)
      BY <1>6, <3>4
    <3> QED
      BY <3>1, <3>2, <3>3, <3>4 DEF Init
  <2>2. None # Earlier /\ None # "plain"
    BY Values DEF Versions
  <2> QED
    BY <2>1, <2>2, IdleProgress, NothingBack, WantedTyped, Nothing DEF Witnessed
<1>9. OursInv
  BY <1>1, <1>3, <1>8 DEF OursInv
<1> QED
  BY <1>2, <1>9 DEF BoundaryInv

LEMMA BoundaryInvariance == Spec => [](Inv /\ BoundaryInv)
<1>1. Init => Inv /\ BoundaryInv
  BY InitInv, InitBoundary
<1>2. Inv /\ BoundaryInv /\ [Next]_vars => (Inv /\ BoundaryInv)'
  BY NextInv, NextBoundary
<1> QED
  BY <1>1, <1>2, PTL DEF Spec

(* installation.json stands, at every step of a command, of its compensation and
   of a killed one, only with the accounts and the membership it declares, until
   a compensation has failed (configure_host, _rollback_identities). *)
THEOREM SettingsAlwaysWitness == Spec => []SettingsWitness
<1>1. BoundaryInv => SettingsWitness
  BY DEF BoundaryInv, OursInv, Witnessed, Settings, SettingsWitness, Excused, Broken
<1> QED
  BY <1>1, BoundaryInvariance, PTL

(* Between commands that ended in good order. *)
LEMMA QuietBoundary ==
  ASSUME BoundaryInv, Quiet, spoiled = "no"
  PROVE  /\ Witnessed(host)
         /\ host.selector = None => \A e \in Entries : host.entries[e] = None
         /\ Settings(host) = None => host.ids = {}
         /\ Settings(host) = "bootstrap" => "member" \notin host.ids
<1>1. Ours = Idle /\ ~Broken
  BY IdleTyped DEF Quiet, Ours, Processes, Broken
<1>2. Witnessed(host) /\ Chosen(Idle, host) /\ Consistent(Idle, host)
  BY <1>1 DEF BoundaryInv, OursInv, Excused, Abandoned
<1> QED
  BY <1>2, IdleProgress, NothingBack

(* An entry point that stands leads to a product, once commands have ended in
   good order (rollback_entrypoint_installation, activate_release). *)
THEOREM SelectorAlwaysUsable == Spec => []SelectorUsable
<1>1. Inv /\ BoundaryInv => SelectorUsable
  BY QuietBoundary DEF Inv, SelectorUsable
<1> QED
  BY <1>1, BoundaryInvariance, PTL

(* The next run is accepted after commands that ended in good order, failed ones
   included (build_identity_plan, docs/INSTALL.md). *)
THEOREM NextRunAlwaysAccepted == Spec => []NextRunAccepted
<1>1. ASSUME BoundaryInv
      PROVE  NextRunAccepted
  <2> SUFFICES ASSUME Quiet, spoiled = "no"
               PROVE  /\ ~Refuses(Resolved("configure"), FALSE)
                      /\ host.files["settings"] = None => ~Refuses("bootstrap", FALSE)
                      /\ "member" \notin host.ids => ~Refuses("bootstrap", FALSE)
    BY DEF NextRunAccepted
  <2>1. /\ Witnessed(host)
        /\ Settings(host) = None => host.ids = {}
        /\ Settings(host) = "bootstrap" => "member" \notin host.ids
    BY <1>1, QuietBoundary
  <2>2. /\ host.ids = {} \/ AllowExisting(FALSE)
        /\ Staging \cap host.ids \in {{}, Staging}
    BY <2>1 DEF Witnessed, Wanted, AllowExisting, Settings
  <2>3. Resolved("configure") = "bootstrap" => "member" \notin host.ids
    BY <2>1 DEF Resolved, Settings
  <2>4. host.files["settings"] = None => "member" \notin host.ids
    BY <2>1 DEF Settings
  <2> QED
    BY <2>2, <2>3, <2>4 DEF Refuses
<1> QED
  BY <1>1, BoundaryInvariance, PTL

-----------------------------------------------------------------------------
(* What a command that succeeds leaves *)

Version(p) == run[p].version
Selects(v) == {s \in Selecting : s.on = v}
Brings(v) == {s \in Of("release") \cup Of("publish") : s.on = v}
Puts(e) == Of("snapshot") \cup {s \in Of("entry") : s.on = e}

(* The configuration: its last plan is the operator's unless the command began
   with an installation.json without one. *)
Configures(r, h) ==
  /\ r.policy = None => Has(r.todo, Of("plan"))
  /\ r.policy # None =>
       /\ \A f \in Files : Has(r.todo, {Do("file", f)}) \/ h.files[f] = Rendered(f, r.policy)
       /\ Has(r.todo, Of("enable")) \/ "persistent" \in h.links
       /\ Has(r.todo, Of("start")) \/ h.active
  /\ r.policy # "full" =>
       Has(r.todo, {Do("plan", "full")}) \/ r.before.files["settings"] = "bootstrap"

(* The deployment: selects v and nothing else, as long as no other command does. *)
Deploys(r, h, v) ==
  /\ Has(r.todo, Brings(v)) \/ h.releases[v] = Artifact(r, v)
  /\ ~Has(r.todo, Selecting \ Selects(v))
  /\ r.alone => Has(r.todo, Selects(v)) \/ h.selector = v

(* What a process has still to do, or has done, for its command to succeed. *)
Reaches(r, h, v) ==
  /\ r.op # "update" => Configures(r, h)
  /\ r.op # "configure" => Deploys(r, h, v)
  /\ r.op \in Lasting => \A e \in Entries : Has(r.todo, Puts(e)) \/ h.entries[e] = "ours"

Other(p) == IF p = "installer" THEN "manager" ELSE "installer"

SuccessInv ==
  /\ Ours.op \in {None, "configure"} \cup Lasting /\ Theirs.op \in {None, "update"}
  /\ \A p \in Processes :
       run[p] # Idle =>
         /\ run[p].op # None
         /\ run[p].version \in Offered /\ (run[p].op \in Lasting => run[p].version = Mine)
         /\ run[p].alone => run[Other(p)] = Idle
         /\ run[p].failing = "no" => Reaches(run[p], host, run[p].version)

(* A step that is done leaves its goal reached, or its successors ahead. *)
LEMMA GoalKept ==
  ASSUME NEW t \in Seq(Steps), t # <<>>, NEW s \in Seq(Steps), NEW A, NEW before, NEW after,
         Has(t, A) \/ before, before => after, Head(t) \in A => Has(s, A) \/ after
  PROVE  Has(s \o Tail(t), A) \/ after
<1>1. /\ Has(t, A) <=> Head(t) \in A \/ Has(Tail(t), A)
      /\ Tail(t) \in Seq(Steps)
  BY HasTail, HeadTailProperties
<1>2. Has(s \o Tail(t), A) <=> Has(s, A) \/ Has(Tail(t), A)
  BY <1>1, HasJoined
<1> QED
  BY <1>1, <1>2

LEMMA ConfiguresOn ==
  ASSUME NEW r, NEW q, NEW h, NEW g, NEW s \in Seq(Steps), r.todo \in Seq(Steps), r.todo # <<>>,
         q.todo = s \o Tail(r.todo), q.policy = r.policy, q.before = r.before, Configures(r, h),
         Head(r.todo) \notin Of("plan"),
         \A f \in Files :
           h.files[f] = Rendered(f, r.policy) \/ Head(r.todo) = Do("file", f)
             => g.files[f] = Rendered(f, r.policy),
         "persistent" \in h.links \/ Head(r.todo) \in Of("enable") => "persistent" \in g.links,
         h.active \/ Head(r.todo) \in Of("start") => g.active
  PROVE  Configures(q, g)
<1>1. ASSUME NEW A, NEW after, Has(r.todo, A) \/ after, Head(r.todo) \in A => after
      PROVE  Has(q.todo, A) \/ after
  <2> DEFINE t == r.todo
  <2>1. t \in Seq(Steps) /\ t # <<>> /\ q.todo = s \o Tail(t)
    OBVIOUS
  <2>2. (Has(t, A) \/ after) /\ (Head(t) \in A => after)
    BY <1>1
  <2> HIDE DEF t
  <2>3. Has(s \o Tail(t), A) \/ after
    BY <2>1, <2>2, GoalKept
  <2> QED
    BY <2>1, <2>3
<1>2. r.policy = None => Has(q.todo, Of("plan"))
  <2>1. r.policy = None => Has(r.todo, Of("plan")) \/ FALSE
    BY DEF Configures
  <2> QED
    BY <1>1, <2>1
<1>3. r.policy # "full" => Has(q.todo, {Do("plan", "full")}) \/ q.before.files["settings"] = "bootstrap"
  <2>1. Head(r.todo) \notin {Do("plan", "full")}
    BY StepKinds DEF Policies
  <2> QED
    BY <1>1, <2>1 DEF Configures
<1>4. ASSUME r.policy # None
      PROVE  /\ \A f \in Files : Has(q.todo, {Do("file", f)}) \/ g.files[f] = Rendered(f, r.policy)
             /\ Has(q.todo, Of("enable")) \/ "persistent" \in g.links
             /\ Has(q.todo, Of("start")) \/ g.active
  <2>1. ASSUME NEW f \in Files
        PROVE  Has(q.todo, {Do("file", f)}) \/ g.files[f] = Rendered(f, r.policy)
    <3>1. \/ Has(r.todo, {Do("file", f)})
          \/ g.files[f] = Rendered(f, r.policy)
      BY <1>4 DEF Configures
    <3>2. Head(r.todo) \in {Do("file", f)} => g.files[f] = Rendered(f, r.policy)
      OBVIOUS
    <3> QED
      BY <3>1, <3>2, <1>1
  <2>2. Has(q.todo, Of("enable")) \/ "persistent" \in g.links
    BY <1>1, <1>4 DEF Configures
  <2>3. Has(q.todo, Of("start")) \/ g.active
    BY <1>1, <1>4 DEF Configures
  <2> QED
    BY <2>1, <2>2, <2>3
<1> QED
  BY <1>2, <1>3, <1>4 DEF Configures

LEMMA DeploysOn ==
  ASSUME NEW r, NEW q, NEW h, NEW g, NEW v \in Versions, NEW s \in Seq(Steps),
         r.todo \in Seq(Steps), r.todo # <<>>,
         q.todo = s \o Tail(r.todo), q.alone = r.alone, q.op = r.op, Deploys(r, h, v),
         h.releases[v] = Artifact(r, v) \/ (Head(r.todo) \in Of("publish") /\ Head(r.todo).on = v)
           => g.releases[v] = Artifact(r, v),
         Has(s, Selecting) => Head(r.todo) \in Of("release"),
         Head(r.todo) \in Of("release") =>
           LET w == Head(r.todo).on IN
             /\ Has(s, Selects(w)) /\ ~Has(s, Selecting \ Selects(w))
             /\ Has(s, Brings(w)) \/ g.releases[w] = Artifact(r, w),
         g.selector = IF Head(r.todo) \in Of("activate") THEN Head(r.todo).on ELSE h.selector
  PROVE  Deploys(q, g, v)
<1> DEFINE step == Head(r.todo)
<1>0. Artifact(q, v) = Artifact(r, v)
  BY DEF Artifact
<1>1. /\ Tail(r.todo) \in Seq(Steps)
      /\ \A A : Has(r.todo, A) <=> step \in A \/ Has(Tail(r.todo), A)
      /\ \A A : Has(q.todo, A) <=> Has(s, A) \/ Has(Tail(r.todo), A)
  <2>1. Tail(r.todo) \in Seq(Steps)
    BY HeadTailProperties
  <2>2. \A A : Has(s \o Tail(r.todo), A) <=> Has(s, A) \/ Has(Tail(r.todo), A)
    BY <2>1, HasJoined
  <2> QED
    BY <2>1, <2>2, HasTail
<1> HIDE DEF step
<1>2. step \in Selecting => step.on = v
  BY <1>1 DEF Deploys, Selects
<1>3. step \in Of("release") => step \in Selecting /\ step \notin Of("publish") /\ step \notin Of("activate")
  BY DEF Of, Selecting
<1>4. Has(q.todo, Brings(v)) \/ g.releases[v] = Artifact(r, v)
  <2>1. CASE Has(Tail(r.todo), Brings(v))
    BY <1>1, <2>1
  <2>2. CASE h.releases[v] = Artifact(r, v)
    BY <2>2
  <2>3. CASE step \in Brings(v)
    <3>1. step \in Of("release") \/ (step \in Of("publish") /\ step.on = v)
      BY <2>3 DEF Brings
    <3> QED
      BY <3>1, <1>1, <1>2, <1>3 DEF step
  <2> QED
    BY <1>1, <2>1, <2>2, <2>3 DEF Deploys
<1>5. ~Has(q.todo, Selecting \ Selects(v))
  <2>1. Has(s, Selecting \ Selects(v)) => Has(s, Selecting)
    BY HasMore
  <2> QED
    BY <2>1, <1>1, <1>2, <1>3 DEF Deploys, step
<1>6. q.alone => Has(q.todo, Selects(v)) \/ g.selector = v
  <2> SUFFICES ASSUME r.alone PROVE Has(q.todo, Selects(v)) \/ g.selector = v
    OBVIOUS
  <2>1. CASE step \in Of("activate")
    BY <2>1, <1>2 DEF step, Selecting
  <2>2. CASE step \in Of("release")
    BY <2>2, <1>1, <1>2, <1>3 DEF step
  <2>3. CASE step \notin Of("activate") /\ step \notin Of("release")
    BY <2>3, <1>1 DEF Deploys, Selects, Selecting, step
  <2> QED
    BY <2>1, <2>2, <2>3
<1> QED
  BY <1>0, <1>4, <1>5, <1>6 DEF Deploys

LEMMA ReachesOn ==
  ASSUME NEW r, NEW q, NEW h, NEW g, NEW v \in Versions, NEW s \in Seq(Steps),
         r.todo \in Seq(Steps), r.todo # <<>>, Reaches(r, h, v),
         q.todo = s \o Tail(r.todo), q.alone = r.alone, q.op = r.op,
         Configures(r, h) => Configures(q, g), Deploys(r, h, v) => Deploys(q, g, v),
         \A e \in Entries :
           h.entries[e] = "ours" \/ (Head(r.todo) \in Of("entry") /\ Head(r.todo).on = e)
             => g.entries[e] = "ours",
         Head(r.todo) \in Of("snapshot") => \A e \in Entries : Has(s, Puts(e))
  PROVE  Reaches(q, g, v)
<1>1. ASSUME NEW e \in Entries, Has(r.todo, Puts(e)) \/ h.entries[e] = "ours"
      PROVE  Has(q.todo, Puts(e)) \/ g.entries[e] = "ours"
  <2>1. Head(r.todo) \in Puts(e) => Has(s, Puts(e)) \/ g.entries[e] = "ours"
    BY DEF Puts
  <2>2. h.entries[e] = "ours" => g.entries[e] = "ours"
    OBVIOUS
  <2> QED
    BY <1>1, <2>1, <2>2, GoalKept
<1> QED
  BY <1>1 DEF Reaches

-----------------------------------------------------------------------------
(* What a forward step, and what a check schedules, brings nearer *)

LEMMA DonePlaces ==
  ASSUME host \in Hosts, NEW step \in Steps, NEW r
  PROVE  LET g == Done(step, r) IN
           /\ g.links = IF step.do = "enable" THEN host.links \cup {"persistent"} ELSE host.links
           /\ g.active = IF step.do = "start" THEN TRUE ELSE host.active
           /\ step.do # "publish" => g.releases = host.releases
           /\ step.do = "publish" => /\ step.on \in Versions
                                     /\ g.releases = [host.releases EXCEPT ![step.on] = Artifact(r, step.on)]
<1> DEFINE g == Done(step, r)
<1>1. CASE step.do = "create"
  <2>1. g = [host EXCEPT !.ids = @ \cup {step.on}]
    BY <1>1 DEF Done
  <2> HIDE DEF g
  <2> QED
    BY <1>1, <2>1 DEF Hosts, g
<1>2. CASE step.do = "file"
  <2>1. g = [host EXCEPT !.files[step.on] = Rendered(step.on, r.policy)]
    BY <1>2 DEF Done
  <2> HIDE DEF g
  <2> QED
    BY <1>2, <2>1 DEF Hosts, g
<1>3. CASE step.do = "enable"
  <2>1. g = [host EXCEPT !.links = @ \cup {"persistent"}]
    BY <1>3 DEF Done
  <2> HIDE DEF g
  <2> QED
    BY <1>3, <2>1 DEF Hosts, g
<1>4. CASE step.do = "start"
  <2>1. g = [host EXCEPT !.active = TRUE]
    BY <1>4 DEF Done
  <2> HIDE DEF g
  <2> QED
    BY <1>4, <2>1 DEF Hosts, g
<1>5. CASE step.do = "entry"
  <2>1. g = [host EXCEPT !.entries[step.on] = "ours"]
    BY <1>5 DEF Done
  <2> HIDE DEF g
  <2> QED
    BY <1>5, <2>1 DEF Hosts, g
<1>6. CASE step.do = "publish"
  <2>1. g = [host EXCEPT !.releases[step.on] = Artifact(r, step.on)] /\ step.on \in Versions
    BY <1>6 DEF Done, Steps
  <2> HIDE DEF g
  <2> QED
    BY <1>6, <2>1 DEF Hosts, g
<1>7. CASE step.do = "activate"
  <2>1. g = [host EXCEPT !.selector = step.on]
    BY <1>7 DEF Done
  <2> HIDE DEF g
  <2> QED
    BY <1>7, <2>1 DEF Hosts, g
<1>8. CASE step.do = "initialize"
  <2>1. g = [host EXCEPT !.vpn = "managed"]
    BY <1>8 DEF Done
  <2> HIDE DEF g
  <2> QED
    BY <1>8, <2>1 DEF Hosts, g
<1>9. CASE step.do \notin {"create", "file", "enable", "start", "entry", "publish", "activate",
                           "initialize"}
  <2>1. g = host
    BY <1>9 DEF Done
  <2> HIDE DEF g
  <2> QED
    BY <1>9, <2>1 DEF g
<1> QED
  BY <1>1, <1>2, <1>3, <1>4, <1>5, <1>6, <1>7, <1>8, <1>9

(* Each forward step reaches its own goal and leaves the others reached. *)
LEMMA DoneReaches ==
  ASSUME host \in Hosts, NEW r, NEW q, NEW v \in Versions,
         r.todo \in Seq(Steps), r.todo # <<>>, Reaches(r, host, v),
         Head(r.todo) \notin Of("plan") \cup Of("snapshot") \cup Of("release"),
         q.todo = Tail(r.todo), q.alone = r.alone, q.op = r.op, q.policy = r.policy,
         q.before = r.before
  PROVE  Reaches(q, Done(Head(r.todo), r), v)
<1> DEFINE step == Head(r.todo)
           g == Done(step, r)
<1>1. step \in Steps /\ <<>> \in Seq(Steps) /\ q.todo = <<>> \o Tail(r.todo)
  <2>1. Tail(r.todo) \in Seq(Steps) /\ step \in Steps
    BY HeadTailProperties
  <2> QED
    BY <2>1, EmptyTyped, ConcatEmptySeq
<1>2. host.files \in [Files -> Contents] /\ host.entries \in [Entries -> {None, "was", "ours"}]
      /\ host.releases \in [Versions -> Artifacts]
  BY DEF Hosts
<1>3. \A A : ~Has(<<>>, A)
  BY EmptyHas
<1>4. \A f \in Files : host.files[f] = Rendered(f, r.policy) \/ step = Do("file", f)
                         => g.files[f] = Rendered(f, r.policy)
  <2>1. CASE step.do = "file"
    <3>1. /\ step \in Writes /\ step.on \in Files
          /\ g.files = [host.files EXCEPT ![step.on] = Rendered(step.on, r.policy)]
      BY <1>1, <2>1, DoneFields DEF Writes, Of
    <3>2. step = Do("file", step.on)
      BY <3>1, StepFields
    <3> HIDE DEF g, step
    <3> QED
      BY <1>2, <3>1, <3>2, SameStep
  <2>2. CASE step.do # "file"
    <3>1. g.files = host.files
      BY <1>1, <2>2, DoneFields
    <3>2. \A f \in Files : Do("file", f).do = "file"
      BY StepKinds DEF Writes, Of
    <3> HIDE DEF g, step
    <3> QED
      BY <2>2, <3>1, <3>2
  <2> QED
    BY <2>1, <2>2
<1>5. /\ "persistent" \in host.links \/ step \in Of("enable") => "persistent" \in g.links
      /\ host.active \/ step \in Of("start") => g.active
  <2>1. /\ g.links = IF step.do = "enable" THEN host.links \cup {"persistent"} ELSE host.links
        /\ g.active = IF step.do = "start" THEN TRUE ELSE host.active
    BY <1>1, DonePlaces
  <2> HIDE DEF g, step
  <2>2. "persistent" \in host.links \/ step \in Of("enable") => "persistent" \in g.links
    BY <2>1 DEF Of
  <2>3. host.active \/ step \in Of("start") => g.active
    BY <2>1 DEF Of
  <2> QED
    BY <2>2, <2>3
<1>6. host.releases[v] = Artifact(r, v) \/ (step \in Of("publish") /\ step.on = v) => g.releases[v] = Artifact(r, v)
  <2>1. CASE step.do = "publish"
    <3>1. step.on \in Versions /\ g.releases = [host.releases EXCEPT ![step.on] = Artifact(r, step.on)]
      BY <1>1, <2>1, DonePlaces
    <3> HIDE DEF g, step
    <3> QED
      BY <1>2, <3>1
  <2>2. CASE step.do # "publish"
    <3>1. g.releases = host.releases /\ step \notin Of("publish")
      BY <1>1, <2>2, DonePlaces DEF Of
    <3> QED
      BY <3>1
  <2> QED
    BY <2>1, <2>2
<1>7. \A e \in Entries : host.entries[e] = "ours" \/ (step \in Of("entry") /\ step.on = e)
                           => g.entries[e] = "ours"
  <2>1. CASE step.do = "entry"
    <3>1. step.on \in Entries /\ g.entries = [host.entries EXCEPT ![step.on] = "ours"]
      BY <1>1, <2>1, DoneFields
    <3> HIDE DEF g, step
    <3> QED
      BY <1>2, <3>1
  <2>2. CASE step.do # "entry"
    <3>1. g.entries = host.entries /\ step \notin Of("entry")
      BY <1>1, <2>2, DoneFields DEF Of
    <3> QED
      BY <3>1
  <2> QED
    BY <2>1, <2>2
<1>8. g.selector = IF step \in Of("activate") THEN step.on ELSE host.selector
  BY <1>1, DoneFields DEF Of
<1> HIDE DEF g
<1>9. Configures(r, host) => Configures(q, g)
  <2> DEFINE s == <<>>
  <2>1. step \notin Of("plan") /\ s \in Seq(Steps) /\ q.todo = s \o Tail(r.todo)
    BY <1>1
  <2> HIDE DEF s, step
  <2>2. ASSUME Configures(r, host) PROVE Configures(q, g)
    BY <1>4, <1>5, <2>1, <2>2, ConfiguresOn DEF step
  <2> QED
    BY <2>2
<1>10. Deploys(r, host, v) => Deploys(q, g, v)
  BY <1>1, <1>3, <1>6, <1>8, DeploysOn
<1>11. Reaches(q, g, v)
  BY <1>1, <1>7, <1>9, <1>10, ReachesOn
<1> QED
  BY <1>11 DEF g

(* The host with what a check has scheduled. *)
LEMMA ScheduleReaches ==
  ASSUME NEW r, NEW q, NEW v \in Versions, NEW s \in Seq(Steps),
         r.todo \in Seq(Steps), r.todo # <<>>, Reaches(r, host, v),
         Head(r.todo) \in Of("snapshot") \cup Of("select") \cup Of("release"),
         q.todo = s \o Tail(r.todo), q.alone = r.alone, q.op = r.op, q.policy = r.policy,
         q.before = r.before,
         Has(s, Selecting) => Head(r.todo) \in Of("release"),
         Head(r.todo) \in Of("release") =>
           LET w == Head(r.todo).on IN
             /\ Has(s, Selects(w)) /\ ~Has(s, Selecting \ Selects(w))
             /\ Has(s, Brings(w)) \/ host.releases[w] = Artifact(r, w),
         Head(r.todo) \in Of("snapshot") => \A e \in Entries : Has(s, Puts(e))
  PROVE  Reaches(q, host, v)
<1> DEFINE step == Head(r.todo)
<1>1. /\ step \notin Of("plan") /\ step \notin Of("publish") /\ step \notin Of("activate")
      /\ step \notin Of("enable") /\ step \notin Of("start") /\ step \notin Of("entry")
      /\ \A f \in Files : step # Do("file", f)
  <2>1. \A f \in Files : Do("file", f) \in Of("file")
    BY StepKinds DEF Writes
  <2> QED
    BY <2>1 DEF Of
<1>2. Configures(r, host) => Configures(q, host)
  BY <1>1, ConfiguresOn
<1>3. Deploys(r, host, v) => Deploys(q, host, v)
  BY <1>1, DeploysOn
<1> QED
  BY <1>1, <1>2, <1>3, ReachesOn

-----------------------------------------------------------------------------
(* Two processes *)

LEMMA Both ==
  /\ Processes = {"installer", "manager"} /\ "installer" # "manager"
  /\ \A p \in Processes : Other(p) \in Processes /\ Other(p) # p /\ Other(Other(p)) = p
                          /\ \A o \in Processes : o = p \/ o = Other(p)
  BY DEF Processes, Other

LEMMA VersionKnown ==
  ASSUME SuccessInv, NEW p \in Processes, run[p] # Idle
  PROVE  Version(p) \in Versions
  BY DEF SuccessInv, Version, Offered, Versions

(* One process has moved; what the other one has reached stands. *)
LEMMA Moved ==
  ASSUME Inv, SuccessInv, NEW p \in Processes, run[p] # Idle, NEW q,
         run' = [run EXCEPT ![p] = q], q.op = run[p].op, q.version = run[p].version, q.alone = run[p].alone,
         q.failing = "no" => Reaches(q, host', Version(p)),
         run[Other(p)] # Idle /\ run[Other(p)].failing = "no"
           => Reaches(run[Other(p)], host', Version(Other(p)))
  PROVE  SuccessInv'
<1> DEFINE o == Other(p)
<1>1. /\ o \in Processes /\ o # p /\ Other(o) = p /\ \A x \in Processes : x = p \/ x = o
      /\ "installer" \in Processes /\ "manager" \in Processes
  BY Both
<1>2. run' \in [Processes -> {run[x] : x \in Processes} \cup {q}] /\ run'[p] = q /\ run'[o] = run[o]
  BY <1>1 DEF Inv, TypeOK
<1> HIDE DEF o
<1>3. q.op # None /\ Idle.op = None
  BY DEF SuccessInv, Idle
<1>4. Ours'.op = Ours.op /\ Theirs'.op = Theirs.op
  BY <1>1, <1>2 DEF Ours, Theirs
<1>5. /\ run'[p] # Idle
      /\ run'[p].op # None
      /\ run'[p].version \in Offered /\ (run'[p].op \in Lasting => run'[p].version = Mine)
      /\ run'[p].alone => run'[o] = Idle
      /\ run'[p].failing = "no" => Reaches(run'[p], host', run'[p].version)
  BY <1>1, <1>2, <1>3 DEF SuccessInv, Version, o
<1>6. run'[o] # Idle =>
        /\ run'[o].op # None
        /\ run'[o].version \in Offered /\ (run'[o].op \in Lasting => run'[o].version = Mine)
        /\ run'[o].alone => run'[p] = Idle
        /\ run'[o].failing = "no" => Reaches(run'[o], host', run'[o].version)
  BY <1>1, <1>2 DEF SuccessInv, Version, o
<1>7. \A x \in Processes :
        run'[x] # Idle =>
          /\ run'[x].op # None
          /\ run'[x].version \in Offered /\ (run'[x].op \in Lasting => run'[x].version = Mine)
          /\ run'[x].alone => run'[Other(x)] = Idle
          /\ run'[x].failing = "no" => Reaches(run'[x], host', run'[x].version)
  BY <1>1, <1>5, <1>6 DEF o
<1> QED
  BY <1>4, <1>7 DEF SuccessInv

(* What one process does leaves what the other has reached. *)
LEMMA OtherReaches ==
  ASSUME Inv, SuccessInv, NEW p \in Processes, run[p] # Idle, Safe(host, host'),
         p = "manager" => /\ host'.files = host.files /\ host'.entries = host.entries
                          /\ host'.links = host.links /\ host'.active = host.active,
         run[Other(p)] # Idle, run[Other(p)].failing = "no"
  PROVE  Reaches(run[Other(p)], host', Version(Other(p)))
<1> DEFINE o == Other(p)
           r == run[o]
           v == Version(o)
<1>1. /\ o \in Processes /\ Other(o) = p /\ v \in Offered
      /\ p = "manager" \/ (p = "installer" /\ o = "manager")
  BY Both DEF Other, SuccessInv, Version
<1>2. Reaches(r, host, v) /\ ~r.alone
  BY <1>1 DEF SuccessInv, Version
<1>3. Deploys(r, host, v) => Deploys(r, host', v)
  BY <1>1, <1>2, ArtifactKnown DEF Deploys, Safe, Offered, Versions
<1>4. CASE p = "manager"
  <2>1. Configures(r, host) => Configures(r, host')
    BY <1>4 DEF Configures
  <2> QED
    BY <1>2, <1>3, <1>4, <2>1 DEF Reaches
<1>5. CASE o = "manager"
  <2>1. r.op = "update"
    BY <1>1, <1>5 DEF SuccessInv, Theirs
  <2> QED
    BY <1>2, <1>3, <2>1 DEF Reaches, Lasting
<1> QED
  BY <1>1, <1>4, <1>5

LEMMA ContinueFields ==
  ASSUME Inv, NEW p \in Processes, NEW s, NEW b, Continue(p, s, b)
  PROVE  \E q : /\ run' = [run EXCEPT ![p] = q] /\ q.todo = s \o Tail(run[p].todo)
                /\ q.op = run[p].op /\ q.policy = run[p].policy /\ q.failing = run[p].failing
                /\ q.before = run[p].before /\ q.alone = run[p].alone /\ q.version = run[p].version
<1> DEFINE t == s \o Tail(run[p].todo)
           q == [run[p] EXCEPT !.todo = t, !.undo = b]
<1>1. run \in [Processes -> Runs] /\ run[p] \in Runs
  BY DEF Inv, TypeOK
<1>2. run' = [run EXCEPT ![p] = q]
  BY <1>1 DEF Continue
<1> HIDE DEF t
<1>3. /\ q.todo = t
      /\ q.op = run[p].op /\ q.policy = run[p].policy /\ q.failing = run[p].failing
      /\ q.before = run[p].before /\ q.alone = run[p].alone /\ q.version = run[p].version
  BY <1>1 DEF Runs
<1> HIDE DEF q
<1> QED
  BY <1>2, <1>3 DEF t

LEMMA Going ==
  ASSUME Inv, SuccessInv, NEW p \in Processes, run[p].todo # <<>>
  PROVE  /\ run[p] # Idle /\ host \in Hosts /\ Version(p) \in Versions
         /\ run[p].failing = "no" =>
              /\ run[p].todo \in Seq(Steps) /\ Reaches(run[p], host, Version(p))
              /\ Head(run[p].todo) \in Steps
<1>1. run[p] # Idle /\ host \in Hosts /\ Version(p) \in Versions
  BY IdleTyped, VersionKnown DEF Inv, TypeOK
<1>2. run[p].failing = "no" => run[p].todo \in Seq(Steps)
  BY Ahead, StepSets, SeqMonotone
<1> QED
  BY <1>1, <1>2, HeadTailProperties DEF SuccessInv, Version

(* The manager's steps are those of a deployment. *)
LEMMA ManagerElsewhere ==
  ASSUME Inv, BoundaryInv, Theirs.todo # <<>>,
         \/ host' \in {host, Done(Head(Theirs.todo), Theirs)}
         \/ Theirs.failing # "no" /\ host' \in Outcomes(Head(Theirs.todo))
         \/ Theirs.failing # "no" /\ host' \in Halfway(Head(Theirs.todo))
         \/ Theirs.failing # "no" /\ host' = Undone(Head(Theirs.todo))
  PROVE  /\ host'.files = host.files /\ host'.entries = host.entries
         /\ host'.links = host.links /\ host'.active = host.active
<1> DEFINE step == Head(Theirs.todo)
           u == Undone(step)
<1>1. step \in Deploying /\ step \in Steps /\ host \in Hosts
  BY TheirsFields DEF Deploying
<1>2. CASE host' = host
  BY <1>2
<1>3. CASE host' = Done(step, Theirs)
  <2>1. step.do \notin {"file", "entry", "enable", "start"}
    BY <1>1 DEF Deploying
  <2> QED
    BY <1>1, <1>3, <2>1, DoneFields, DonePlaces
<1>4. Theirs.failing # "no" => step.do = "reselect"
  <2> SUFFICES ASSUME Theirs.failing # "no" PROVE step.do = "reselect"
    OBVIOUS
  <2>1. step \in Backward
    BY TheirsFields, Ahead DEF Now
  <2> QED
    BY <1>1, <2>1 DEF Deploying, Backward, Compensations
<1>5. step.do = "reselect" =>
        /\ u.files = host.files /\ u.entries = host.entries
        /\ u.links = host.links /\ u.active = host.active
  <2> SUFFICES ASSUME step.do = "reselect"
               PROVE  /\ u.files = host.files /\ u.entries = host.entries
                      /\ u.links = host.links /\ u.active = host.active
    OBVIOUS
  <2>1. u = [host EXCEPT !.selector = step.on]
    BY DEF Undone
  <2> HIDE DEF u
  <2> QED
    BY <1>1, <2>1 DEF Hosts
<1>6. step.do = "reselect" => u \in Hosts
  <2> SUFFICES ASSUME step.do = "reselect" PROVE u \in Hosts
    OBVIOUS
  <2>1. u = [host EXCEPT !.selector = step.on] /\ step.on \in Versions
    BY <1>1 DEF Undone, Steps
  <2> HIDE DEF u
  <2> QED
    BY <1>1, <2>1 DEF Hosts
<1> HIDE DEF u
<1>7. CASE Theirs.failing # "no" /\ host' \in Outcomes(step)
  <2>1. host' = u
    BY <1>4, <1>7 DEF Outcomes, u
  <2> QED
    BY <1>4, <1>5, <1>7, <2>1
<1>8. CASE Theirs.failing # "no" /\ host' \in Halfway(step)
  <2>1. host' = host \/ \E l \in {host.links, u.links}, a \in {host.active, u.active} :
                          host' = [u EXCEPT !.links = l, !.active = a]
    BY <1>8 DEF Halfway, u
  <2>2. host' = host \/ host' = [u EXCEPT !.links = host.links, !.active = host.active]
    BY <1>4, <1>5, <1>8, <2>1
  <2> QED
    BY <1>4, <1>5, <1>6, <1>8, <2>2 DEF Hosts
<1>9. CASE Theirs.failing # "no" /\ host' = u
  BY <1>4, <1>5, <1>9
<1> QED
  BY <1>2, <1>3, <1>7, <1>8, <1>9 DEF u

LEMMA EntryStepsPut == \A e \in Entries : Has(EntrySteps, Puts(e))
<1>1. EntrySteps \in Seq(Steps)
  BY EntryStepsLoose
<1>2. Len(EntrySteps) = 5 /\ \A i \in 1..5 : EntrySteps[i] = Do("entry", EntryOrder[i])
  BY <1>1, LenProperties DEF EntrySteps
<1>3. \A e \in Entries : \E i \in 1..5 : EntryOrder[i] = e
  <2>1. /\ EntryOrder[1] = "readme" /\ EntryOrder[2] = "libexec" /\ EntryOrder[3] = "internal"
        /\ EntryOrder[4] = "public" /\ EntryOrder[5] = "completion"
    BY DEF EntryOrder
  <2> QED
    BY <2>1 DEF Entries
<1>4. \A e \in Entries : Do("entry", e) \in Puts(e)
  <2>1. \A e \in Entries : Do("entry", e) \in Of("entry") /\ Do("entry", e).on = e
    BY StepKinds DEF Do
  <2> QED
    BY <2>1 DEF Puts
<1> QED
  BY <1>2, <1>3, <1>4 DEF Has

(* Process p is one step further on its way. *)
Onward(p) ==
  /\ run[p] # Idle
  /\ \E q : /\ run' = [run EXCEPT ![p] = q] /\ q.op = run[p].op /\ q.alone = run[p].alone
            /\ q.version = run[p].version
            /\ q.failing = "no" => Reaches(q, host', Version(p))

LEMMA SnapshotOnward ==
  ASSUME Inv, SuccessInv, NEW p \in Processes, Snapshot(p)
  PROVE  Onward(p)
<1> DEFINE r == run[p]
           s == EntrySteps
<1>1. /\ host' = host /\ r.failing = "no" /\ r.todo # <<>> /\ Head(r.todo).do = "snapshot"
      /\ Continue(p, s, EntryUndo \o r.undo)
  BY DEF Snapshot, Ready, At, Now, EntrySteps
<1>2. /\ r # Idle /\ r.todo \in Seq(Steps) /\ Head(r.todo) \in Steps
      /\ Reaches(r, host, Version(p)) /\ Version(p) \in Versions
  BY <1>1, Going
<1>3. PICK q : /\ run' = [run EXCEPT ![p] = q] /\ q.todo = s \o Tail(r.todo)
               /\ q.op = r.op /\ q.policy = r.policy /\ q.failing = r.failing
               /\ q.before = r.before /\ q.alone = r.alone /\ q.version = r.version
  BY <1>1, ContinueFields
<1>4. /\ s \in Seq(Steps) /\ ~Has(s, Selecting) /\ \A e \in Entries : Has(s, Puts(e))
  <2>1. s \in Seq(Of("entry"))
    <3>1. \A i \in 1..5 : EntryOrder[i] \in Entries
      BY DEF EntryOrder, Entries
    <3>2. \A i \in 1..5 : Do("entry", EntryOrder[i]) \in Of("entry")
      BY <3>1, StepKinds
    <3> QED
      BY <3>2, SeqDef DEF EntrySteps
  <2>2. Of("entry") \cap Selecting = {}
    BY DEF Of, Selecting
  <2> QED
    BY <2>1, <2>2, HasNone, EntryStepsLoose, EntryStepsPut
<1>5. Head(r.todo) \in Of("snapshot") /\ Head(r.todo) \notin Of("release")
  BY <1>1, <1>2 DEF Of
<1> HIDE DEF r, s
<1>6. Reaches(q, host, Version(p))
  BY <1>1, <1>2, <1>3, <1>4, <1>5, ScheduleReaches
<1> QED
  BY <1>1, <1>2, <1>3, <1>6 DEF Onward, r

LEMMA SelectOnward ==
  ASSUME Inv, SuccessInv, NEW p \in Processes, Select(p)
  PROVE  Onward(p)
<1> DEFINE r == run[p]
           import == host.selector = "plain" /\ host.releases["legacy-import"] = None
           s == IF import
                THEN <<Do("stage", "legacy-import"), Do("publish", "legacy-import")>> ELSE <<>>
           b == (IF host.selector = None \/ import THEN <<>> ELSE Reselect(Product(host))) \o r.undo
<1>1. /\ host' = host /\ r.failing = "no" /\ r.todo # <<>> /\ Head(r.todo).do = "select"
      /\ Continue(p, s, b)
  BY DEF Select, Ready, At, Now
<1>2. /\ r # Idle /\ r.todo \in Seq(Steps) /\ Head(r.todo) \in Steps
      /\ Reaches(r, host, Version(p)) /\ Version(p) \in Versions
  BY <1>1, Going
<1> HIDE DEF s, b
<1>3. PICK q : /\ run' = [run EXCEPT ![p] = q] /\ q.todo = s \o Tail(r.todo)
               /\ q.op = r.op /\ q.policy = r.policy /\ q.failing = r.failing
               /\ q.before = r.before /\ q.alone = r.alone /\ q.version = r.version
  BY <1>1, ContinueFields
<1>4. s \in Seq(Steps) /\ ~Has(s, Selecting)
  <2> DEFINE T == Of("stage") \cup Of("publish")
  <2>1. Do("stage", "legacy-import") \in T /\ Do("publish", "legacy-import") \in T
    BY StepKinds DEF Versions
  <2>2. T \subseteq Steps /\ T \cap Selecting = {}
    BY DEF Of, Selecting
  <2> HIDE DEF T
  <2>3. s \in Seq(T)
    BY <2>1, EmptyTyped DEF s
  <2> QED
    BY <2>2, <2>3, HasNone, SeqMonotone
<1>5. Head(r.todo) \in Of("select") /\ Head(r.todo) \notin Of("release") /\ Head(r.todo) \notin Of("snapshot")
  BY <1>1, <1>2 DEF Of
<1> HIDE DEF r
<1>6. Reaches(q, host, Version(p))
  BY <1>1, <1>2, <1>3, <1>4, <1>5, ScheduleReaches
<1> QED
  BY <1>1, <1>2, <1>3, <1>6 DEF Onward, r

LEMMA ReleaseOnward ==
  ASSUME Inv, SuccessInv, NEW p \in Processes, Release(p)
  PROVE  Onward(p)
<1> DEFINE r == run[p]
           w == Head(r.todo).on
           i == IF host.releases[w] = None THEN <<Do("stage", w), Do("publish", w)>> ELSE <<>>
           a == <<Do("activate", w)>>
           s == i \o a
<1>1. /\ host' = host /\ r.failing = "no" /\ r.todo # <<>> /\ Head(r.todo).do = "release"
      /\ host.releases[w] \in {None, Artifact(r, w)} /\ Continue(p, s, r.undo)
  BY DEF Release, Ready, Rejected, At, Now
<1>2. /\ r # Idle /\ r.todo \in Seq(Steps) /\ Head(r.todo) \in Steps
      /\ Reaches(r, host, Version(p)) /\ Version(p) \in Versions /\ host \in Hosts
  BY <1>1, Going
<1> HIDE DEF s
<1>3. PICK q : /\ run' = [run EXCEPT ![p] = q] /\ q.todo = s \o Tail(r.todo)
               /\ q.op = r.op /\ q.policy = r.policy /\ q.failing = r.failing
               /\ q.before = r.before /\ q.alone = r.alone /\ q.version = r.version
  BY <1>1, ContinueFields
<1>4. w \in Versions /\ (host.releases[w] = None \/ host.releases[w] = Artifact(r, w))
  BY <1>1, <1>2 DEF Steps, Hosts
<1>5. /\ Do("stage", w) \in Of("stage") /\ Do("publish", w) \in Brings(w) /\ Do("publish", w) \in Of("publish")
      /\ Do("activate", w) \in Selects(w)
  <2>1. Do("publish", w).on = w /\ Do("activate", w).on = w
    BY DEF Do
  <2> QED
    BY <1>4, <2>1, StepKinds DEF Brings, Selects, Selecting
<1>6. i \in Seq(Of("stage") \cup Of("publish")) /\ i \in Seq(Steps) /\ ~Has(i, Selecting)
  <2>1. /\ <<Do("stage", w), Do("publish", w)>> \in Seq(Of("stage") \cup Of("publish"))
        /\ <<>> \in Seq(Of("stage") \cup Of("publish"))
    BY <1>5, EmptyTyped
  <2>2. i \in Seq(Of("stage") \cup Of("publish"))
    BY <2>1
  <2>3. Of("stage") \cup Of("publish") \subseteq Steps /\ (Of("stage") \cup Of("publish")) \cap Selecting = {}
    BY DEF Of, Selecting
  <2> HIDE DEF i
  <2> QED
    BY <2>2, <2>3, HasNone, SeqMonotone
<1>7. host.releases[w] = None => Has(i, Brings(w))
  <2> SUFFICES ASSUME host.releases[w] = None PROVE Has(i, Brings(w))
    OBVIOUS
  <2>1. Len(i) = 2 /\ i[2] = Do("publish", w)
    OBVIOUS
  <2> HIDE DEF i, w
  <2> QED
    BY <1>5, <2>1 DEF Has
<1>8. a \in Seq(Steps) /\ \A A : Has(a, A) <=> Do("activate", w) \in A
  <2>1. Do("activate", w) \in Steps
    BY <1>5 DEF Selects, Selecting, Of
  <2> QED
    BY <2>1, HasOne
<1> HIDE DEF i, a
<1>9. s \in Seq(Steps) /\ \A A : Has(s, A) <=> Has(i, A) \/ Do("activate", w) \in A
  BY <1>6, <1>8, Joined, HasJoined DEF s
<1>10. ~Has(i, Selecting \ Selects(w))
  BY <1>6, HasMore
<1>11. Head(r.todo) \in Of("release") /\ Head(r.todo) \notin Of("snapshot")
  BY <1>1, <1>2 DEF Of
<1> HIDE DEF r
<1>12. /\ Has(s, Selects(w)) /\ ~Has(s, Selecting \ Selects(w))
       /\ Has(s, Brings(w)) \/ host.releases[w] = Artifact(r, w)
  BY <1>4, <1>5, <1>7, <1>9, <1>10
<1>13. Reaches(q, host, Version(p))
  BY <1>1, <1>2, <1>3, <1>9, <1>11, <1>12, ScheduleReaches
<1> QED
  BY <1>1, <1>2, <1>3, <1>13 DEF Onward, r

LEMMA AdvanceOnward ==
  ASSUME Inv, SuccessInv, NEW p \in Processes, Advance(p)
  PROVE  Onward(p)
<1> DEFINE r == run[p]
           step == Head(r.todo)
           s == <<>>
           b == (IF At(p, "publish") /\ Now(p).on = "legacy-import"
                 THEN Reselect("legacy-import") ELSE <<>>) \o r.undo
<1>1. /\ host' = Done(step, r) /\ r.failing = "no" /\ r.todo # <<>> /\ step.do \in Forward
      /\ Continue(p, s, b)
  BY DEF Advance, Ready, At, Now
<1>2. /\ r # Idle /\ r.todo \in Seq(Steps) /\ step \in Steps
      /\ Reaches(r, host, Version(p)) /\ Version(p) \in Versions /\ host \in Hosts
  BY <1>1, Going
<1> HIDE DEF s, b
<1>3. PICK q : /\ run' = [run EXCEPT ![p] = q] /\ q.todo = s \o Tail(r.todo)
               /\ q.op = r.op /\ q.policy = r.policy /\ q.failing = r.failing
               /\ q.before = r.before /\ q.alone = r.alone /\ q.version = r.version
  BY <1>1, ContinueFields
<1>4. q.todo = Tail(r.todo)
  <2>1. Tail(r.todo) \in Seq(Steps)
    BY <1>1, <1>2, HeadTailProperties
  <2> QED
    BY <1>3, <2>1, ConcatEmptySeq DEF s
<1>5. step \notin Of("plan") \cup Of("snapshot") \cup Of("release")
  BY <1>1 DEF Of, Forward
<1> HIDE DEF r
<1>6. Reaches(q, Done(step, r), Version(p))
  BY <1>1, <1>2, <1>3, <1>4, <1>5, DoneReaches
<1> QED
  BY <1>1, <1>2, <1>3, <1>6 DEF Onward, r

-----------------------------------------------------------------------------
(* A plan brings its configuration nearer *)

LEMMA ConfigurationWrites ==
  ASSUME NEW policy \in Policies
  PROVE  /\ \A f \in Files : Has(Configuration(policy), {Do("file", f)})
         /\ Has(Configuration(policy), Of("enable")) /\ Has(Configuration(policy), Of("start"))
         /\ ~Has(Configuration(policy), Selecting) /\ Configuration(policy) \in Seq(Steps)
<1> DEFINE m == Missing(policy)
           c == One("create", "group", m) \o One("create", "user", m)
                  \o One("create", "operators", m) \o One("create", "member", m)
           w == [i \in 1..6 |-> Do("file", FileOrder[i])]
           f == <<Do("verify", None), Do("enable", None), Do("start", None)>>
           cw == c \o w
<1>1. Configuration(policy) = cw \o f
  BY DEF Configuration
<1>2. c \in Seq(Steps)
  <2>1. /\ One("create", "group", m) \in Seq(Creates) /\ One("create", "user", m) \in Seq(Creates)
        /\ One("create", "operators", m) \in Seq(Creates) /\ One("create", "member", m) \in Seq(Creates)
    BY OneTyped, StepKinds DEF Identities
  <2>2. One("create", "group", m) \o One("create", "user", m) \in Seq(Creates)
    BY <2>1, Joined
  <2>3. One("create", "group", m) \o One("create", "user", m) \o One("create", "operators", m) \in Seq(Creates)
    BY <2>1, <2>2, Joined
  <2>4. c \in Seq(Creates)
    BY <2>1, <2>3, Joined
  <2>5. Creates \subseteq Steps
    BY DEF Creates, Of
  <2> HIDE DEF c
  <2> QED
    BY <2>4, <2>5, SeqMonotone
<1>3. w \in Seq(Steps) /\ \A x \in Files : Has(w, {Do("file", x)})
  <2>1. \A i \in 1..6 : FileOrder[i] \in Files
    BY DEF FileOrder, Files
  <2>2. \A i \in 1..6 : Do("file", FileOrder[i]) \in Steps
    BY <2>1, StepKinds DEF Writes, Of
  <2>3. w \in Seq(Steps)
    BY <2>2, SeqDef
  <2>4. Len(w) = 6 /\ \A i \in 1..6 : w[i] = Do("file", FileOrder[i])
    BY <2>3, LenProperties
  <2>5. \A x \in Files : \E i \in 1..6 : FileOrder[i] = x
    <3>1. /\ FileOrder[1] = "sudoers" /\ FileOrder[2] = "dropin" /\ FileOrder[3] = "modules"
          /\ FileOrder[4] = "service" /\ FileOrder[5] = "timer" /\ FileOrder[6] = "settings"
      BY DEF FileOrder
    <3> QED
      BY <3>1 DEF Files
  <2> HIDE DEF w
  <2> QED
    BY <2>3, <2>4, <2>5 DEF Has
<1>4. f \in Seq(Steps) /\ Has(f, Of("enable")) /\ Has(f, Of("start"))
  <2> DEFINE d == Do("verify", None)
             e == Do("enable", None)
             g == Do("start", None)
  <2>1. d \in Of("verify") /\ e \in Of("enable") /\ g \in Of("start")
    BY StepKinds
  <2> HIDE DEF d, e, g
  <2>2. f = <<d, e, g>>
    BY DEF d, e, g
  <2>3. d \in Steps /\ e \in Steps /\ g \in Steps
    BY <2>1 DEF Of
  <2>4. f \in Seq(Steps) /\ Len(f) = 3 /\ f[2] = e /\ f[3] = g
    BY <2>2, <2>3
  <2> HIDE DEF f
  <2> QED
    BY <2>1, <2>4 DEF Has
<1> HIDE DEF c, w, f
<1>5. cw \in Seq(Steps) /\ \A A : Has(cw, A) <=> Has(c, A) \/ Has(w, A)
  BY <1>2, <1>3, Joined, HasJoined
<1> HIDE DEF cw
<1>6. cw \o f \in Seq(Steps) /\ \A A : Has(cw \o f, A) <=> Has(cw, A) \/ Has(f, A)
  BY <1>4, <1>5, Joined, HasJoined
<1>7. ~Has(Configuration(policy), Selecting)
  <2>1. (Creates \cup Writes \cup Finals) \cap Selecting = {}
    BY DEF Creates, Writes, Finals, Selecting, Of
  <2> QED
    BY <2>1, ConfigurationShape, HasNone
<1> QED
  BY <1>1, <1>3, <1>4, <1>5, <1>6, <1>7

LEMMA PlanOnward ==
  ASSUME Inv, BoundaryInv, SuccessInv, Plan("installer")
  PROVE  Onward("installer")
<1> DEFINE r == run["installer"]
           step == Head(r.todo)
           policy == step.on
           t == Tail(r.todo)
           s == Configuration(policy)
           u == HostUndo(policy) \o Enclosing("installer", policy)
           q == [r EXCEPT !.policy = policy, !.todo = s \o t, !.undo = u]
<1>0. "installer" \in Processes /\ Ours = r
  BY DEF Processes, Ours
<1>1. /\ host' = host /\ r.failing = "no" /\ r.todo # <<>> /\ step.do = "plan"
      /\ run' = [run EXCEPT !["installer"] = q]
  <2>1. run["installer"] \in Runs /\ run \in [Processes -> Runs]
    BY <1>0 DEF Inv, TypeOK
  <2> QED
    BY <1>0, <2>1 DEF Plan, Ready, At, Now
<1>2. /\ r # Idle /\ r.todo \in Seq(Steps) /\ step \in Steps /\ r \in Runs
      /\ Reaches(r, host, Version("installer")) /\ Version("installer") \in Versions
  BY <1>0, <1>1, Going, Ahead
<1>3. Progress(r, host)
  BY <1>0, <1>1 DEF BoundaryInv, OursInv
<1>4. /\ step \in Of("plan") /\ policy \in Policies /\ step = Do("plan", policy)
      /\ step \notin Of("release") /\ step \notin Of("publish") /\ step \notin Of("activate")
      /\ step \notin Of("snapshot") /\ step \notin Of("entry")
  BY <1>1, <1>2, StepFields DEF Of, Steps
<1> HIDE DEF s, t, u
<1>5. q.todo = s \o t /\ q.policy = policy /\ q.alone = r.alone /\ q.op = r.op /\ q.before = r.before
      /\ q.version = r.version
  BY <1>2 DEF Runs
<1> HIDE DEF q
<1>6. /\ \A f \in Files : Has(s, {Do("file", f)})
      /\ Has(s, Of("enable")) /\ Has(s, Of("start"))
      /\ ~Has(s, Selecting) /\ s \in Seq(Steps)
  BY <1>4, ConfigurationWrites DEF s
<1>7. /\ t \in Seq(Steps)
      /\ \A A : Has(r.todo, A) <=> step \in A \/ Has(t, A)
      /\ \A A : Has(q.todo, A) <=> Has(s, A) \/ Has(t, A)
  <2>1. t \in Seq(Steps)
    BY <1>1, <1>2, HeadTailProperties DEF t
  <2>2. \A A : Has(s \o t, A) <=> Has(s, A) \/ Has(t, A)
    BY <1>6, <2>1, HasJoined
  <2> QED
    BY <1>1, <1>2, <1>5, <2>1, <2>2, HasTail DEF t
<1>8. Configures(r, host) => Configures(q, host)
  <2> SUFFICES ASSUME Configures(r, host) PROVE Configures(q, host)
    OBVIOUS
  <2>1. policy # None
    BY <1>4, Nothing
  <2>2. policy # "full" => Has(q.todo, {Do("plan", "full")}) \/ q.before.files["settings"] = "bootstrap"
    <3> SUFFICES ASSUME policy # "full"
                 PROVE  Has(q.todo, {Do("plan", "full")}) \/ q.before.files["settings"] = "bootstrap"
      OBVIOUS
    <3>1. step \notin {Do("plan", "full")}
      BY <1>4, SameStep
    <3>2. r.policy # "full"
      <4>1. Has(r.todo, Of("plan"))
        BY <1>4, <1>7
      <4> QED
        BY <1>3, <4>1, Nothing DEF Progress
    <3> QED
      BY <1>5, <1>7, <3>1, <3>2 DEF Configures
  <2> QED
    BY <1>5, <1>6, <1>7, <2>1, <2>2 DEF Configures
<1>9. Deploys(r, host, Version("installer")) => Deploys(q, host, Version("installer"))
  BY <1>1, <1>2, <1>4, <1>5, <1>6, DeploysOn DEF t
<1>10. Reaches(q, host, Version("installer"))
  BY <1>1, <1>2, <1>4, <1>5, <1>6, <1>8, <1>9, ReachesOn DEF t
<1> QED
  BY <1>1, <1>2, <1>5, <1>10 DEF Onward

-----------------------------------------------------------------------------
(* What the programs promise *)

LEMMA SettledHas ==
  /\ \A policy \in Policies : /\ <<Do("plan", policy)>> \in Seq(Steps)
                              /\ \A A : Has(<<Do("plan", policy)>>, A) <=> Do("plan", policy) \in A
                              /\ Do("plan", policy) \in Of("plan")
  /\ \A policy \in Policies : Do("plan", policy) \notin Selecting
  BY StepKinds, HasOne DEF Of, Selecting

LEMMA DeploymentHas ==
  ASSUME NEW v \in Versions
  PROVE  /\ Deployment(v) \in Seq(Steps)
         /\ Has(Deployment(v), Brings(v)) /\ Has(Deployment(v), Selects(v))
         /\ ~Has(Deployment(v), Selecting \ Selects(v))
         /\ \A e \in Entries : Has(Deployment(v), Puts(e))
<1> DEFINE a == Do("build", None)
           b == Do("snapshot", None)
           c == Do("select", None)
           d == Do("release", v)
           s == <<a, b, c, d>>
<1>1. a \in Of("build") /\ b \in Of("snapshot") /\ c \in Of("select") /\ d \in Of("release") /\ d.on = v
  <2>1. d.on = v
    BY DEF Do
  <2> QED
    BY <2>1, StepKinds
<1>2. Deployment(v) = s
  BY DEF Deployment
<1> HIDE DEF a, b, c, d
<1>3. /\ {a, b, c, d} \subseteq Steps /\ {a, b, c, d} \cap (Selecting \ Selects(v)) = {}
      /\ d \in Brings(v) /\ d \in Selects(v) /\ \A e \in Entries : b \in Puts(e)
  BY <1>1 DEF Of, Selecting, Selects, Brings, Puts
<1>4. s \in Seq({a, b, c, d}) /\ Len(s) = 4 /\ s[2] = b /\ s[4] = d
  OBVIOUS
<1> HIDE DEF s
<1>5. s \in Seq(Steps) /\ ~Has(s, Selecting \ Selects(v))
  BY <1>3, <1>4, SeqMonotone, HasNone
<1>6. Has(s, Brings(v)) /\ Has(s, Selects(v)) /\ \A e \in Entries : Has(s, Puts(e))
  BY <1>3, <1>4 DEF Has
<1> QED
  BY <1>2, <1>5, <1>6

(* What the programs promise. *)
Promises(t, v) ==
  /\ t \in Seq(Steps) /\ Has(t, Of("plan"))
  /\ Has(t, {Do("plan", "full")}) \/ Settings(host) = "bootstrap"
  /\ Has(t, Brings(v)) /\ Has(t, Selects(v)) /\ ~Has(t, Selecting \ Selects(v))
  /\ \A e \in Entries : Has(t, Puts(e))

LEMMA PromisesJoined ==
  ASSUME NEW v \in Versions, NEW s \in Seq(Steps), NEW f \in Seq(Steps),
         Has(s, Of("plan")), ~Has(s, Selecting), ~Has(f, Selecting),
         Has(s, {Do("plan", "full")}) \/ Has(f, {Do("plan", "full")}) \/ Settings(host) = "bootstrap"
  PROVE  Promises((s \o Deployment(v)) \o f, v)
<1> DEFINE d == Deployment(v)
           sd == s \o d
           t == sd \o f
<1>1. /\ d \in Seq(Steps) /\ Has(d, Brings(v)) /\ Has(d, Selects(v))
      /\ ~Has(d, Selecting \ Selects(v)) /\ \A e \in Entries : Has(d, Puts(e))
  BY DeploymentHas
<1> HIDE DEF d
<1>2. sd \in Seq(Steps) /\ \A A : Has(sd, A) <=> Has(s, A) \/ Has(d, A)
  BY <1>1, Joined, HasJoined
<1> HIDE DEF sd
<1>3. t \in Seq(Steps) /\ \A A : Has(t, A) <=> Has(sd, A) \/ Has(f, A)
  BY <1>2, Joined, HasJoined
<1> HIDE DEF t
<1>4. ~Has(s, Selecting \ Selects(v)) /\ ~Has(f, Selecting \ Selects(v))
  BY HasMore
<1>5. Promises(t, v)
  BY <1>1, <1>2, <1>3, <1>4 DEF Promises
<1> QED
  BY <1>5 DEF t, sd, d

LEMMA LastingPromises ==
  ASSUME NEW op \in Lasting, NEW version \in Offered
  PROVE  Promises(Program(op, version), version)
<1>0. "bootstrap" \in Policies /\ "full" \in Policies /\ Resolved(op) \in Policies
  BY ResolvedTyped DEF Policies
<1>3. version \in Versions
  BY DEF Offered, Versions
<1>1. CASE op \in {"install", "adopt"}
  <2> DEFINE s == <<Do("plan", "bootstrap")>>
             a == Do("plan", "full")
             b == Do("initialize", None)
             c == Do("health", "last")
             f == <<a, b, c>>
  <2>1. Program(op, version) = (s \o Deployment(version)) \o f
    BY <1>1 DEF Program
  <2>2. s \in Seq(Steps) /\ Has(s, Of("plan")) /\ ~Has(s, Selecting)
    BY <1>0, SettledHas
  <2>3. a \in Of("plan") /\ b \in Of("initialize") /\ c \in Of("health")
    BY <1>0, StepKinds
  <2> HIDE DEF a, b, c
  <2>4. f \in Seq({a, b, c}) /\ Len(f) = 3 /\ f[1] = a
    OBVIOUS
  <2>5. {a, b, c} \subseteq Steps /\ {a, b, c} \cap Selecting = {}
    BY <2>3 DEF Of, Selecting
  <2> HIDE DEF f, s
  <2>6. f \in Seq(Steps) /\ ~Has(f, Selecting)
    BY <2>4, <2>5, SeqMonotone, HasNone
  <2>7. Has(f, {Do("plan", "full")})
    BY <2>4 DEF Has, a
  <2> QED
    BY <2>1, <2>2, <2>6, <2>7, <1>3, PromisesJoined
<1>2. CASE op = "upgrade"
  <2> DEFINE p == <<Do("plan", "bootstrap")>>
             b == IF host.files["settings"] = None THEN p ELSE <<>>
             r == <<Do("plan", Resolved(op))>>
             e == Do("health", "trial")
             f == <<e>>
             s == b \o r
  <2>1. Program(op, version) = (s \o Deployment(version)) \o f
    BY <1>2 DEF Program
  <2>2. p \in Seq(Steps) /\ ~Has(p, Selecting)
    BY <1>0, SettledHas
  <2>3. /\ r \in Seq(Steps) /\ Has(r, Of("plan")) /\ ~Has(r, Selecting)
        /\ Has(r, {Do("plan", "full")}) \/ Settings(host) = "bootstrap"
    <3>1. Resolved(op) = "full" \/ Settings(host) = "bootstrap"
      BY DEF Resolved, Settings
    <3> QED
      BY <1>0, <3>1, SettledHas
  <2>4. e \in Of("health")
    BY StepKinds
  <2> HIDE DEF e
  <2>5. f \in Seq(Steps) /\ ~Has(f, Selecting)
    <3>1. e \in Steps /\ e \notin Selecting
      BY <2>4 DEF Of, Selecting
    <3> QED
      BY <3>1, HasOne
  <2> HIDE DEF p, r, f
  <2>6. b \in Seq(Steps) /\ ~Has(b, Selecting)
    BY <2>2, EmptyTyped, EmptyHas
  <2> HIDE DEF b
  <2>7. s \in Seq(Steps) /\ \A A : Has(s, A) <=> Has(b, A) \/ Has(r, A)
    BY <2>3, <2>6, Joined, HasJoined
  <2> HIDE DEF s
  <2> QED
    BY <2>1, <2>3, <2>5, <2>6, <2>7, <1>3, PromisesJoined
<1> QED
  BY <1>1, <1>2 DEF Lasting

LEMMA StartedReaches ==
  ASSUME host \in Hosts, NEW p \in Processes, NEW op, NEW flag, NEW version \in Offered,
         IF p = "installer" THEN op \in {"configure"} \cup Lasting ELSE op = "update"
  PROVE  LET r == Started(op, flag, version) IN
           Reaches(r, host, version) /\ r.op = op /\ r.version = version
<1> DEFINE r == Started(op, flag, version)
           t == Program(op, version)
<1>1. /\ r.todo = t /\ r.op = op /\ r.version = version /\ r.policy = None /\ r.before = host
  BY DEF Started
<1> HIDE DEF r
<1>2. CASE op = "configure"
  <2>1. Resolved(op) \in Policies /\ t = <<Do("plan", Resolved(op))>>
    BY <1>2, ResolvedTyped DEF Program
  <2>2. Has(t, {Do("plan", "full")}) \/ host.files["settings"] = "bootstrap"
    <3>1. Resolved(op) = "full" \/ host.files["settings"] = "bootstrap"
      BY DEF Resolved
    <3> QED
      BY <2>1, <3>1, SettledHas
  <2>3. Has(t, Of("plan"))
    BY <2>1, SettledHas
  <2> HIDE DEF t
  <2> QED
    BY <1>1, <1>2, <2>2, <2>3 DEF Reaches, Configures, Lasting, r
<1>3. CASE op \in Lasting
  <2>1. Promises(t, version)
    BY <1>3, LastingPromises
  <2> HIDE DEF t
  <2> QED
    BY <1>1, <1>3, <2>1 DEF Reaches, Configures, Deploys, Promises, Settings, r
<1>4. CASE op = "update"
  <2> DEFINE a == Do("select", None)
             b == Do("release", version)
             c == Do("health", "trial")
             s == <<a, b, c>>
  <2>1. t = s
    BY <1>4 DEF Program
  <2>2. a \in Of("select") /\ b \in Of("release") /\ c \in Of("health") /\ b.on = version
    <3>1. b.on = version
      BY DEF Do
    <3> QED
      BY <3>1, StepKinds DEF Versions, Offered
  <2> HIDE DEF a, b, c, t
  <2>3. /\ {a, b, c} \cap (Selecting \ Selects(version)) = {}
        /\ b \in Brings(version) /\ b \in Selects(version)
    BY <2>2 DEF Of, Selecting, Selects, Brings
  <2>4. s \in Seq({a, b, c}) /\ Len(s) = 3 /\ s[2] = b
    OBVIOUS
  <2> HIDE DEF s
  <2>5. ~Has(s, Selecting \ Selects(version))
    BY <2>3, <2>4, HasNone
  <2>6. Has(s, Brings(version)) /\ Has(s, Selects(version))
    BY <2>3, <2>4 DEF Has
  <2>7. Reaches(r, host, version)
    BY <1>1, <1>4, <2>1, <2>5, <2>6 DEF Reaches, Deploys, Lasting
  <2> QED
    BY <1>1, <2>7 DEF r
<1> QED
  BY <1>2, <1>3, <1>4

LEMMA BeginSuccess ==
  ASSUME Inv, SuccessInv, NEW p \in Processes, NEW op, NEW flag, NEW version \in Offered,
         Begin(p, op, flag, version),
         IF p = "installer" THEN op \in {"configure"} \cup Lasting /\ version = Mine
         ELSE op = "update"
  PROVE  SuccessInv'
<1> DEFINE o == Other(p)
           r == Started(op, flag, version)
<1>1. /\ o \in Processes /\ o # p /\ Other(o) = p /\ \A x \in Processes : x = p \/ x = o
      /\ "installer" \in Processes /\ "manager" \in Processes
      /\ p = "installer" <=> o = "manager"
  BY Both DEF Other
<1>2. /\ host' = host /\ run[p] = Idle /\ run'[p] = r
      /\ run'[o] = [run[o] EXCEPT !.alone = (run[o] = Idle)]
  BY <1>1 DEF Begin
<1>3. /\ Reaches(r, host, version) /\ r.op = op /\ op # None /\ r.version = version
      /\ (op \in Lasting => version = Mine)
      /\ r.alone = Quiet /\ r.failing = "no"
  <2>1. op \in Operations
    BY DEF Operations, Lasting
  <2>2. r.alone = Quiet /\ r.failing = "no"
    BY DEF Started
  <2>3. Reaches(r, host, version) /\ r.op = op /\ r.version = version
    BY StartedReaches DEF Inv, TypeOK
  <2>4. op \in Lasting => version = Mine
    BY DEF Lasting
  <2> QED
    BY <2>1, <2>2, <2>3, <2>4, NoneAssumption
<1> HIDE DEF r, o
<1>4. run[o] = Idle => run'[o] = Idle
  <2> SUFFICES ASSUME run[o] = Idle PROVE run'[o] = Idle
    OBVIOUS
  <2>1. run'[o] = [Idle EXCEPT !.alone = TRUE]
    BY <1>2
  <2> QED
    BY <2>1 DEF Idle
<1>5. ASSUME run[o] # Idle
      PROVE  /\ run'[o].op = run[o].op /\ run'[o].version = run[o].version /\ run'[o].alone = FALSE
             /\ run'[o].failing = "no" => Reaches(run'[o], host', run[o].version)
  <2> DEFINE q == run'[o]
             b == run[o] = Idle
  <2>1. run[o] \in Runs /\ q = [run[o] EXCEPT !.alone = b] /\ b = FALSE
    BY <1>1, <1>2, <1>5 DEF Inv, TypeOK
  <2> HIDE DEF q, b
  <2>2. /\ q.op = run[o].op /\ q.alone = FALSE /\ q.todo = run[o].todo /\ q.policy = run[o].policy
        /\ q.before = run[o].before /\ q.failing = run[o].failing /\ q.version = run[o].version
    BY <2>1 DEF Runs
  <2>3. q.failing = "no" => Reaches(run[o], host, run[o].version)
    BY <1>1, <1>5, <2>2 DEF SuccessInv
  <2>4. \A v : Artifact(q, v) = Artifact(run[o], v)
    BY <2>2 DEF Artifact
  <2>5. \A v : Reaches(run[o], host, v) => Reaches(q, host, v)
    BY <2>2, <2>4 DEF Reaches, Configures, Deploys
  <2> QED
    BY <1>2, <2>2, <2>3, <2>5 DEF q
<1>6. Ours'.op \in {None, "configure"} \cup Lasting /\ Theirs'.op \in {None, "update"}
  <2>1. run'[o].op = run[o].op
    BY <1>4, <1>5
  <2> QED
    BY <1>1, <1>2, <1>3, <2>1 DEF SuccessInv, Ours, Theirs
<1>7. /\ run'[p].op # None
      /\ run'[p].version \in Offered /\ (run'[p].op \in Lasting => run'[p].version = Mine)
      /\ run'[p].alone => run'[o] = Idle
      /\ run'[p].failing = "no" => Reaches(run'[p], host', run'[p].version)
  BY <1>1, <1>2, <1>3, <1>4 DEF Quiet
<1>8. run'[o] # Idle =>
        /\ run'[o].op # None
        /\ run'[o].version \in Offered /\ (run'[o].op \in Lasting => run'[o].version = Mine)
        /\ run'[o].alone => run'[p] = Idle
        /\ run'[o].failing = "no" => Reaches(run'[o], host', run'[o].version)
  BY <1>1, <1>4, <1>5 DEF SuccessInv
<1>9. \A x \in Processes :
        run'[x] # Idle =>
          /\ run'[x].op # None
          /\ run'[x].version \in Offered /\ (run'[x].op \in Lasting => run'[x].version = Mine)
          /\ run'[x].alone => run'[Other(x)] = Idle
          /\ run'[x].failing = "no" => Reaches(run'[x], host', run'[x].version)
  BY <1>1, <1>7, <1>8 DEF o
<1> QED
  BY <1>6, <1>9 DEF SuccessInv

-----------------------------------------------------------------------------
(* Success *)

LEMMA OnwardSuccess ==
  ASSUME Inv, SuccessInv, NEW p \in Processes, Onward(p), Safe(host, host'),
         p = "manager" => /\ host'.files = host.files /\ host'.entries = host.entries
                          /\ host'.links = host.links /\ host'.active = host.active
  PROVE  SuccessInv'
<1>1. PICK q : /\ run' = [run EXCEPT ![p] = q] /\ q.op = run[p].op /\ q.version = run[p].version
               /\ q.alone = run[p].alone
               /\ q.failing = "no" => Reaches(q, host', Version(p))
  BY DEF Onward
<1>2. run[p] # Idle
  BY DEF Onward
<1>3. run[Other(p)] # Idle /\ run[Other(p)].failing = "no"
        => Reaches(run[Other(p)], host', Version(Other(p)))
  BY <1>2, OtherReaches
<1> QED
  BY <1>1, <1>2, <1>3, Moved

LEMMA FailingOnward ==
  ASSUME Inv, SuccessInv, NEW p \in Processes,
         StepFails(p) \/ Compensate(p) \/ CompensationFails(p)
  PROVE  Onward(p)
<1> DEFINE r == run[p]
<1>1. r.todo # <<>>
  BY DEF StepFails, Compensate, CompensationFails
<1>2. r # Idle /\ run \in [Processes -> Runs] /\ r \in Runs
  BY <1>1, IdleTyped DEF Inv, TypeOK
<1>3. CASE StepFails(p)
  <2> DEFINE t == Compensation(p)
             q == [r EXCEPT !.todo = t, !.undo = <<>>, !.failing = "yes"]
  <2>1. run' = [run EXCEPT ![p] = q]
    BY <1>2, <1>3 DEF StepFails
  <2> HIDE DEF t
  <2>2. q.op = r.op /\ q.version = r.version /\ q.alone = r.alone /\ q.failing = "yes"
    BY <1>2 DEF Runs
  <2> HIDE DEF q
  <2> QED
    BY <1>2, <2>1, <2>2 DEF Onward
<1>4. CASE Compensate(p)
  <2> DEFINE s == <<>>
  <2>1. r.failing # "no" /\ Continue(p, s, s)
    BY <1>4 DEF Compensate
  <2> HIDE DEF s
  <2>2. PICK q : /\ run' = [run EXCEPT ![p] = q] /\ q.op = r.op /\ q.failing = r.failing
                 /\ q.version = r.version /\ q.alone = r.alone
    BY <2>1, ContinueFields
  <2> QED
    BY <1>2, <2>1, <2>2 DEF Onward
<1>5. CASE CompensationFails(p)
  <2> DEFINE t == Tail(r.todo)
             q == [r EXCEPT !.todo = t, !.failing = "badly"]
  <2>1. run' = [run EXCEPT ![p] = q]
    BY <1>2, <1>5 DEF CompensationFails
  <2> HIDE DEF t
  <2>2. q.op = r.op /\ q.version = r.version /\ q.alone = r.alone /\ q.failing = "badly"
    BY <1>2 DEF Runs
  <2> HIDE DEF q
  <2> QED
    BY <1>2, <2>1, <2>2 DEF Onward
<1> QED
  BY <1>3, <1>4, <1>5

LEMMA IdledSuccess ==
  ASSUME SuccessInv, \A x \in Processes : run'[x] = Idle \/ run'[x] = run[x],
         host' = host \/ \A x \in Processes : run'[x] = Idle
  PROVE  SuccessInv'
<1>1. Idle.op = None
  BY DEF Idle
<1>2. Ours'.op \in {None, "configure"} \cup Lasting /\ Theirs'.op \in {None, "update"}
  BY <1>1, Both DEF SuccessInv, Ours, Theirs
<1>3. ASSUME NEW x \in Processes, run'[x] # Idle
      PROVE  /\ run'[x].op # None
             /\ run'[x].version \in Offered /\ (run'[x].op \in Lasting => run'[x].version = Mine)
             /\ run'[x].alone => run'[Other(x)] = Idle
             /\ run'[x].failing = "no" => Reaches(run'[x], host', run'[x].version)
  <2>1. /\ run'[x] = run[x] /\ host' = host
        /\ run'[Other(x)] = Idle \/ run'[Other(x)] = run[Other(x)]
    BY <1>3, Both
  <2> QED
    BY <1>3, <2>1 DEF SuccessInv
<1> QED
  BY <1>2, <1>3 DEF SuccessInv

(* What each process does, but for beginning and ending. *)
Working(p) ==
  \/ Plan(p) \/ Snapshot(p) \/ Select(p) \/ Release(p) \/ Advance(p) \/ StepFails(p)
  \/ Compensate(p) \/ CompensationFails(p)

LEMMA WorkingOnward ==
  ASSUME Inv, BoundaryInv, SuccessInv, NEW p \in Processes, Working(p)
  PROVE  Onward(p)
<1>1. ASSUME Plan(p) PROVE p = "installer"
  <2> SUFFICES ASSUME p = "manager" PROVE FALSE
    BY Both
  <2>1. Theirs.todo # <<>> /\ Head(Theirs.todo).do = "plan" /\ run["manager"] = Theirs
    BY <1>1 DEF Plan, Ready, At, Now, Theirs
  <2> QED
    BY <2>1, TheirsFields DEF Deploying
<1> QED
  BY <1>1, PlanOnward, SnapshotOnward, SelectOnward, ReleaseOnward, AdvanceOnward, FailingOnward
     DEF Working

LEMMA WorkingSuccess ==
  ASSUME Inv, BoundaryInv, SuccessInv, NEW p \in Processes, Working(p), Safe(host, host')
  PROVE  SuccessInv'
<1>1. Onward(p)
  BY WorkingOnward
<1>2. ASSUME p = "manager"
      PROVE  /\ host'.files = host.files /\ host'.entries = host.entries
             /\ host'.links = host.links /\ host'.active = host.active
  <2>1. run["manager"] = Theirs
    BY DEF Theirs
  <2>2. CASE Plan(p) \/ Snapshot(p) \/ Select(p) \/ Release(p)
    BY <2>2 DEF Plan, Snapshot, Select, Release
  <2>3. CASE Advance(p) \/ StepFails(p) \/ Compensate(p) \/ CompensationFails(p)
    <3>1. /\ Theirs.todo # <<>>
          /\ \/ host' \in {host, Done(Head(Theirs.todo), Theirs)}
             \/ Theirs.failing # "no" /\ host' \in Outcomes(Head(Theirs.todo))
             \/ Theirs.failing # "no" /\ host' \in Halfway(Head(Theirs.todo))
             \/ Theirs.failing # "no" /\ host' = Undone(Head(Theirs.todo))
      <4>1. CASE Advance(p)
        BY <1>2, <2>1, <4>1 DEF Advance, Ready, At, Now
      <4>2. CASE StepFails(p)
        BY <1>2, <2>1, <4>2 DEF StepFails, Now
      <4>3. CASE Compensate(p)
        BY <1>2, <2>1, <4>3 DEF Compensate, Now
      <4>4. CASE CompensationFails(p)
        BY <1>2, <2>1, <4>4 DEF CompensationFails, Now
      <4> QED
        BY <2>3, <4>1, <4>2, <4>3, <4>4
    <3> QED
      BY <3>1, ManagerElsewhere
  <2> QED
    BY <2>2, <2>3 DEF Working
<1> QED
  BY <1>1, <1>2, OnwardSuccess

LEMMA NextSuccess ==
  ASSUME Inv, BoundaryInv, SuccessInv, [Next]_vars
  PROVE  SuccessInv'
<1>0. Safe(host, host') /\ run \in [Processes -> Runs]
  BY NextKeeps DEF Keeps, Inv, TypeOK
<1>1. CASE Configure
  BY <1>1, BeginSuccess, Both DEF Configure, Offered
<1>2. CASE Install \/ Adopt \/ Upgrade
  BY <1>2, BeginSuccess, Both DEF Install, Adopt, Upgrade, Lasting, Offered
<1>3. CASE Update
  <2>1. PICK version \in {Mine, Published} : Begin("manager", "update", FALSE, version)
    BY <1>3 DEF Update
  <2> QED
    BY <2>1, BeginSuccess, Both DEF Offered
<1>4. CASE \E p \in Processes : Working(p)
  BY <1>0, <1>4, WorkingSuccess
<1>5. CASE \E p \in Processes : Finish(p)
  BY <1>0, <1>5, IdledSuccess DEF Finish
<1>6. CASE \E p \in Processes : Kill(p)
  BY <1>0, <1>6, IdledSuccess DEF Kill, Killed
<1>7. CASE Reboot
  <2>1. \A x \in Processes : run'[x] = Idle
    BY <1>7 DEF Reboot, Quiet, Killed
  <2> QED
    BY <2>1, IdledSuccess
<1>8. CASE UNCHANGED vars
  BY <1>8, IdledSuccess DEF vars
<1> QED
  BY <1>1, <1>2, <1>3, <1>4, <1>5, <1>6, <1>7, <1>8 DEF Next, Working

LEMMA SuccessInvariance == Spec => [](Inv /\ BoundaryInv /\ SuccessInv)
<1>1. Init => SuccessInv
  BY Both DEF Init, SuccessInv, Ours, Theirs, Idle
<1>2. SuccessInv /\ Inv /\ BoundaryInv /\ [Next]_vars => SuccessInv'
  BY NextSuccess
<1> QED
  BY <1>1, <1>2, BoundaryInvariance, PTL DEF Spec

(* Only a command that finishes reports success. *)
LEMMA EndsFinish ==
  ASSUME Inv, BoundaryInv, SuccessInv, [Next]_vars, NEW p \in Processes, Ends(p),
         report' \in {"ok", "failed"}
  PROVE  Finish(p)
<1>1. run[p] # Idle /\ run'[p] = Idle /\ run[p].op # None /\ Idle.op = None /\ run \in [Processes -> Runs]
  BY DEF Ends, SuccessInv, Idle, Inv, TypeOK
<1>2. ASSUME NEW x \in Processes, NEW op, NEW flag, NEW version, Begin(x, op, flag, version) PROVE FALSE
  <2>1. x # p /\ run'[p] = [run[p] EXCEPT !.alone = (run[p] = Idle)]
    BY <1>1, <1>2 DEF Begin
  <2>2. run[p] \in Runs
    BY <1>1
  <2>3. run'[p].op = run[p].op
    BY <2>1, <2>2 DEF Runs
  <2> QED
    BY <1>1, <2>3
<1>3. ASSUME NEW x \in Processes, Working(x) PROVE FALSE
  <2>1. PICK q : run' = [run EXCEPT ![x] = q] /\ q.op = run[x].op
    BY <1>3, WorkingOnward DEF Onward
  <2> QED
    BY <1>1, <2>1
<1>4. ASSUME NEW x \in Processes, Finish(x) PROVE x = p
  BY <1>1, <1>4 DEF Finish
<1>5. ~\E x \in Processes : Kill(x)
  BY DEF Kill, Killed
<1>6. ~Reboot /\ ~UNCHANGED vars
  BY <1>1 DEF Reboot, Killed, Quiet, vars
<1>7. ~Configure /\ ~Install /\ ~Adopt /\ ~Upgrade /\ ~Update
  BY <1>2, Both DEF Configure, Install, Adopt, Upgrade, Update
<1> QED
  BY <1>3, <1>4, <1>5, <1>6, <1>7 DEF Next, Working

(* A configure, install, adopt or upgrade that had the host to itself and reports
   success leaves the accounts, every policy file and the timer of its policy, and
   each that deploys, as update does, selects the release it brought
   (configure_host, _deploy_source_release, upgrade_product). *)
THEOREM SuccessIsComplete == Spec => SuccessComplete
<1> DEFINE Well(p) ==
             /\ run[p].op # "update" =>
                  \E policy \in Policies :
                    /\ Boundary(host', policy)
                    /\ policy = "bootstrap" => run[p].before.files["settings"] = "bootstrap"
             /\ run[p].op \in {"install", "adopt", "upgrade"} => Deployed(host', Mine)
             /\ run[p].op = "update" => host'.selector = run[p].version
<1>1. ASSUME Inv, BoundaryInv, SuccessInv, [Next]_vars,
             NEW p \in Processes, Ends(p), run[p].alone, report' = "ok"
      PROVE  Well(p)
  <2> DEFINE r == run[p]
             policy == r.policy
  <2>1. r.todo = <<>> /\ r.failing = "no" /\ host' = host
    BY <1>1, EndsFinish DEF Finish
  <2>2. /\ Reaches(r, host, r.version) /\ r.alone /\ r.op # None
        /\ r.op \in Lasting => r.version = Mine
    BY <1>1, <2>1 DEF SuccessInv, Ends
  <2>3. \A A : ~Has(r.todo, A)
    BY <2>1, EmptyHas
  <2>4. r.op # "update" => p = "installer"
    BY <1>1, <2>2, Both DEF SuccessInv, Theirs
  <2>5. ASSUME r.op # "update"
        PROVE  /\ policy \in Policies /\ Boundary(host, policy)
               /\ policy = "bootstrap" => r.before.files["settings"] = "bootstrap"
    <3>1. Configures(r, host)
      BY <2>2, <2>5 DEF Reaches
    <3>2. policy # None /\ r \in Runs
      BY <1>1, <2>3, <3>1 DEF Configures, Inv, TypeOK
    <3>3. policy \in Policies
      BY <3>2 DEF Runs
    <3>4. /\ \A f \in Files : host.files[f] = Rendered(f, policy)
          /\ "persistent" \in host.links /\ host.active
          /\ policy = "bootstrap" => r.before.files["settings"] = "bootstrap"
      BY <2>3, <3>1, <3>2 DEF Configures
    <3>5. Wanted(policy) \subseteq host.ids
      <4>1. Progress(r, host)
        BY <1>1, <2>1, <2>4, <2>5 DEF BoundaryInv, OursInv, Ours
      <4> QED
        BY <2>3, <3>2, <4>1 DEF Progress
    <3>6. Timer(host) = [unit |-> "enabled", active |-> TRUE]
      <4>1. host.files["timer"] # None
        <5>1. "timer" \in Files /\ Rendered("timer", policy) = "full"
          BY DEF Files, Rendered
        <5> QED
          BY <3>4, <5>1, Nothing
      <4>2. host.active = TRUE
        BY <1>1, <3>4 DEF Inv, TypeOK, Hosts
      <4> QED
        BY <3>4, <4>1, <4>2 DEF Timer
    <3> QED
      BY <3>3, <3>4, <3>5, <3>6 DEF Boundary
  <2>6. r.op \in {"install", "adopt", "upgrade"} => Deployed(host, Mine)
    BY <2>2, <2>3 DEF Reaches, Deploys, Deployed, Lasting, Artifact
  <2>7. r.op = "update" => host.selector = r.version
    BY <2>2, <2>3 DEF Reaches, Deploys
  <2> QED
    BY <2>1, <2>5, <2>6, <2>7
<1>2. Inv /\ BoundaryInv /\ SuccessInv /\ [Next]_vars =>
        [\A p \in Processes : Ends(p) /\ run[p].alone /\ report' = "ok" => Well(p)]_vars
  BY <1>1
<1> QED
  BY <1>2, SuccessInvariance, PTL DEF Spec, SuccessComplete

-----------------------------------------------------------------------------
(* What a failure has to put back *)

(* The last step of A in s, if there is one, is e; and what e does is done already
   if there is none. *)
Settles(s, A, e) == \A i \in 1..Len(s) : s[i] \in A => \E j \in 1..Len(s) : i <= j /\ s[j] = e
Mended(s, A, e, done) == Settles(s, A, e) /\ (Has(s, A) \/ done)

PutBacks(f) == {s \in Of("putback") : s.on = f}
Repaths(e) == {s \in Of("repath") : s.on = e}
Timing == Of("quiesce") \cup Of("retimer") \cup PutBacks("timer")

(* The accounts that may go when one is dropped. *)
Gone(id) == Removed(id) \cup (IF id = "user" THEN {"group"} ELSE {})

(* The steps s make of host h what b was. *)
Restores(s, h, b) ==
  /\ \A f \in Files : Mended(s, PutBacks(f), Redo("putback", f, b.files[f]), h.files[f] = b.files[f])
  /\ \A e \in Entries : Mended(s, Repaths(e), Redo("repath", e, b.entries[e]), h.entries[e] = b.entries[e])
  /\ Mended(s, Timing, Redo("retimer", None, Timer(b)), Timer(h) = Timer(b))
  /\ b.selector # None =>
       Mended(s, Of("reselect"), Do("reselect", Product(b)), Product(h) = Product(b))
  /\ b.ids \subseteq h.ids /\ \A id \in h.ids \ b.ids : Has(s, {Do("drop", id)})
  /\ \A id \in Identities : Has(s, {Do("drop", id)}) => Gone(id) \cap b.ids = {}

Installing == {"install", "adopt"}
Closing == Of("initialize") \cup Of("health")
Choosing == Of("select") \cup {Do("publish", "legacy-import")}

(* The old product is recorded before another is selected, the operators exist
   before the member; install and adopt end with the operator's configuration, and
   the steps that are not taken back come last. *)
Sequence(op, t) ==
  /\ Before(t, Steps \ Selecting, Choosing)
  /\ Before(t, Steps \ {Do("create", "member")}, {Do("create", "operators")})
  /\ ~Has(t, {Do("release", "legacy-import")})
  /\ op \in Installing => Before(t, Steps \ (Closing \cup {Do("plan", "full")}), Steps \ Closing)
  /\ op \notin Installing => ~Has(t, Of("initialize") \cup {Do("health", "last")})

(* What the steps ahead will change can be taken back. *)
Covers(r, h, b) ==
  /\ \A f \in Files : Has(r.todo, {Do("file", f)}) => Has(r.undo, PutBacks(f))
  /\ Has(r.todo, Of("enable") \cup Of("start")) => Has(r.undo, Timing)
  /\ \A e \in Entries : Has(r.todo, {Do("entry", e)}) => Has(r.undo, Repaths(e))
  /\ b.selector # None /\ Has(r.todo, Selecting) => Has(r.undo, Of("reselect")) \/ Has(r.todo, Choosing)
  /\ Has(r.todo, {Do("publish", "legacy-import")}) => h.selector = "plain"

(* The host a failure goes back to. *)
Based(r, h, b) ==
  \/ b = r.before
  \/ /\ r.op \in Installing /\ Deployed(b, Mine) /\ h.releases[Mine] = "ours"
     /\ \E policy \in Policies : Boundary(b, policy)
Restorable(r, h, b) ==
  /\ Based(r, h, b) /\ Restores(Back(r), h, b)
  /\ r.failing = "no" => Covers(r, h, b)

Enrolled(h) == "member" \in h.ids => "operators" \in h.ids

Orderly(r) ==
  r.failing = "no" =>
    /\ Sequence(r.op, r.todo)
    /\ r.op \in Installing /\ r.policy = None => Has(r.todo, {Do("plan", "bootstrap")})
Recovers(r, h) == r.alone /\ r.failing # "badly" => \E b \in Hosts : Restorable(r, h, b)

OrderInv == Enrolled(host) /\ \A p \in Processes : Orderly(run[p])
RestoreInv == \A p \in Processes : run[p] # Idle => Recovers(run[p], host)

-----------------------------------------------------------------------------
(* What a sequence of compensations comes to *)

LEMMA MendedEmpty ==
  ASSUME NEW A, NEW e, NEW done
  PROVE  Mended(<<>>, A, e, done) <=> done
  BY EmptyHas DEF Mended, Settles

(* After its first step. *)
LEMMA MendedTail ==
  ASSUME NEW T, NEW s \in Seq(T), s # <<>>, NEW A, NEW e \in A, NEW before, NEW after,
         Mended(s, A, e, before), Head(s) = e => after, Head(s) \notin A /\ before => after
  PROVE  Mended(Tail(s), A, e, after)
<1>1. Settles(Tail(s), A, e)
  <2> SUFFICES ASSUME NEW i \in 1..Len(Tail(s)), Tail(s)[i] \in A
               PROVE  \E j \in 1..Len(Tail(s)) : i <= j /\ Tail(s)[j] = e
    BY DEF Settles
  <2>1. i + 1 \in 1..Len(s) /\ s[i + 1] \in A
    BY HeadOrTail
  <2>2. PICK j \in 1..Len(s) : i + 1 <= j /\ s[j] = e
    BY <2>1 DEF Mended, Settles
  <2>3. j - 1 \in 1..Len(Tail(s)) /\ i <= j - 1 /\ Tail(s)[j - 1] = s[j]
    BY <2>2, HeadOrTail
  <2> QED
    BY <2>2, <2>3
<1>2. Has(Tail(s), A) \/ after
  <2> SUFFICES ASSUME ~Has(Tail(s), A) PROVE after
    OBVIOUS
  <2>1. CASE Head(s) \in A
    <3>1. 1 \in 1..Len(s) /\ s[1] = Head(s)
      BY HeadOrTail
    <3>2. PICK j \in 1..Len(s) : s[j] = e
      BY <2>1, <3>1 DEF Mended, Settles
    <3>3. j = 1 \/ (j - 1 \in 1..Len(Tail(s)) /\ s[j] = Tail(s)[j - 1])
      BY HeadOrTail
    <3>4. j = 1
      BY <3>2, <3>3 DEF Has
    <3> QED
      BY <3>1, <3>2, <3>4
  <2>2. CASE Head(s) \notin A
    BY <2>2, HasTail DEF Mended
  <2> QED
    BY <2>1, <2>2
<1> QED
  BY <1>1, <1>2 DEF Mended

(* With steps before it that put back what there is now. *)
LEMMA MendedJoined ==
  ASSUME NEW T, NEW x \in Seq(T), NEW s \in Seq(T), NEW A, NEW e \in A, NEW done,
         Mended(s, A, e, done), done => Settles(x, A, e)
  PROVE  Mended(x \o s, A, e, done)
<1> DEFINE t == x \o s
<1>1. Has(s, A) \/ done
  BY DEF Mended
<1>2. Has(t, A) \/ done
  BY <1>1, HasJoined
<1>3. Settles(t, A, e)
  <2> SUFFICES ASSUME NEW i \in 1..Len(t), t[i] \in A PROVE \E j \in 1..Len(t) : i <= j /\ t[j] = e
    BY DEF Settles
  <2>1. CASE i - Len(x) \in 1..Len(s) /\ t[i] = s[i - Len(x)]
    <3>1. PICK j \in 1..Len(s) : i - Len(x) <= j /\ s[j] = e
      BY <2>1 DEF Mended, Settles
    <3>2. Len(x) + j \in 1..Len(t) /\ t[Len(x) + j] = s[j] /\ Len(x) \in Nat
      BY Joined
    <3>3. i <= Len(x) + j
      BY <3>1, <3>2
    <3> QED
      BY <3>1, <3>2, <3>3
  <2>2. CASE i \in 1..Len(x) /\ t[i] = x[i] /\ Has(s, A)
    <3>1. PICK k \in 1..Len(s) : s[k] \in A
      BY <2>2 DEF Has
    <3>2. PICK j \in 1..Len(s) : s[j] = e
      BY <3>1 DEF Mended, Settles
    <3>3. Len(x) + j \in 1..Len(t) /\ t[Len(x) + j] = s[j] /\ Len(x) \in Nat
      BY Joined
    <3>4. i <= Len(x) + j
      BY <2>2, <3>3
    <3> QED
      BY <3>2, <3>3, <3>4
  <2>3. CASE i \in 1..Len(x) /\ t[i] = x[i] /\ done
    <3>1. PICK j \in 1..Len(x) : i <= j /\ x[j] = e
      BY <2>3 DEF Settles
    <3>2. j \in 1..Len(t) /\ t[j] = x[j]
      BY <3>1, Joined
    <3> QED
      BY <3>1, <3>2
  <2> QED
    BY <1>1, <2>1, <2>2, <2>3, Joined
<1> QED
  BY <1>2, <1>3 DEF Mended

(* While something else is done, or what has been done is taken back. *)
LEMMA MendedKept ==
  ASSUME NEW s, NEW A, NEW e, NEW before, NEW after, Mended(s, A, e, before),
         Has(s, A) \/ (before => after)
  PROVE  Mended(s, A, e, after)
  BY DEF Mended

LEMMA SettlesNone ==
  ASSUME NEW T, NEW s \in Seq(T), NEW A, NEW e, T \cap A = {}
  PROVE  Settles(s, A, e)
<1>1. \A i \in 1..Len(s) : s[i] \in T
  BY ElementOfSeq
<1> QED
  BY <1>1 DEF Settles

(* Of two sequences that leave the same. *)
LEMMA SettlesJoined ==
  ASSUME NEW T, NEW x \in Seq(T), NEW s \in Seq(T), NEW A, NEW e \in A,
         Settles(x, A, e) \/ Has(s, A), Settles(s, A, e)
  PROVE  Settles(x \o s, A, e)
<1> DEFINE done == Settles(x, A, e)
<1>1. Mended(s, A, e, done)
  BY DEF Mended
<1>2. Mended(x \o s, A, e, done)
  BY <1>1, MendedJoined
<1> QED
  BY <1>2 DEF Mended

-----------------------------------------------------------------------------
(* The host and the way back *)

LEMMA Targets ==
  ASSUME NEW b \in Hosts
  PROVE  /\ \A f \in Files : Redo("putback", f, b.files[f]) \in PutBacks(f)
         /\ \A e \in Entries : Redo("repath", e, b.entries[e]) \in Repaths(e)
         /\ Redo("retimer", None, Timer(b)) \in Timing
         /\ b.selector # None => /\ Product(b) \in Versions
                                 /\ Do("reselect", Product(b)) \in Of("reselect")
<1>1. \A f \in Files : Redo("putback", f, b.files[f]) \in PutBacks(f)
  <2> TAKE f \in Files
  <2>1. b.files[f] \in Contents
    BY DEF Hosts
  <2>2. Redo("putback", f, b.files[f]) \in Of("putback") /\ Redo("putback", f, b.files[f]).on = f
    BY <2>1, StepKinds DEF Redo
  <2> QED
    BY <2>2 DEF PutBacks
<1>2. \A e \in Entries : Redo("repath", e, b.entries[e]) \in Repaths(e)
  <2> TAKE e \in Entries
  <2>1. b.entries[e] \in {None, "was", "ours"}
    BY DEF Hosts
  <2>2. Redo("repath", e, b.entries[e]) \in Of("repath") /\ Redo("repath", e, b.entries[e]).on = e
    BY <2>1, StepKinds DEF Redo
  <2> QED
    BY <2>2 DEF Repaths
<1>3. Redo("retimer", None, Timer(b)) \in Timing
  <2>1. Timer(b) \in Timers
    BY DEF Timer, Timers, Units, Hosts
  <2> QED
    BY <2>1, StepKinds DEF Timing
<1>4. b.selector # None => Product(b) \in Versions /\ Do("reselect", Product(b)) \in Of("reselect")
  <2>1. b.selector # None => Product(b) \in Versions
    BY DEF Product, Hosts, Versions
  <2> QED
    BY <2>1, StepKinds
<1> QED
  BY <1>1, <1>2, <1>3, <1>4

LEMMA RestoresItself ==
  ASSUME NEW b \in Hosts
  PROVE  Restores(<<>>, b, b)
  BY MendedEmpty, EmptyHas DEF Restores

(* Nothing is left to take back. *)
LEMMA Restored ==
  ASSUME NEW h, NEW b, Restores(<<>>, h, b)
  PROVE  /\ \A f \in Files : h.files[f] = b.files[f]
         /\ \A e \in Entries : h.entries[e] = b.entries[e]
         /\ Timer(h) = Timer(b) /\ h.ids = b.ids
         /\ b.selector # None => Product(h) = Product(b)
  BY MendedEmpty, EmptyHas DEF Restores

(* What has been done is taken back by s. *)
LEMMA RestoresKept ==
  ASSUME NEW s, NEW h, NEW g, NEW b, Restores(s, h, b),
         \A f \in Files : Has(s, PutBacks(f)) \/ g.files[f] = h.files[f],
         \A e \in Entries : Has(s, Repaths(e)) \/ g.entries[e] = h.entries[e],
         Has(s, Timing) \/ Timer(g) = Timer(h),
         b.selector # None => Has(s, Of("reselect")) \/ Product(g) = Product(h),
         h.ids \subseteq g.ids, \A id \in g.ids \ h.ids : Has(s, {Do("drop", id)})
  PROVE  Restores(s, g, b)
<1>1. \A f \in Files : Mended(s, PutBacks(f), Redo("putback", f, b.files[f]), g.files[f] = b.files[f])
  <2> TAKE f \in Files
  <2> DEFINE old == h.files[f] = b.files[f]
             new == g.files[f] = b.files[f]
  <2>1. Mended(s, PutBacks(f), Redo("putback", f, b.files[f]), old)
    BY DEF Restores
  <2>2. Has(s, PutBacks(f)) \/ (old => new)
    OBVIOUS
  <2> HIDE DEF old, new
  <2>3. Mended(s, PutBacks(f), Redo("putback", f, b.files[f]), new)
    BY <2>1, <2>2, MendedKept
  <2> QED
    BY <2>3 DEF new
<1>2. \A e \in Entries : Mended(s, Repaths(e), Redo("repath", e, b.entries[e]), g.entries[e] = b.entries[e])
  <2> TAKE e \in Entries
  <2> DEFINE old == h.entries[e] = b.entries[e]
             new == g.entries[e] = b.entries[e]
  <2>1. Mended(s, Repaths(e), Redo("repath", e, b.entries[e]), old)
    BY DEF Restores
  <2>2. Has(s, Repaths(e)) \/ (old => new)
    OBVIOUS
  <2> HIDE DEF old, new
  <2>3. Mended(s, Repaths(e), Redo("repath", e, b.entries[e]), new)
    BY <2>1, <2>2, MendedKept
  <2> QED
    BY <2>3 DEF new
<1>3. Mended(s, Timing, Redo("retimer", None, Timer(b)), Timer(g) = Timer(b))
  BY DEF Restores, Mended
<1>4. b.selector # None =>
        Mended(s, Of("reselect"), Do("reselect", Product(b)), Product(g) = Product(b))
  BY DEF Restores, Mended
<1>5. /\ b.ids \subseteq g.ids /\ \A id \in g.ids \ b.ids : Has(s, {Do("drop", id)})
      /\ \A id \in Identities : Has(s, {Do("drop", id)}) => Gone(id) \cap b.ids = {}
  BY DEF Restores
<1> QED
  BY <1>1, <1>2, <1>3, <1>4, <1>5 DEF Restores

(* Steps that put back what host h has. *)
Records(x, h) ==
  /\ \A f \in Files : Settles(x, PutBacks(f), Redo("putback", f, h.files[f]))
  /\ \A e \in Entries : Settles(x, Repaths(e), Redo("repath", e, h.entries[e]))
  /\ Settles(x, Timing, Redo("retimer", None, Timer(h)))
  /\ h.selector # None => Settles(x, Of("reselect"), Do("reselect", Product(h)))
  /\ \A id \in Identities : Has(x, {Do("drop", id)}) => Gone(id) \cap h.ids = {}

LEMMA RestoresJoined ==
  ASSUME NEW x \in Seq(Steps), NEW s \in Seq(Steps), NEW h, NEW b \in Hosts,
         Restores(s, h, b), Records(x, h)
  PROVE  Restores(x \o s, h, b)
<1> DEFINE t == x \o s
<1>1. \A f \in Files : Mended(t, PutBacks(f), Redo("putback", f, b.files[f]), h.files[f] = b.files[f])
  <2> TAKE f \in Files
  <2> DEFINE e == Redo("putback", f, b.files[f])
             done == h.files[f] = b.files[f]
  <2>1. Mended(s, PutBacks(f), e, done) /\ e \in PutBacks(f)
    BY Targets DEF Restores
  <2>2. done => Settles(x, PutBacks(f), e)
    BY DEF Records
  <2> HIDE DEF e, done
  <2>3. Mended(t, PutBacks(f), e, done)
    BY <2>1, <2>2, MendedJoined
  <2> QED
    BY <2>3 DEF e, done
<1>2. \A e \in Entries : Mended(t, Repaths(e), Redo("repath", e, b.entries[e]), h.entries[e] = b.entries[e])
  <2> TAKE f \in Entries
  <2> DEFINE e == Redo("repath", f, b.entries[f])
             done == h.entries[f] = b.entries[f]
  <2>1. Mended(s, Repaths(f), e, done) /\ e \in Repaths(f)
    BY Targets DEF Restores
  <2>2. done => Settles(x, Repaths(f), e)
    BY DEF Records
  <2> HIDE DEF e, done
  <2>3. Mended(t, Repaths(f), e, done)
    BY <2>1, <2>2, MendedJoined
  <2> QED
    BY <2>3 DEF e, done
<1>3. Mended(t, Timing, Redo("retimer", None, Timer(b)), Timer(h) = Timer(b))
  <2> DEFINE e == Redo("retimer", None, Timer(b))
             done == Timer(h) = Timer(b)
  <2>1. Mended(s, Timing, e, done) /\ e \in Timing
    BY Targets DEF Restores
  <2>2. done => Settles(x, Timing, e)
    BY DEF Records
  <2> HIDE DEF e, done
  <2>3. Mended(t, Timing, e, done)
    BY <2>1, <2>2, MendedJoined
  <2> QED
    BY <2>3 DEF e, done
<1>4. b.selector # None =>
        Mended(t, Of("reselect"), Do("reselect", Product(b)), Product(h) = Product(b))
  <2> SUFFICES ASSUME b.selector # None
               PROVE  Mended(t, Of("reselect"), Do("reselect", Product(b)), Product(h) = Product(b))
    OBVIOUS
  <2> DEFINE e == Do("reselect", Product(b))
             done == Product(h) = Product(b)
  <2>1. Mended(s, Of("reselect"), e, done) /\ e \in Of("reselect") /\ Product(b) \in Versions
    BY Targets DEF Restores
  <2>2. done => h.selector # None
    BY <2>1, NoneAssumption DEF Product
  <2>3. done => Settles(x, Of("reselect"), e)
    BY <2>2 DEF Records
  <2> HIDE DEF e, done
  <2>4. Mended(t, Of("reselect"), e, done)
    BY <2>1, <2>3, MendedJoined
  <2> QED
    BY <2>4 DEF e, done
<1>5. \A A : Has(t, A) <=> Has(x, A) \/ Has(s, A)
  BY HasJoined
<1>6. b.ids \subseteq h.ids /\ \A id \in h.ids \ b.ids : Has(t, {Do("drop", id)})
  BY <1>5 DEF Restores
<1>7. \A id \in Identities : Has(t, {Do("drop", id)}) => Gone(id) \cap b.ids = {}
  BY <1>5, <1>6 DEF Restores, Records
<1> QED
  BY <1>1, <1>2, <1>3, <1>4, <1>6, <1>7 DEF Restores

-----------------------------------------------------------------------------
(* A step of the way back *)

LEMMA OutcomeRest ==
  ASSUME host \in Hosts, NEW step \in Backward, NEW g \in Outcomes(step)
  PROVE  /\ step.do # "reselect" => g.selector = host.selector
         /\ step.do = "reselect" => g.selector = step.on
         /\ step \notin Timing => g.links = host.links /\ g.active = host.active
         /\ step.do = "retimer" => g = OldTimer(step.was)
         /\ step.do = "drop" => host.ids \ Gone(step.on) \subseteq g.ids
         /\ g.releases = host.releases
<1> DEFINE h == Undone(step)
<1>1. step.do \in Compensations /\ step \in Steps
  BY DEF Backward
<1>2. CASE step.do = "drop"
  <2>1. h = [host EXCEPT !.ids = @ \ Removed(step.on)]
    BY <1>2 DEF Undone
  <2>2. g = h \/ (step.on = "user" /\ g = [h EXCEPT !.ids = @ \ {"group"}])
    BY <1>2 DEF Outcomes
  <2> HIDE DEF h
  <2>3. /\ h.ids = host.ids \ Removed(step.on) /\ h.selector = host.selector
        /\ h.links = host.links /\ h.active = host.active /\ h.releases = host.releases
    BY <2>1 DEF Hosts
  <2>4. /\ g.ids = h.ids \/ (step.on = "user" /\ g.ids = h.ids \ {"group"})
        /\ g.selector = h.selector /\ g.links = h.links /\ g.active = h.active /\ g.releases = h.releases
    BY <2>1, <2>2 DEF Hosts
  <2> QED
    BY <1>2, <2>3, <2>4 DEF Gone
<1>3. CASE step.do # "drop"
  <2>1. g = h
    BY <1>3 DEF Outcomes
  <2>2. CASE step.do = "quiesce"
    <3> DEFINE l == IF host.files["timer"] = None THEN host.links ELSE {}
    <3>1. h = [host EXCEPT !.active = FALSE, !.links = l]
      BY <2>2 DEF Undone
    <3>2. step \in Timing
      BY <1>1, <2>2 DEF Timing, Of
    <3> HIDE DEF h, l
    <3> QED
      BY <2>1, <2>2, <3>1, <3>2 DEF Hosts
  <2>3. CASE step.do = "putback"
    <3>1. h = [host EXCEPT !.files[step.on] = step.was]
      BY <2>3 DEF Undone
    <3> HIDE DEF h
    <3> QED
      BY <2>1, <2>3, <3>1 DEF Hosts
  <2>4. CASE step.do = "retimer"
    <3> DEFINE l == OldLinks(step.was)
               a == IF step.was.unit = "not-found" THEN host.active ELSE step.was.active
    <3>1. h = [host EXCEPT !.links = l, !.active = a] /\ h = OldTimer(step.was)
      BY <2>4 DEF Undone, OldTimer
    <3>2. step \in Timing
      BY <1>1, <2>4 DEF Timing, Of
    <3> HIDE DEF h, l, a
    <3> QED
      BY <2>1, <2>4, <3>1, <3>2 DEF Hosts
  <2>5. CASE step.do = "repath"
    <3>1. h = [host EXCEPT !.entries[step.on] = step.was]
      BY <2>5 DEF Undone
    <3> HIDE DEF h
    <3> QED
      BY <2>1, <2>5, <3>1 DEF Hosts
  <2>6. CASE step.do = "reselect"
    <3>1. h = [host EXCEPT !.selector = step.on]
      BY <2>6 DEF Undone
    <3> HIDE DEF h
    <3> QED
      BY <2>1, <2>6, <3>1 DEF Hosts
  <2> QED
    BY <1>1, <1>3, <2>2, <2>3, <2>4, <2>5, <2>6 DEF Compensations
<1> QED
  BY <1>2, <1>3

LEMMA OutcomeTimer ==
  ASSUME host \in Hosts, NEW step \in Backward, ~Impossible(step), NEW g \in Outcomes(step)
  PROVE  /\ step \notin Timing => Timer(g) = Timer(host)
         /\ step.do = "retimer" => Timer(g) = step.was
<1>1. step \in Steps
  BY DEF Backward
<1>2. step.do = "retimer" => Timer(g) = step.was
  BY OutcomeRest DEF Impossible
<1>3. ASSUME step \notin Timing
      PROVE  Timer(g) = Timer(host)
  <2>1. g.links = host.links /\ g.active = host.active
    BY <1>3, OutcomeRest
  <2>2. g.files["timer"] = host.files["timer"]
    <3>1. CASE step.do = "putback"
      <4>1. step.on # "timer"
        BY <1>1, <1>3, <3>1 DEF Timing, PutBacks, Of
      <4>2. g.files = [host.files EXCEPT ![step.on] = step.was] /\ host.files \in [Files -> Contents]
        BY <3>1, OutcomeFields DEF Hosts
      <4> QED
        BY <4>1, <4>2 DEF Files
    <3>2. CASE step.do # "putback"
      BY <3>2, OutcomeFields
    <3> QED
      BY <3>1, <3>2
  <2> QED
    BY <2>1, <2>2 DEF Timer
<1> QED
  BY <1>2, <1>3

LEMMA RestoresNearer ==
  ASSUME host \in Hosts, NEW s \in Seq(Backward), s # <<>>, NEW b \in Hosts, Restores(s, host, b),
         ~Impossible(Head(s)), NEW g \in Outcomes(Head(s))
  PROVE  Restores(Tail(s), g, b)
<1> DEFINE step == Head(s)
           t == Tail(s)
<1>1. step \in Backward /\ step \in Steps
  BY HeadTailProperties DEF Backward
<1>2. \A A : Has(s, A) <=> step \in A \/ Has(t, A)
  BY HasTail
<1>3. \A what, on, was : Redo(what, on, was).do = what /\ Redo(what, on, was).on = on
                         /\ Redo(what, on, was).was = was
  BY DEF Redo
<1> HIDE DEF step, t
<1>4. \A f \in Files : Mended(t, PutBacks(f), Redo("putback", f, b.files[f]), g.files[f] = b.files[f])
  <2> TAKE f \in Files
  <2> DEFINE e == Redo("putback", f, b.files[f])
             before == host.files[f] = b.files[f]
             after == g.files[f] = b.files[f]
  <2>1. Mended(s, PutBacks(f), e, before) /\ e \in PutBacks(f)
    BY Targets DEF Restores
  <2>2. step.do = "putback" => g.files = [host.files EXCEPT ![step.on] = step.was]
    BY <1>1, OutcomeFields DEF step
  <2>3. step = e => after
    <3>1. host.files \in [Files -> Contents]
      BY DEF Hosts
    <3> QED
      BY <1>3, <2>2, <3>1
  <2>4. step \notin PutBacks(f) /\ before => after
    <3>1. CASE step.do # "putback"
      BY <1>1, <3>1, OutcomeFields DEF step
    <3>2. CASE step.do = "putback"
      <4>1. step \notin PutBacks(f) => step.on # f
        BY <1>1, <3>2 DEF PutBacks, Of
      <4>2. host.files \in [Files -> Contents]
        BY DEF Hosts
      <4> QED
        BY <2>2, <3>2, <4>1, <4>2
    <3> QED
      BY <3>1, <3>2
  <2> HIDE DEF e, before, after
  <2>5. Mended(t, PutBacks(f), e, after)
    BY <2>1, <2>3, <2>4, MendedTail DEF step, t
  <2> QED
    BY <2>5 DEF e, after
<1>5. \A e \in Entries : Mended(t, Repaths(e), Redo("repath", e, b.entries[e]), g.entries[e] = b.entries[e])
  <2> TAKE f \in Entries
  <2> DEFINE e == Redo("repath", f, b.entries[f])
             before == host.entries[f] = b.entries[f]
             after == g.entries[f] = b.entries[f]
  <2>1. Mended(s, Repaths(f), e, before) /\ e \in Repaths(f)
    BY Targets DEF Restores
  <2>2. step.do = "repath" => g.entries = [host.entries EXCEPT ![step.on] = step.was]
    BY <1>1, OutcomeFields DEF step
  <2>3. step = e => after
    <3>1. host.entries \in [Entries -> {None, "was", "ours"}]
      BY DEF Hosts
    <3> QED
      BY <1>3, <2>2, <3>1
  <2>4. step \notin Repaths(f) /\ before => after
    <3>1. CASE step.do # "repath"
      BY <1>1, <3>1, OutcomeFields DEF step
    <3>2. CASE step.do = "repath"
      <4>1. step \notin Repaths(f) => step.on # f
        BY <1>1, <3>2 DEF Repaths, Of
      <4>2. host.entries \in [Entries -> {None, "was", "ours"}]
        BY DEF Hosts
      <4> QED
        BY <2>2, <3>2, <4>1, <4>2
    <3> QED
      BY <3>1, <3>2
  <2> HIDE DEF e, before, after
  <2>5. Mended(t, Repaths(f), e, after)
    BY <2>1, <2>3, <2>4, MendedTail DEF step, t
  <2> QED
    BY <2>5 DEF e, after
<1>6. Mended(t, Timing, Redo("retimer", None, Timer(b)), Timer(g) = Timer(b))
  <2> DEFINE e == Redo("retimer", None, Timer(b))
             before == Timer(host) = Timer(b)
             after == Timer(g) = Timer(b)
  <2>1. Mended(s, Timing, e, before) /\ e \in Timing
    BY Targets DEF Restores
  <2>2. /\ step \notin Timing => Timer(g) = Timer(host)
        /\ step.do = "retimer" => Timer(g) = step.was
    BY <1>1, OutcomeTimer DEF step
  <2>3. step = e => after
    BY <1>3, <2>2
  <2>4. step \notin Timing /\ before => after
    BY <2>2
  <2> HIDE DEF e, before, after
  <2>5. Mended(t, Timing, e, after)
    BY <2>1, <2>3, <2>4, MendedTail DEF step, t
  <2> QED
    BY <2>5 DEF e, after
<1>7. b.selector # None =>
        Mended(t, Of("reselect"), Do("reselect", Product(b)), Product(g) = Product(b))
  <2> SUFFICES ASSUME b.selector # None
               PROVE  Mended(t, Of("reselect"), Do("reselect", Product(b)), Product(g) = Product(b))
    OBVIOUS
  <2> DEFINE e == Do("reselect", Product(b))
             before == Product(host) = Product(b)
             after == Product(g) = Product(b)
  <2>1. Mended(s, Of("reselect"), e, before) /\ e \in Of("reselect") /\ Product(b) \in Versions
    BY Targets DEF Restores
  <2>2. /\ step.do # "reselect" => g.selector = host.selector
        /\ step.do = "reselect" => g.selector = step.on
    BY <1>1, OutcomeRest DEF step
  <2>3. step = e => after
    <3>1. e.do = "reselect" /\ e.on = Product(b)
      BY DEF Do
    <3>2. Product(b) # "plain"
      BY <2>1, DistinctReleases DEF Versions
    <3> HIDE DEF e
    <3> QED
      BY <2>2, <3>1, <3>2 DEF Product
  <2>4. step \notin Of("reselect") /\ before => after
    BY <1>1, <2>2 DEF Product, Of
  <2> HIDE DEF e, before, after
  <2>5. Mended(t, Of("reselect"), e, after)
    BY <2>1, <2>3, <2>4, MendedTail DEF step, t
  <2> QED
    BY <2>5 DEF e, after
<1>8. \A id \in Identities : Has(t, {Do("drop", id)}) => Gone(id) \cap b.ids = {}
  BY <1>2 DEF Restores
<1>9. b.ids \subseteq g.ids /\ \A id \in g.ids \ b.ids : Has(t, {Do("drop", id)})
  <2>0. b.ids \subseteq host.ids /\ (\A id \in host.ids \ b.ids : Has(s, {Do("drop", id)}))
        /\ host.ids \subseteq Identities
    BY DEF Restores, Hosts
  <2>1. CASE step.do # "drop"
    <3>1. g.ids = host.ids
      BY <1>1, <2>1, OutcomeFields DEF step
    <3>2. \A id : step # Do("drop", id)
      BY <2>1 DEF Do
    <3> QED
      BY <1>2, <2>0, <3>1, <3>2
  <2>2. CASE step.do = "drop"
    <3>1. g.ids \subseteq host.ids /\ step.on \notin g.ids /\ host.ids \ Gone(step.on) \subseteq g.ids
      BY <1>1, <2>2, OutcomeFields, OutcomeRest DEF step
    <3>2. step = Do("drop", step.on) /\ step.on \in Identities
      BY <1>1, <2>2, StepFields DEF Drops, Of
    <3>3. Gone(step.on) \cap b.ids = {}
      BY <1>2, <3>2 DEF Restores
    <3>4. \A id \in g.ids : step # Do("drop", id)
      BY <3>1, <3>2, SameStep
    <3> QED
      BY <1>2, <2>0, <3>1, <3>3, <3>4
  <2> QED
    BY <2>1, <2>2
<1> QED
  BY <1>4, <1>5, <1>6, <1>7, <1>8, <1>9 DEF Restores, t

-----------------------------------------------------------------------------
(* What is recorded *)

(* What is recorded puts the host of the time back. *)
LEMMA ApartTimers ==
  /\ \A f \in Files : PutBacks(f) \subseteq Of("putback")
  /\ \A e \in Entries : Repaths(e) \subseteq Of("repath")
  /\ Of("quiesce") \cap Of("putback") = {} /\ Of("quiesce") \cap Of("repath") = {}
  /\ Of("quiesce") \cap Of("reselect") = {} /\ Of("retimer") \cap Of("putback") = {}
  /\ Of("retimer") \cap Of("repath") = {} /\ Of("retimer") \cap Of("reselect") = {}
  /\ Of("putback") \cap Of("repath") = {} /\ Of("putback") \cap Of("reselect") = {}
  /\ Of("repath") \cap Of("reselect") = {}
  /\ Of("quiesce") \cap Drops = {} /\ Of("putback") \cap Drops = {} /\ Of("retimer") \cap Drops = {}
  /\ Of("repath") \cap Drops = {} /\ Of("reselect") \cap Drops = {}
  /\ Timing \subseteq Of("quiesce") \cup Of("retimer") \cup Of("putback")
  BY DEF PutBacks, Repaths, Timing, Of, Drops

LEMMA HostUndoSettles ==
  ASSUME host \in Hosts, NEW policy \in Policies
  PROVE  /\ HostUndo(policy) \in Seq(Backing)
         /\ \A f \in Files : /\ Settles(HostUndo(policy), PutBacks(f), Redo("putback", f, host.files[f]))
                             /\ Has(HostUndo(policy), PutBacks(f))
         /\ Settles(HostUndo(policy), Timing, Redo("retimer", None, Timer(host)))
         /\ Has(HostUndo(policy), Timing)
<1> DEFINE q == <<Do("quiesce", None)>>
           e == Redo("retimer", None, Timer(host))
           r == <<e>>
           d == Dropped(policy)
           w == PutBackAll
           P1 == q \o w
           P2 == P1 \o r
           u == P2 \o d
<1>1. q \in Seq(Of("quiesce")) /\ r \in Seq(Of("retimer")) /\ e \in Of("retimer") /\ e \in Timing
  BY StepKinds, TimerTyped DEF Timing
<1>2. HostUndo(policy) = u
  BY DEF HostUndo
<1>3. d \in Seq(Drops) /\ w \in Seq(Of("putback"))
  BY DroppedShape, PutBackShape
<1>4. ASSUME NEW f \in Files
      PROVE  /\ Settles(w, PutBacks(f), Redo("putback", f, host.files[f]))
             /\ Has(w, PutBacks(f))
  <2>1. Len(w) = 6 /\ \A i \in 1..6 : w[i] = Redo("putback", FileOrder[i], host.files[FileOrder[i]])
    BY <1>3, LenProperties DEF PutBackAll
  <2>2. \E i \in 1..6 : FileOrder[i] = f
    <3>1. /\ FileOrder[1] = "sudoers" /\ FileOrder[2] = "dropin" /\ FileOrder[3] = "modules"
          /\ FileOrder[4] = "service" /\ FileOrder[5] = "timer" /\ FileOrder[6] = "settings"
      BY DEF FileOrder
    <3> QED
      BY <3>1 DEF Files
  <2>3. \A i \in 1..6 : w[i].on = FileOrder[i]
    BY <2>1 DEF Redo
  <2>4. Redo("putback", f, host.files[f]) \in PutBacks(f)
    BY Targets
  <2> HIDE DEF w
  <2>5. Settles(w, PutBacks(f), Redo("putback", f, host.files[f]))
    <3> SUFFICES ASSUME NEW i \in 1..Len(w), w[i] \in PutBacks(f)
                 PROVE  i <= i /\ w[i] = Redo("putback", f, host.files[f])
      BY DEF Settles
    <3>1. FileOrder[i] = f
      BY <2>1, <2>3 DEF PutBacks
    <3> QED
      BY <2>1, <3>1
  <2>6. Has(w, PutBacks(f))
    BY <2>1, <2>2, <2>4 DEF Has
  <2> QED
    BY <2>5, <2>6
<1>5. Settles(r, Timing, e) /\ Has(r, Timing)
  <2>1. Len(r) = 1 /\ r[1] = e
    OBVIOUS
  <2> HIDE DEF r, e
  <2> QED
    BY <1>1, <2>1 DEF Settles, Has
<1> HIDE DEF q, e, r, d, w
<1> DEFINE All == Of("quiesce") \cup Of("putback") \cup Of("retimer") \cup Drops
<1>6. q \in Seq(All) /\ w \in Seq(All) /\ r \in Seq(All) /\ d \in Seq(All)
  BY <1>1, <1>3, SeqMonotone
<1>7. All = Backing
  BY DEF Backing
<1> HIDE DEF All
<1>8. P1 \in Seq(All) /\ \A A : Has(P1, A) <=> Has(q, A) \/ Has(w, A)
  BY <1>6, Joined, HasJoined
<1>9. \A A : \A x \in A : Settles(q, A, x) \/ Has(w, A) => (Settles(w, A, x) => Settles(P1, A, x))
  BY <1>6, SettlesJoined
<1> HIDE DEF P1
<1>10. P2 \in Seq(All) /\ \A A : Has(P2, A) <=> Has(P1, A) \/ Has(r, A)
  BY <1>6, <1>8, Joined, HasJoined
<1>11. \A A : \A x \in A : Settles(P1, A, x) \/ Has(r, A) => (Settles(r, A, x) => Settles(P2, A, x))
  BY <1>6, <1>8, SettlesJoined
<1> HIDE DEF P2
<1>12. u \in Seq(All) /\ \A A : Has(u, A) <=> Has(P2, A) \/ Has(d, A)
  BY <1>6, <1>10, Joined, HasJoined
<1>13. \A A : \A x \in A : Settles(P2, A, x) \/ Has(d, A) => (Settles(d, A, x) => Settles(u, A, x))
  BY <1>6, <1>10, SettlesJoined
<1> HIDE DEF u
<1>14. Settles(u, Timing, e) /\ Has(u, Timing)
  <2>1. Settles(P2, Timing, e)
    BY <1>1, <1>5, <1>11
  <2>2. Drops \cap Timing = {}
    BY ApartTimers
  <2>3. Settles(d, Timing, e)
    BY <1>3, <2>2, SettlesNone
  <2> QED
    BY <1>1, <1>5, <1>10, <1>12, <1>13, <2>1, <2>3
<1>15. ASSUME NEW f \in Files
       PROVE  Settles(u, PutBacks(f), Redo("putback", f, host.files[f])) /\ Has(u, PutBacks(f))
  <2> DEFINE x == Redo("putback", f, host.files[f])
             A == PutBacks(f)
  <2>1. x \in A /\ Settles(w, A, x) /\ Has(w, A)
    BY <1>4, Targets
  <2>2. Of("retimer") \cap A = {} /\ Drops \cap A = {}
    BY ApartTimers
  <2> HIDE DEF x, A
  <2>3. Settles(r, A, x) /\ Settles(d, A, x)
    BY <1>1, <1>3, <2>2, SettlesNone
  <2>4. Settles(P1, A, x)
    BY <1>9, <2>1
  <2>5. Settles(P2, A, x)
    BY <1>11, <2>1, <2>3, <2>4
  <2>6. Settles(u, A, x)
    BY <1>13, <2>1, <2>3, <2>5
  <2> QED
    BY <1>8, <1>10, <1>12, <2>1, <2>6 DEF x, A
<1> QED
  BY <1>2, <1>7, <1>12, <1>14, <1>15 DEF e

(* A plan that is not refused drops only what was not there. *)
LEMMA HostUndoRecords ==
  ASSUME host \in Hosts, NEW policy \in Policies, Enrolled(host),
         Staging \cap host.ids \in {{}, Staging}
  PROVE  Records(HostUndo(policy), host)
<1> DEFINE u == HostUndo(policy)
<1>1. /\ u \in Seq(Backing)
      /\ \A f \in Files : Settles(u, PutBacks(f), Redo("putback", f, host.files[f]))
      /\ Settles(u, Timing, Redo("retimer", None, Timer(host)))
  BY HostUndoSettles
<1>2. \A id \in Identities : Has(u, {Do("drop", id)}) <=> id \in Missing(policy)
  BY HostUndoShape
<1> HIDE DEF u
<1>3. Backing \cap Of("reselect") = {} /\ \A e \in Entries : Backing \cap Repaths(e) = {}
  BY ApartTimers DEF Backing
<1>4. \A e \in Entries : Settles(u, Repaths(e), Redo("repath", e, host.entries[e]))
  BY <1>1, <1>3, SettlesNone
<1>5. Settles(u, Of("reselect"), Do("reselect", Product(host)))
  BY <1>1, <1>3, SettlesNone
<1>6. ASSUME NEW id \in Identities, Has(u, {Do("drop", id)})
      PROVE  Gone(id) \cap host.ids = {}
  <2>1. id \notin host.ids
    BY <1>2, <1>6 DEF Missing
  <2>2. id = "operators" => "member" \notin host.ids
    BY <2>1 DEF Enrolled
  <2>3. id = "user" => "group" \notin host.ids
    BY <2>1 DEF Staging
  <2> QED
    BY <2>1, <2>2, <2>3 DEF Gone, Removed
<1> QED
  BY <1>1, <1>4, <1>5, <1>6 DEF Records, u

LEMMA DropsNone ==
  ASSUME NEW T, NEW x \in Seq(T), T \cap Drops = {}
  PROVE  \A id \in Identities : ~Has(x, {Do("drop", id)})
<1> TAKE id \in Identities
<1>1. Do("drop", id) \in Drops
  BY StepKinds
<1>2. T \cap {Do("drop", id)} = {}
  BY <1>1
<1> QED
  BY <1>2, HasNone

LEMMA EntryUndoRecords ==
  ASSUME host \in Hosts
  PROVE  /\ Records(EntryUndo, host) /\ EntryUndo \in Seq(Steps)
         /\ \A e \in Entries : Has(EntryUndo, Repaths(e))
<1> DEFINE u == EntryUndo
<1>1. /\ u \in Seq(Of("repath"))
      /\ \A e \in Entries : Has(u, {Redo("repath", e, host.entries[e])})
      /\ \A s : Has(u, {s}) => s.was = host.entries[s.on]
  BY EntryUndoShape
<1> HIDE DEF u
<1>2. /\ \A f \in Files : Of("repath") \cap PutBacks(f) = {}
      /\ Of("repath") \cap Timing = {} /\ Of("repath") \cap Of("reselect") = {} /\ Of("repath") \cap Drops = {}
  BY ApartTimers
<1>3. /\ \A f \in Files : Settles(u, PutBacks(f), Redo("putback", f, host.files[f]))
      /\ Settles(u, Timing, Redo("retimer", None, Timer(host)))
      /\ Settles(u, Of("reselect"), Do("reselect", Product(host)))
  BY <1>1, <1>2, SettlesNone
<1>4. \A id \in Identities : ~Has(u, {Do("drop", id)})
  BY <1>1, <1>2, DropsNone
<1>5. ASSUME NEW e \in Entries
      PROVE  /\ Settles(u, Repaths(e), Redo("repath", e, host.entries[e]))
             /\ Has(u, Repaths(e))
  <2>1. Settles(u, Repaths(e), Redo("repath", e, host.entries[e]))
    <3> SUFFICES ASSUME NEW i \in 1..Len(u), u[i] \in Repaths(e)
                 PROVE  u[i] = Redo("repath", e, host.entries[e])
      <4>1. \A i \in 1..Len(u) : i <= i
        BY <1>1, LenProperties
      <4> QED
        BY <4>1 DEF Settles
    <3>1. Has(u, {u[i]})
      BY DEF Has
    <3>2. u[i].was = host.entries[u[i].on] /\ u[i].on = e
      BY <1>1, <3>1 DEF Repaths
    <3>3. u[i] = Redo("repath", u[i].on, u[i].was)
      BY StepFields DEF Repaths
    <3> QED
      BY <3>2, <3>3
  <2>2. {Redo("repath", e, host.entries[e])} \subseteq Repaths(e)
    BY Targets
  <2>3. Has(u, Repaths(e))
    BY <1>1, <2>2, HasMore
  <2> QED
    BY <2>1, <2>3
<1>6. u \in Seq(Steps)
  BY <1>1, SeqMonotone DEF Of
<1> QED
  BY <1>3, <1>4, <1>5, <1>6 DEF Records, u

LEMMA ReselectRecords ==
  ASSUME NEW h \in Hosts, h.selector # None
  PROVE  /\ Records(Reselect(Product(h)), h) /\ Reselect(Product(h)) \in Seq(Steps)
         /\ Has(Reselect(Product(h)), Of("reselect"))
<1> DEFINE e == Do("reselect", Product(h))
           u == <<e>>
<1>1. e \in Of("reselect") /\ Reselect(Product(h)) = u
  BY Targets DEF Reselect
<1> HIDE DEF e
<1>2. u \in Seq(Of("reselect")) /\ Len(u) = 1 /\ u[1] = e
  BY <1>1
<1> HIDE DEF u
<1>3. /\ \A f \in Files : Of("reselect") \cap PutBacks(f) = {}
      /\ \A x \in Entries : Of("reselect") \cap Repaths(x) = {}
      /\ Of("reselect") \cap Timing = {} /\ Of("reselect") \cap Drops = {}
  BY ApartTimers
<1>4. /\ \A f \in Files : Settles(u, PutBacks(f), Redo("putback", f, h.files[f]))
      /\ \A x \in Entries : Settles(u, Repaths(x), Redo("repath", x, h.entries[x]))
      /\ Settles(u, Timing, Redo("retimer", None, Timer(h)))
  BY <1>2, <1>3, SettlesNone
<1>5. \A id \in Identities : ~Has(u, {Do("drop", id)})
  BY <1>2, <1>3, DropsNone
<1>6. Settles(u, Of("reselect"), e) /\ Has(u, Of("reselect"))
  BY <1>1, <1>2 DEF Settles, Has
<1>7. u \in Seq(Steps)
  BY <1>2, SeqMonotone DEF Of
<1> QED
  BY <1>1, <1>4, <1>5, <1>6, <1>7 DEF Records, e

-----------------------------------------------------------------------------
(* The order of the steps ahead *)

(* Nothing of C before a step of B. *)
LEMMA NotBefore ==
  ASSUME NEW s \in Seq(Steps), NEW B, NEW C, ~Has(s, B) \/ ~Has(s, C)
  PROVE  Before(s, Steps \ C, B)
<1>1. \A i \in 1..Len(s) : s[i] \in Steps
  BY ElementOfSeq
<1> QED
  BY <1>1 DEF Before, Has

LEMMA NotBeforeJoined ==
  ASSUME NEW s \in Seq(Steps), NEW t \in Seq(Steps), NEW B, NEW C,
         Before(s, Steps \ C, B), Before(t, Steps \ C, B), Has(t, B) => ~Has(s, C)
  PROVE  Before(s \o t, Steps \ C, B)
<1>1. Has(t, B) => \A i \in 1..Len(s) : s[i] \in Steps \ C
  BY ElementOfSeq DEF Has
<1> QED
  BY <1>1, BeforeJoined

LEMMA SequenceTail ==
  ASSUME NEW op, NEW t \in Seq(Steps), t # <<>>, Sequence(op, t)
  PROVE  /\ Sequence(op, Tail(t))
         /\ Has(Tail(t), Choosing) => Head(t) \notin Selecting
         /\ Has(Tail(t), {Do("create", "operators")}) => Head(t) # Do("create", "member")
         /\ Head(t) # Do("release", "legacy-import")
         /\ op \in Installing /\ Has(Tail(t), Steps \ Closing) =>
              Head(t) \notin Closing /\ Head(t) # Do("plan", "full")
         /\ op \notin Installing => Head(t) \notin Of("initialize") /\ Head(t) # Do("health", "last")
<1>1. /\ Before(Tail(t), Steps \ Selecting, Choosing)
      /\ Has(Tail(t), Choosing) => Head(t) \in Steps \ Selecting
  BY BeforeTail DEF Sequence
<1>2. /\ Before(Tail(t), Steps \ {Do("create", "member")}, {Do("create", "operators")})
      /\ Has(Tail(t), {Do("create", "operators")}) => Head(t) \in Steps \ {Do("create", "member")}
  BY BeforeTail DEF Sequence
<1>3. op \in Installing =>
      /\ Before(Tail(t), Steps \ (Closing \cup {Do("plan", "full")}), Steps \ Closing)
      /\ Has(Tail(t), Steps \ Closing) => Head(t) \in Steps \ (Closing \cup {Do("plan", "full")})
  BY BeforeTail DEF Sequence
<1>4. \A A : ~Has(t, A) => Head(t) \notin A /\ ~Has(Tail(t), A)
  BY HasTail
<1> QED
  BY <1>1, <1>2, <1>3, <1>4 DEF Sequence

LEMMA SequenceJoined ==
  ASSUME NEW op, NEW s \in Seq(Steps), NEW t \in Seq(Steps), Sequence(op, s), Sequence(op, t),
         Has(t, Choosing) => ~Has(s, Selecting),
         Has(t, {Do("create", "operators")}) => ~Has(s, {Do("create", "member")}),
         op \in Installing /\ Has(t, Steps \ Closing) => ~Has(s, Closing \cup {Do("plan", "full")})
  PROVE  Sequence(op, s \o t)
<1>1. Before(s \o t, Steps \ Selecting, Choosing)
  BY NotBeforeJoined DEF Sequence
<1>2. Before(s \o t, Steps \ {Do("create", "member")}, {Do("create", "operators")})
  BY NotBeforeJoined DEF Sequence
<1>3. op \in Installing =>
        Before(s \o t, Steps \ (Closing \cup {Do("plan", "full")}), Steps \ Closing)
  BY NotBeforeJoined DEF Sequence
<1>4. \A A : ~Has(s, A) /\ ~Has(t, A) => ~Has(s \o t, A)
  BY HasJoined
<1> QED
  BY <1>1, <1>2, <1>3, <1>4 DEF Sequence

(* Steps that no order is about. *)
Free == {s \in Steps : s.do \notin {"create", "release", "initialize", "health", "plan"}}

LEMMA FreeSequence ==
  ASSUME NEW op, NEW s \in Seq(Free), ~Has(s, Choosing) \/ ~Has(s, Selecting)
  PROVE  /\ Sequence(op, s) /\ s \in Seq(Steps)
         /\ ~Has(s, {Do("create", "member")}) /\ ~Has(s, Closing \cup {Do("plan", "full")})
<1>1. s \in Seq(Steps)
  BY SeqMonotone DEF Free
<1>2. \A what, on : Do(what, on).do = what
  BY DEF Do
<1>3. /\ Free \cap {Do("create", "operators")} = {} /\ Free \cap {Do("create", "member")} = {}
      /\ Free \cap {Do("release", "legacy-import")} = {} /\ Free \cap (Closing \cup {Do("plan", "full")}) = {}
      /\ Free \cap (Of("initialize") \cup {Do("health", "last")}) = {}
  BY <1>2 DEF Free, Closing, Of
<1>4. /\ ~Has(s, {Do("create", "operators")}) /\ ~Has(s, {Do("create", "member")})
      /\ ~Has(s, {Do("release", "legacy-import")}) /\ ~Has(s, Closing \cup {Do("plan", "full")})
      /\ ~Has(s, Of("initialize") \cup {Do("health", "last")})
  BY <1>3, HasNone
<1> QED
  BY <1>1, <1>4, NotBefore DEF Sequence

LEMMA SequenceOne ==
  ASSUME NEW op, NEW e \in Steps, e # Do("release", "legacy-import"),
         op \notin Installing => e \notin Of("initialize") /\ e # Do("health", "last")
  PROVE  Sequence(op, <<e>>) /\ <<e>> \in Seq(Steps) /\ \A A : Has(<<e>>, A) <=> e \in A
<1> DEFINE s == <<e>>
<1>1. Len(s) = 1 /\ \A A : Has(s, A) <=> e \in A
  BY HasOne
<1> HIDE DEF s
<1>2. \A A, B : Before(s, A, B)
  BY <1>1 DEF Before
<1>3. Sequence(op, s)
  BY <1>1, <1>2 DEF Sequence
<1> QED
  BY <1>1, <1>3 DEF s

LEMMA EmptySequence == \A op : Sequence(op, <<>>)
  BY EmptyHas DEF Sequence

(* The steps of a configuration. *)
LEMMA ConfigurationSequence ==
  ASSUME NEW op, NEW policy \in Policies
  PROVE  /\ Sequence(op, Configuration(policy)) /\ Configuration(policy) \in Seq(Steps)
         /\ ~Has(Configuration(policy), Selecting) /\ ~Has(Configuration(policy), Choosing)
         /\ ~Has(Configuration(policy), Closing \cup {Do("plan", "full")})
<1> DEFINE m == Missing(policy)
           o1 == One("create", "group", m)
           o2 == One("create", "user", m)
           o3 == One("create", "operators", m)
           o4 == One("create", "member", m)
           w == [i \in 1..6 |-> Do("file", FileOrder[i])]
           f == <<Do("verify", None), Do("enable", None), Do("start", None)>>
           B == {Do("create", "operators")}
           C == {Do("create", "member")}
           c2 == o1 \o o2
           c3 == c2 \o o3
           c4 == c3 \o o4
           c5 == c4 \o w
           c == c5 \o f
           All == Creates \cup Writes \cup Finals
<1>1. c = Configuration(policy)
  BY DEF Configuration
<1>2. \A what, a, x, y : Do(what, a) = Do(x, y) <=> what = x /\ a = y
  BY DEF Do
<1>3. /\ o1 \in Seq(Steps) /\ o2 \in Seq(Steps) /\ o3 \in Seq(Steps) /\ o4 \in Seq(Steps)
  <2>1. Creates \subseteq Steps
    BY DEF Creates, Of
  <2> QED
    BY <2>1, OneTyped, StepKinds DEF Identities
<1>4. ~Has(o1, C) /\ ~Has(o2, C) /\ ~Has(o3, C) /\ ~Has(o4, B)
  BY <1>2, OneHas
<1>5. w \in Seq(Writes) /\ f \in Seq(Finals)
  <2>1. \A i \in 1..6 : Do("file", FileOrder[i]) \in Writes
    <3>1. \A i \in 1..6 : FileOrder[i] \in Files
      BY DEF FileOrder, Files
    <3> QED
      BY <3>1, StepKinds
  <2>2. Do("verify", None) \in Finals /\ Do("enable", None) \in Finals /\ Do("start", None) \in Finals
    BY StepKinds DEF Finals
  <2> QED
    BY <2>1, <2>2, SeqDef
<1>6. w \in Seq(Steps) /\ f \in Seq(Steps) /\ ~Has(w, B) /\ ~Has(f, B)
  <2>1. \A e \in Writes \cup Finals : e \in Steps /\ e.do # "create"
    BY DEF Writes, Finals, Of
  <2>2. Writes \cap B = {} /\ Finals \cap B = {}
    BY <2>1 DEF Do
  <2>3. Writes \subseteq Steps /\ Finals \subseteq Steps
    BY <2>1
  <2> HIDE DEF w, f, B
  <2> QED
    BY <1>5, <2>2, <2>3, HasNone, SeqMonotone
<1> HIDE DEF o1, o2, o3, o4, w, f, B, C
<1>7. c2 \in Seq(Steps) /\ ~Has(c2, C)
  BY <1>3, <1>4, Joined, HasJoined
<1> HIDE DEF c2
<1>8. c3 \in Seq(Steps) /\ ~Has(c3, C)
  BY <1>3, <1>4, <1>7, Joined, HasJoined
<1> HIDE DEF c3
<1>9. c4 \in Seq(Steps) /\ Before(c4, Steps \ C, B)
  <2>1. Before(c3, Steps \ C, B) /\ Before(o4, Steps \ C, B)
    BY <1>3, <1>4, <1>8, NotBefore
  <2> QED
    BY <1>3, <1>4, <1>8, <2>1, NotBeforeJoined, Joined
<1> HIDE DEF c4
<1>10. c5 \in Seq(Steps) /\ Before(c5, Steps \ C, B)
  <2>1. Before(w, Steps \ C, B)
    BY <1>6, NotBefore
  <2> QED
    BY <1>6, <1>9, <2>1, NotBeforeJoined, Joined
<1> HIDE DEF c5
<1>11. c \in Seq(Steps) /\ Before(c, Steps \ C, B)
  <2>1. Before(f, Steps \ C, B)
    BY <1>6, NotBefore
  <2> QED
    BY <1>6, <1>10, <2>1, NotBeforeJoined, Joined
<1> HIDE DEF c
<1>12. c \in Seq(All)
  BY <1>1, ConfigurationShape
<1>13. /\ All \cap Selecting = {} /\ All \cap Choosing = {} /\ All \cap (Closing \cup {Do("plan", "full")}) = {}
       /\ All \cap (Of("initialize") \cup {Do("health", "last")}) = {}
       /\ All \cap {Do("release", "legacy-import")} = {}
  <2>1. \A what, on : Do(what, on).do = what
    BY DEF Do
  <2> QED
    BY <2>1 DEF Creates, Writes, Finals, Selecting, Choosing, Closing, Of
<1> HIDE DEF All
<1>14. /\ ~Has(c, Selecting) /\ ~Has(c, Choosing) /\ ~Has(c, Closing \cup {Do("plan", "full")})
       /\ ~Has(c, Of("initialize") \cup {Do("health", "last")}) /\ ~Has(c, {Do("release", "legacy-import")})
  BY <1>12, <1>13, HasNone
<1>15. /\ Before(c, Steps \ Selecting, Choosing)
       /\ Before(c, Steps \ (Closing \cup {Do("plan", "full")}), Steps \ Closing)
  BY <1>11, <1>14, NotBefore
<1>16. Sequence(op, c)
  BY <1>11, <1>14, <1>15 DEF Sequence, B, C
<1> QED
  BY <1>1, <1>11, <1>14, <1>16

-----------------------------------------------------------------------------
(* The programs and what they start from *)

(* What programs are made of before a check adds steps to them. *)
Fresh == {s \in Steps : s.do \in {"plan", "build", "snapshot", "select", "release", "initialize", "health"}}

LEMMA FreshHas ==
  ASSUME NEW s \in Seq(Fresh)
  PROVE  /\ s \in Seq(Steps)
         /\ \A x : ~Has(s, {Do("create", x)}) /\ ~Has(s, {Do("file", x)}) /\ ~Has(s, {Do("entry", x)})
         /\ ~Has(s, Of("enable") \cup Of("start")) /\ ~Has(s, {Do("publish", "legacy-import")})
<1>1. \A what, on : Do(what, on).do = what
  BY DEF Do
<1>2. /\ \A x : /\ Fresh \cap {Do("create", x)} = {} /\ Fresh \cap {Do("file", x)} = {}
                /\ Fresh \cap {Do("entry", x)} = {}
      /\ Fresh \cap (Of("enable") \cup Of("start")) = {} /\ Fresh \cap {Do("publish", "legacy-import")} = {}
  BY <1>1 DEF Fresh, Of
<1>3. s \in Seq(Steps)
  BY SeqMonotone DEF Fresh
<1> QED
  BY <1>2, <1>3, HasNone

LEMMA FreshJoined ==
  ASSUME NEW op, NEW s \in Seq(Fresh), NEW t \in Seq(Fresh), Sequence(op, s), Sequence(op, t),
         Has(t, Choosing) => ~Has(s, Selecting),
         op \in Installing /\ Has(t, Steps \ Closing) => ~Has(s, Closing \cup {Do("plan", "full")})
  PROVE  /\ s \o t \in Seq(Fresh) /\ Sequence(op, s \o t)
         /\ \A A : Has(s \o t, A) <=> Has(s, A) \/ Has(t, A)
<1>1. s \in Seq(Steps) /\ t \in Seq(Steps) /\ ~Has(t, {Do("create", "operators")})
  BY FreshHas
<1> QED
  BY <1>1, SequenceJoined, Joined, HasJoined

LEMMA FreshOne ==
  ASSUME NEW op, NEW e \in Fresh, e # Do("release", "legacy-import"),
         op \notin Installing => e.do # "initialize" /\ e # Do("health", "last")
  PROVE  <<e>> \in Seq(Fresh) /\ Sequence(op, <<e>>) /\ \A A : Has(<<e>>, A) <=> e \in A
<1>1. e \notin Of("initialize") \/ op \in Installing
  BY DEF Fresh, Of
<1>2. e \in Steps
  BY DEF Fresh
<1> QED
  BY <1>1, <1>2, SequenceOne

LEMMA FreshSteps ==
  /\ \A policy \in Policies : Do("plan", policy) \in Fresh
  /\ \A what \in {"build", "snapshot", "select", "initialize"} : Do(what, None) \in Fresh
  /\ \A v \in Versions : Do("release", v) \in Fresh
  /\ Do("health", "last") \in Fresh /\ Do("health", "trial") \in Fresh
  /\ \A what, a, x, y : (Do(what, a) = Do(x, y) <=> what = x /\ a = y) /\ Do(what, a).do = what
  BY StepKinds DEF Fresh, Of, Do

LEMMA DeploymentFresh ==
  ASSUME NEW op, NEW v \in Versions, v # "legacy-import"
  PROVE  LET d == Deployment(v) IN
           /\ d \in Seq(Fresh) /\ Sequence(op, d) /\ Has(d, Choosing) /\ ~Has(d, Closing \cup {Do("plan", "full")})
<1> DEFINE a == Do("build", None)
           b == Do("snapshot", None)
           c == Do("select", None)
           e == Do("release", v)
           d == <<a, b, c, e>>
<1>1. /\ {a, b, c, e} \subseteq Fresh /\ a.do = "build" /\ b.do = "snapshot" /\ c.do = "select" /\ e.do = "release"
      /\ e # Do("release", "legacy-import")
  BY FreshSteps
<1>2. Deployment(v) = d
  BY DEF Deployment
<1>3. \A what, on : Do(what, on).do = what
  BY DEF Do
<1> HIDE DEF a, b, c, e
<1>4. /\ {a, b, c} \cap Selecting = {} /\ e \notin Choosing /\ c \in Choosing /\ {a, b, c, e} \subseteq Steps
      /\ {a, b, c, e} \cap (Closing \cup {Do("plan", "full")}) = {}
      /\ {a, b, c, e} \cap {Do("release", "legacy-import")} = {}
      /\ {a, b, c, e} \cap (Of("initialize") \cup {Do("health", "last")}) = {}
      /\ {a, b, c, e} \cap {Do("create", "operators")} = {}
  BY <1>1, <1>3 DEF Fresh, Of, Selecting, Choosing, Closing
<1>5. d \in Seq({a, b, c, e}) /\ Len(d) = 4 /\ d[1] = a /\ d[2] = b /\ d[3] = c /\ d[4] = e
  OBVIOUS
<1> HIDE DEF d
<1>6. d \in Seq(Fresh) /\ d \in Seq(Steps)
  BY <1>1, <1>4, <1>5, SeqMonotone
<1>7. /\ ~Has(d, Closing \cup {Do("plan", "full")}) /\ ~Has(d, {Do("release", "legacy-import")})
      /\ ~Has(d, Of("initialize") \cup {Do("health", "last")}) /\ ~Has(d, {Do("create", "operators")})
  BY <1>4, <1>5, HasNone
<1>8. Before(d, Steps \ Selecting, Choosing)
  <2> SUFFICES ASSUME NEW i \in 1..4, NEW j \in 1..4, i < j, d[j] \in Choosing
               PROVE  d[i] \in Steps \ Selecting
    BY <1>5 DEF Before
  <2>1. j # 4
    BY <1>4, <1>5
  <2>2. i \in {1, 2, 3}
    BY <2>1
  <2> QED
    BY <1>4, <1>5, <2>2
<1>9. /\ Before(d, Steps \ {Do("create", "member")}, {Do("create", "operators")})
      /\ Before(d, Steps \ (Closing \cup {Do("plan", "full")}), Steps \ Closing)
  BY <1>6, <1>7, NotBefore
<1>10. Has(d, Choosing)
  BY <1>4, <1>5 DEF Has
<1> QED
  BY <1>2, <1>6, <1>7, <1>8, <1>9, <1>10 DEF Sequence

(* A program at its beginning. *)
Starts(op, t) ==
  /\ t \in Seq(Fresh) /\ Sequence(op, t) /\ (Has(t, Selecting) => Has(t, Choosing))
  /\ op \in Installing => Has(t, {Do("plan", "bootstrap")})

LEMMA InstallStarts ==
  ASSUME NEW op \in Installing, NEW version \in Offered
  PROVE  Starts(op, Program(op, version))
<1> DEFINE p == <<Do("plan", "bootstrap")>>
           d == Deployment(version)
           a == Do("plan", "full")
           b == Do("initialize", None)
           c == Do("health", "last")
           f == <<a, b, c>>
           pd == p \o d
           t == pd \o f
<1>0. /\ "bootstrap" \in Policies /\ "full" \in Policies /\ version \in Versions /\ version # "legacy-import"
      /\ Program(op, version) = t
  <2>1. version \in Versions /\ version # "legacy-import"
    BY DistinctReleases DEF Offered, Versions
  <2>2. Program(op, version) = t
    BY DEF Program, Installing
  <2> QED
    BY <2>1, <2>2 DEF Policies
<1>1. p \in Seq(Fresh) /\ Sequence(op, p) /\ \A A : Has(p, A) <=> Do("plan", "bootstrap") \in A
  <2> DEFINE e == Do("plan", "bootstrap")
  <2>1. e \in Fresh /\ e # Do("release", "legacy-import")
    BY <1>0, FreshSteps
  <2> HIDE DEF e
  <2>2. /\ <<e>> \in Seq(Fresh) /\ Sequence(op, <<e>>)
        /\ \A A : Has(<<e>>, A) <=> e \in A
    BY <2>1, FreshOne
  <2> QED
    BY <2>2 DEF e
<1>2. ~Has(p, Closing \cup {Do("plan", "full")}) /\ ~Has(p, Selecting)
  BY <1>1, FreshSteps DEF Closing, Selecting, Of
<1>3. /\ d \in Seq(Fresh) /\ Sequence(op, d) /\ Has(d, Choosing) /\ ~Has(d, Closing \cup {Do("plan", "full")})
  BY <1>0, DeploymentFresh
<1>4. f \in Seq(Fresh) /\ Sequence(op, f) /\ ~Has(f, Choosing)
  <2>1. {a, b, c} \subseteq Fresh /\ b \in Closing /\ c \in Closing /\ a.do = "plan" /\ b.do = "initialize" /\ c.do = "health"
    BY <1>0, FreshSteps, StepKinds DEF Closing
  <2>2. \A what, on : Do(what, on).do = what
    BY DEF Do
  <2> HIDE DEF a, b, c
  <2>3. f \in Seq({a, b, c}) /\ Len(f) = 3 /\ f[1] = a /\ f[2] = b /\ f[3] = c
    OBVIOUS
  <2> HIDE DEF f
  <2>4. f \in Seq(Fresh) /\ f \in Seq(Steps)
    <3>1. {a, b, c} \subseteq Steps
      BY <2>1 DEF Fresh
    <3> QED
      BY <2>1, <2>3, <3>1, SeqMonotone
  <2>5. /\ {a, b, c} \cap Choosing = {} /\ {a, b, c} \cap {Do("create", "operators")} = {}
        /\ {a, b, c} \cap {Do("release", "legacy-import")} = {}
    BY <2>1, <2>2 DEF Choosing, Of
  <2>6. ~Has(f, Choosing) /\ ~Has(f, {Do("create", "operators")}) /\ ~Has(f, {Do("release", "legacy-import")})
    BY <2>3, <2>5, HasNone
  <2>7. Before(f, Steps \ (Closing \cup {Do("plan", "full")}), Steps \ Closing)
    <3> SUFFICES ASSUME NEW i \in 1..3, NEW j \in 1..3, i < j, f[j] \in Steps \ Closing
                 PROVE  FALSE
      BY <2>3 DEF Before
    <3>1. j = 2 \/ j = 3
      OBVIOUS
    <3> QED
      BY <2>1, <2>3, <3>1
  <2> QED
    BY <2>4, <2>6, <2>7, NotBefore DEF Sequence
<1> HIDE DEF p, d, f
<1>5. /\ pd \in Seq(Fresh) /\ Sequence(op, pd) /\ \A A : Has(pd, A) <=> Has(p, A) \/ Has(d, A)
  BY <1>1, <1>2, <1>3, FreshJoined
<1> HIDE DEF pd
<1>6. /\ t \in Seq(Fresh) /\ Sequence(op, t) /\ \A A : Has(t, A) <=> Has(pd, A) \/ Has(f, A)
  <2>1. ~Has(pd, Closing \cup {Do("plan", "full")})
    BY <1>2, <1>3, <1>5
  <2> QED
    BY <1>4, <1>5, <2>1, FreshJoined
<1> HIDE DEF t
<1> QED
  BY <1>0, <1>1, <1>3, <1>5, <1>6 DEF Starts

LEMMA UpgradeStarts ==
  ASSUME NEW op, op = "upgrade", NEW version \in Offered
  PROVE  Starts(op, Program(op, version))
<1> DEFINE p == <<Do("plan", "bootstrap")>>
           b == IF host.files["settings"] = None THEN p ELSE <<>>
           r == <<Do("plan", Resolved(op))>>
           d == Deployment(version)
           f == <<Do("health", "trial")>>
           br == b \o r
           brd == br \o d
           t == brd \o f
<1>0. /\ "bootstrap" \in Policies /\ Resolved(op) \in Policies /\ version \in Versions /\ version # "legacy-import"
      /\ op \notin Installing /\ Program(op, version) = t
  <2>1. Program(op, version) = t
    BY DEF Program
  <2> QED
    BY <2>1, ResolvedTyped, DistinctReleases DEF Policies, Offered, Versions, Installing
<1>1. /\ p \in Seq(Fresh) /\ Sequence(op, p) /\ r \in Seq(Fresh) /\ Sequence(op, r)
      /\ f \in Seq(Fresh) /\ Sequence(op, f)
      /\ ~Has(p, Selecting) /\ ~Has(r, Selecting) /\ ~Has(r, Choosing) /\ ~Has(f, Choosing)
  <2>1. /\ \A A : Has(p, A) <=> Do("plan", "bootstrap") \in A
        /\ \A A : Has(r, A) <=> Do("plan", Resolved(op)) \in A
        /\ \A A : Has(f, A) <=> Do("health", "trial") \in A
        /\ p \in Seq(Fresh) /\ Sequence(op, p) /\ r \in Seq(Fresh) /\ Sequence(op, r)
        /\ f \in Seq(Fresh) /\ Sequence(op, f)
    <3>1. ASSUME NEW e \in {Do("plan", "bootstrap"), Do("plan", Resolved(op)), Do("health", "trial")}
          PROVE  <<e>> \in Seq(Fresh) /\ Sequence(op, <<e>>) /\ \A A : Has(<<e>>, A) <=> e \in A
      <4>1. /\ e \in Fresh /\ e # Do("release", "legacy-import") /\ e.do # "initialize"
            /\ e # Do("health", "last")
        BY <1>0, FreshSteps
      <4> QED
        BY <4>1, FreshOne
    <3> QED
      BY <3>1
  <2>2. \A what, on : Do(what, on).do = what
    BY DEF Do
  <2> QED
    BY <2>1, <2>2 DEF Selecting, Choosing, Of
<1>2. d \in Seq(Fresh) /\ Sequence(op, d) /\ Has(d, Choosing)
  BY <1>0, DeploymentFresh
<1> HIDE DEF p, d, f, r
<1>3. b \in Seq(Fresh) /\ Sequence(op, b) /\ ~Has(b, Selecting)
  BY <1>1, EmptyTyped, EmptySequence, EmptyHas
<1> HIDE DEF b
<1>4. br \in Seq(Fresh) /\ Sequence(op, br) /\ ~Has(br, Selecting)
  BY <1>0, <1>1, <1>3, FreshJoined
<1> HIDE DEF br
<1>5. brd \in Seq(Fresh) /\ Sequence(op, brd) /\ Has(brd, Choosing)
  BY <1>0, <1>2, <1>4, FreshJoined
<1> HIDE DEF brd
<1>6. t \in Seq(Fresh) /\ Sequence(op, t) /\ Has(t, Choosing)
  BY <1>0, <1>1, <1>5, FreshJoined
<1> HIDE DEF t
<1> QED
  BY <1>0, <1>6 DEF Starts

LEMMA UpdateStarts ==
  ASSUME NEW op, op = "update", NEW version \in Offered
  PROVE  Starts(op, Program(op, version))
<1> DEFINE a == Do("select", None)
           b == Do("release", version)
           c == Do("health", "trial")
           t == <<a, b, c>>
<1>0. version \in Versions /\ version # "legacy-import" /\ op \notin Installing /\ Program(op, version) = t
  <2>1. Program(op, version) = t
    BY DEF Program
  <2> QED
    BY <2>1, DistinctReleases DEF Offered, Versions, Installing
<1>1. /\ {a, b, c} \subseteq Fresh /\ a.do = "select" /\ b.do = "release" /\ c.do = "health"
      /\ b # Do("release", "legacy-import") /\ c # Do("health", "last")
  BY <1>0, FreshSteps
<1>2. \A what, on : Do(what, on).do = what
  BY DEF Do
<1> HIDE DEF a, b, c
<1>3. /\ {a, b, c} \subseteq Steps /\ a \notin Selecting /\ a \in Choosing /\ b \notin Choosing /\ c \notin Choosing
      /\ {a, b, c} \cap {Do("release", "legacy-import")} = {}
      /\ {a, b, c} \cap (Of("initialize") \cup {Do("health", "last")}) = {}
      /\ {a, b, c} \cap {Do("create", "operators")} = {}
  BY <1>1, <1>2 DEF Fresh, Of, Selecting, Choosing
<1>4. t \in Seq({a, b, c}) /\ Len(t) = 3 /\ t[1] = a /\ t[2] = b /\ t[3] = c
  OBVIOUS
<1> HIDE DEF t
<1>5. t \in Seq(Fresh) /\ t \in Seq(Steps)
  BY <1>1, <1>3, <1>4, SeqMonotone
<1>6. /\ ~Has(t, {Do("release", "legacy-import")})
      /\ ~Has(t, Of("initialize") \cup {Do("health", "last")}) /\ ~Has(t, {Do("create", "operators")})
  BY <1>3, <1>4, HasNone
<1>7. Before(t, Steps \ Selecting, Choosing)
  <2> SUFFICES ASSUME NEW i \in 1..3, NEW j \in 1..3, i < j, t[j] \in Choosing PROVE FALSE
    BY <1>4 DEF Before
  <2>1. j = 2 \/ j = 3
    OBVIOUS
  <2> QED
    BY <1>3, <1>4, <2>1
<1>8. Before(t, Steps \ {Do("create", "member")}, {Do("create", "operators")})
  BY <1>5, <1>6, NotBefore
<1>9. Has(t, Choosing)
  BY <1>3, <1>4 DEF Has
<1>10. Sequence(op, t)
  BY <1>0, <1>6, <1>7, <1>8 DEF Sequence
<1> HIDE DEF t
<1> QED
  BY <1>0, <1>5, <1>9, <1>10 DEF Starts

LEMMA ProgramStarts ==
  ASSUME NEW op \in Operations, NEW version \in Offered
  PROVE  Starts(op, Program(op, version))
<1>1. CASE op = "configure"
  <2> DEFINE e == Do("plan", Resolved(op))
  <2>1. e \in Fresh /\ e.do = "plan" /\ op \notin Installing /\ Program(op, version) = <<e>>
    BY <1>1, ResolvedTyped, FreshSteps DEF Program, Installing
  <2>2. \A what, on : Do(what, on).do = what
    BY DEF Do
  <2> HIDE DEF e
  <2>3. <<e>> \in Seq(Fresh) /\ Sequence(op, <<e>>) /\ \A A : Has(<<e>>, A) <=> e \in A
    BY <2>1, <2>2, FreshOne
  <2> QED
    BY <2>1, <2>3 DEF Starts, Selecting, Of
<1> QED
  BY <1>1, InstallStarts, UpgradeStarts, UpdateStarts DEF Operations, Installing

(* A command begins with the host it has to go back to. *)
LEMMA StartedRestorable ==
  ASSUME host \in Hosts, NEW op \in Operations, NEW flag, NEW version \in Offered
  PROVE  LET r == Started(op, flag, version) IN
           /\ r.op = op /\ r.failing = "no" /\ Sequence(op, r.todo) /\ Restorable(r, host, host)
           /\ op \in Installing => Has(r.todo, {Do("plan", "bootstrap")})
<1> DEFINE r == Started(op, flag, version)
           t == Program(op, version)
<1>1. r.op = op /\ r.todo = t /\ r.undo = <<>> /\ r.failing = "no" /\ r.before = host
  BY DEF Started
<1>2. Starts(op, t)
  BY ProgramStarts
<1> HIDE DEF r, t
<1>3. /\ \A x : ~Has(t, {Do("file", x)}) /\ ~Has(t, {Do("entry", x)})
      /\ ~Has(t, Of("enable") \cup Of("start")) /\ ~Has(t, {Do("publish", "legacy-import")})
  BY <1>2, FreshHas DEF Starts
<1>4. Covers(r, host, host)
  BY <1>1, <1>2, <1>3 DEF Covers, Starts
<1>5. Restores(Back(r), host, host)
  BY <1>1, RestoresItself DEF Back
<1>6. Restorable(r, host, host)
  BY <1>1, <1>4, <1>5 DEF Restorable, Based
<1> QED
  BY <1>1, <1>2, <1>6 DEF Starts, r

-----------------------------------------------------------------------------
(* Checks and steps that go well *)

(* One process goes on. *)
Advanced(p) ==
  \E q : /\ run' = [run EXCEPT ![p] = q] /\ q.alone = run[p].alone /\ Orderly(q)
         /\ Recovers(run[p], host) => Recovers(q, host')

LEMMA ContinueAll ==
  ASSUME Inv, NEW p \in Processes, NEW s, NEW b, Continue(p, s, b)
  PROVE  \E q : /\ run' = [run EXCEPT ![p] = q] /\ q.todo = s \o Tail(run[p].todo) /\ q.undo = b
                /\ q.op = run[p].op /\ q.policy = run[p].policy /\ q.failing = run[p].failing
                /\ q.before = run[p].before /\ q.alone = run[p].alone
<1> DEFINE t == s \o Tail(run[p].todo)
           q == [run[p] EXCEPT !.todo = t, !.undo = b]
<1>1. run \in [Processes -> Runs] /\ run[p] \in Runs
  BY DEF Inv, TypeOK
<1>2. run' = [run EXCEPT ![p] = q]
  BY <1>1 DEF Continue
<1> HIDE DEF t
<1>3. /\ q.todo = t /\ q.undo = b
      /\ q.op = run[p].op /\ q.policy = run[p].policy /\ q.failing = run[p].failing
      /\ q.before = run[p].before /\ q.alone = run[p].alone
  BY <1>1 DEF Runs
<1> HIDE DEF q
<1> QED
  BY <1>2, <1>3 DEF t

(* A process on its way. *)
LEMMA Underway ==
  ASSUME Inv, OrderInv, NEW p \in Processes, run[p].todo # <<>>, run[p].failing = "no"
  PROVE  /\ run[p].todo \in Seq(Steps) /\ Head(run[p].todo) \in Steps /\ Tail(run[p].todo) \in Seq(Steps)
         /\ run[p].undo \in Seq(Steps) /\ run[p] \in Runs /\ host \in Hosts
         /\ \A A : Has(run[p].todo, A) <=> Head(run[p].todo) \in A \/ Has(Tail(run[p].todo), A)
         /\ Sequence(run[p].op, run[p].todo)
         /\ run[p].op \in Installing /\ run[p].policy = None => Has(run[p].todo, {Do("plan", "bootstrap")})
<1>1. run[p].todo \in Seq(Steps) /\ run[p].undo \in Seq(Steps) /\ run[p] \in Runs
  BY Ahead, StepSets, SeqMonotone DEF Backward
<1>2. \A A : Has(run[p].todo, A) <=> Head(run[p].todo) \in A \/ Has(Tail(run[p].todo), A)
  BY <1>1, HasTail
<1> QED
  BY <1>1, <1>2, HeadTailProperties DEF OrderInv, Orderly, Inv, TypeOK

(* Steps are added ahead, and what takes them back. *)
LEMMA ScheduleRestorable ==
  ASSUME host \in Hosts, NEW r, NEW q, NEW s \in Seq(Steps), NEW x \in Seq(Steps), NEW b \in Hosts,
         r.todo \in Seq(Steps), r.todo # <<>>, r.undo \in Seq(Steps),
         q.todo = s \o Tail(r.todo), q.undo = x \o r.undo,
         q.op = r.op, q.before = r.before, q.failing = "no", r.failing = "no",
         Restorable(r, host, b), Records(x, host),
         \A f \in Files : Has(s, {Do("file", f)}) => Has(x, PutBacks(f)),
         Has(s, Of("enable") \cup Of("start")) => Has(x, Timing),
         \A e \in Entries : Has(s, {Do("entry", e)}) => Has(x, Repaths(e)),
         Has(s, {Do("publish", "legacy-import")}) => host.selector = "plain",
         b.selector # None /\ (Has(s, Selecting) \/ Has(Tail(r.todo), Selecting)) =>
           \/ Has(x, Of("reselect")) \/ Has(r.undo, Of("reselect"))
           \/ Has(s, Choosing) \/ Has(Tail(r.todo), Choosing)
  PROVE  Restorable(q, host, b)
<1>1. Tail(r.todo) \in Seq(Steps) /\ \A A : Has(r.todo, A) <=> Head(r.todo) \in A \/ Has(Tail(r.todo), A)
  BY HasTail, HeadTailProperties
<1>2. \A A : /\ Has(q.todo, A) <=> Has(s, A) \/ Has(Tail(r.todo), A)
             /\ Has(q.undo, A) <=> Has(x, A) \/ Has(r.undo, A)
  <2>1. \A A : /\ Has(s \o Tail(r.todo), A) <=> Has(s, A) \/ Has(Tail(r.todo), A)
               /\ Has(x \o r.undo, A) <=> Has(x, A) \/ Has(r.undo, A)
    BY <1>1, HasJoined
  <2> QED
    BY <2>1
<1>3. Restores(q.undo, host, b)
  BY RestoresJoined DEF Restorable, Back
<1>4. Covers(q, host, b)
  BY <1>1, <1>2 DEF Restorable, Covers
<1> QED
  BY <1>3, <1>4 DEF Restorable, Based, Back

LEMMA EmptyRecords == \A h : Records(<<>>, h)
  BY EmptyHas DEF Records, Settles

(* The product to go back to is recorded, or it is still the one selected. *)
LEMMA ProductKnown ==
  ASSUME NEW s, NEW h, NEW b \in Hosts, Restores(s, h, b), b.selector # None, h.selector = None
  PROVE  Has(s, Of("reselect"))
<1>1. Has(s, Of("reselect")) \/ Product(h) = Product(b)
  BY DEF Restores, Mended
<1>2. Product(b) \in Versions
  BY Targets
<1> QED
  BY <1>1, <1>2, NoneAssumption DEF Product

LEMMA SnapshotAdvanced ==
  ASSUME Inv, OrderInv, NEW p \in Processes, Snapshot(p)
  PROVE  Advanced(p)
<1> DEFINE r == run[p]
           s == EntrySteps
           x == EntryUndo
           u == x \o r.undo
<1>1. /\ host' = host /\ r.failing = "no" /\ r.todo # <<>> /\ Head(r.todo).do = "snapshot"
      /\ Continue(p, s, u)
  BY DEF Snapshot, Ready, At, Now, EntrySteps
<1>2. /\ r.todo \in Seq(Steps) /\ Tail(r.todo) \in Seq(Steps) /\ r.undo \in Seq(Steps) /\ host \in Hosts
      /\ \A A : Has(r.todo, A) <=> Head(r.todo) \in A \/ Has(Tail(r.todo), A)
      /\ Sequence(r.op, r.todo)
      /\ r.op \in Installing /\ r.policy = None => Has(r.todo, {Do("plan", "bootstrap")})
  BY <1>1, Underway
<1> HIDE DEF x, s, u
<1>3. PICK q : /\ run' = [run EXCEPT ![p] = q] /\ q.todo = s \o Tail(r.todo) /\ q.undo = u
               /\ q.op = r.op /\ q.policy = r.policy /\ q.failing = r.failing
               /\ q.before = r.before /\ q.alone = r.alone
  BY <1>1, ContinueAll
<1> USE DEF u
<1>4. /\ s \in Seq(Of("entry")) /\ s \in Seq(Steps) /\ ~Has(s, Selecting) /\ ~Has(s, Choosing)
      /\ s \in Seq(Free) /\ ~Has(s, Of("enable") \cup Of("start"))
      /\ ~Has(s, {Do("publish", "legacy-import")}) /\ \A f \in Files : ~Has(s, {Do("file", f)})
  <2>1. s \in Seq(Of("entry"))
    <3>1. \A i \in 1..5 : EntryOrder[i] \in Entries
      BY DEF EntryOrder, Entries
    <3>2. \A i \in 1..5 : Do("entry", EntryOrder[i]) \in Of("entry")
      BY <3>1, StepKinds
    <3> QED
      BY <3>2, SeqDef DEF EntrySteps, s
  <2>2. \A what, on : Do(what, on).do = what
    BY DEF Do
  <2>3. /\ Of("entry") \cap Selecting = {} /\ Of("entry") \cap Choosing = {}
        /\ Of("entry") \cap (Of("enable") \cup Of("start")) = {}
        /\ Of("entry") \cap {Do("publish", "legacy-import")} = {}
        /\ \A f \in Files : Of("entry") \cap {Do("file", f)} = {}
        /\ Of("entry") \subseteq Free /\ Of("entry") \subseteq Steps
    BY <2>2 DEF Of, Selecting, Choosing, Free
  <2> QED
    BY <2>1, <2>3, HasNone, SeqMonotone
<1>5. Head(r.todo) \notin Choosing /\ Head(r.todo) # Do("plan", "bootstrap")
  BY <1>1 DEF Choosing, Of, Do
<1>6. Sequence(q.op, q.todo)
  <2>1. /\ Sequence(r.op, Tail(r.todo)) /\ Sequence(r.op, s)
        /\ ~Has(s, {Do("create", "member")}) /\ ~Has(s, Closing \cup {Do("plan", "full")})
    BY <1>1, <1>2, <1>4, SequenceTail, FreeSequence
  <2> QED
    BY <1>2, <1>3, <1>4, <2>1, SequenceJoined
<1>7. Orderly(q)
  <2>1. \A A : Has(q.todo, A) <=> Has(s, A) \/ Has(Tail(r.todo), A)
    <3> DEFINE z == Tail(r.todo)
    <3>1. s \in Seq(Steps) /\ z \in Seq(Steps)
      BY <1>2, <1>4
    <3> HIDE DEF z
    <3>2. \A A : Has(s \o z, A) <=> Has(s, A) \/ Has(z, A)
      BY <3>1, HasJoined
    <3> QED
      BY <1>3, <3>2 DEF z
  <2> QED
    BY <1>2, <1>3, <1>5, <1>6, <2>1 DEF Orderly
<1>8. ASSUME NEW b \in Hosts, Restorable(r, host, b)
      PROVE  Restorable(q, host, b)
  <2>1. /\ Records(x, host) /\ x \in Seq(Steps) /\ \A e \in Entries : Has(x, Repaths(e))
    BY <1>2, EntryUndoRecords DEF x
  <2>2. b.selector # None /\ (Has(s, Selecting) \/ Has(Tail(r.todo), Selecting)) =>
           \/ Has(x, Of("reselect")) \/ Has(r.undo, Of("reselect"))
           \/ Has(s, Choosing) \/ Has(Tail(r.todo), Choosing)
    BY <1>1, <1>2, <1>4, <1>5, <1>8 DEF Restorable, Covers
  <2> HIDE DEF r
  <2> QED
    BY <1>1, <1>2, <1>3, <1>4, <1>8, <2>1, <2>2, ScheduleRestorable
<1>9. Recovers(r, host) => Recovers(q, host')
  BY <1>1, <1>3, <1>8 DEF Recovers
<1> QED
  BY <1>3, <1>7, <1>9 DEF Advanced

LEMMA SelectAdvanced ==
  ASSUME Inv, OrderInv, NEW p \in Processes, Select(p)
  PROVE  Advanced(p)
<1> DEFINE r == run[p]
           import == host.selector = "plain" /\ host.releases["legacy-import"] = None
           a == Do("stage", "legacy-import")
           c == Do("publish", "legacy-import")
           s == IF import THEN <<a, c>> ELSE <<>>
           x == IF host.selector = None \/ import THEN <<>> ELSE Reselect(Product(host))
           u == x \o r.undo
<1>1. /\ host' = host /\ r.failing = "no" /\ r.todo # <<>> /\ Head(r.todo).do = "select"
      /\ Continue(p, s, u)
  BY DEF Select, Ready, At, Now
<1>2. /\ r.todo \in Seq(Steps) /\ Tail(r.todo) \in Seq(Steps) /\ r.undo \in Seq(Steps) /\ host \in Hosts
      /\ \A A : Has(r.todo, A) <=> Head(r.todo) \in A \/ Has(Tail(r.todo), A)
      /\ Sequence(r.op, r.todo)
      /\ r.op \in Installing /\ r.policy = None => Has(r.todo, {Do("plan", "bootstrap")})
  BY <1>1, Underway
<1>3. /\ Records(x, host) /\ x \in Seq(Steps)
      /\ host.selector # None /\ ~import => Has(x, Of("reselect"))
  BY <1>2, EmptyRecords, EmptyTyped, ReselectRecords
<1>4. /\ s \in Seq(Free) /\ s \in Seq(Steps) /\ ~Has(s, Selecting)
      /\ ~Has(s, Of("enable") \cup Of("start"))
      /\ \A f \in Files : ~Has(s, {Do("file", f)})
      /\ \A e \in Entries : ~Has(s, {Do("entry", e)})
      /\ Has(s, {Do("publish", "legacy-import")}) => host.selector = "plain"
      /\ import => Has(s, Choosing)
  <2> DEFINE T == Of("stage") \cup Of("publish")
  <2>1. a \in T /\ c \in T /\ c \in Choosing
    BY StepKinds DEF Versions, Choosing
  <2>2. \A what, on : Do(what, on).do = what
    BY DEF Do
  <2>3. /\ T \cap Selecting = {} /\ T \cap (Of("enable") \cup Of("start")) = {}
        /\ \A y : T \cap {Do("file", y)} = {} /\ T \cap {Do("entry", y)} = {}
        /\ T \subseteq Free /\ T \subseteq Steps
    BY <2>2 DEF Of, Selecting, Free
  <2> HIDE DEF T, a, c
  <2>4. s \in Seq(T)
    BY <2>1, EmptyTyped
  <2>5. import => Len(s) = 2 /\ s[2] = c
    OBVIOUS
  <2>6. ~import => ~Has(s, {Do("publish", "legacy-import")})
    BY EmptyHas
  <2> HIDE DEF s, import
  <2>7. import => Has(s, Choosing)
    BY <2>1, <2>5 DEF Has
  <2> QED
    BY <2>3, <2>4, <2>6, <2>7, HasNone, SeqMonotone DEF import
<1> HIDE DEF x, s, u
<1>5. PICK q : /\ run' = [run EXCEPT ![p] = q] /\ q.todo = s \o Tail(r.todo) /\ q.undo = u
               /\ q.op = r.op /\ q.policy = r.policy /\ q.failing = r.failing
               /\ q.before = r.before /\ q.alone = r.alone
  BY <1>1, ContinueAll
<1> USE DEF u
<1>6. Head(r.todo) # Do("plan", "bootstrap")
  BY <1>1 DEF Do
<1>7. Sequence(q.op, q.todo)
  <2>1. /\ Sequence(r.op, Tail(r.todo)) /\ Sequence(r.op, s)
        /\ ~Has(s, {Do("create", "member")}) /\ ~Has(s, Closing \cup {Do("plan", "full")})
    BY <1>1, <1>2, <1>4, SequenceTail, FreeSequence
  <2> QED
    BY <1>2, <1>4, <1>5, <2>1, SequenceJoined
<1>8. Orderly(q)
  <2>1. \A A : Has(q.todo, A) <=> Has(s, A) \/ Has(Tail(r.todo), A)
    <3> DEFINE z == Tail(r.todo)
    <3>1. s \in Seq(Steps) /\ z \in Seq(Steps)
      BY <1>2, <1>4
    <3> HIDE DEF z
    <3>2. \A A : Has(s \o z, A) <=> Has(s, A) \/ Has(z, A)
      BY <3>1, HasJoined
    <3> QED
      BY <1>5, <3>2 DEF z
  <2> QED
    BY <1>2, <1>5, <1>6, <1>7, <2>1 DEF Orderly
<1>9. ASSUME NEW b \in Hosts, Restorable(r, host, b)
      PROVE  Restorable(q, host, b)
  <2>1. b.selector # None /\ (Has(s, Selecting) \/ Has(Tail(r.todo), Selecting)) =>
           \/ Has(x, Of("reselect")) \/ Has(r.undo, Of("reselect"))
           \/ Has(s, Choosing) \/ Has(Tail(r.todo), Choosing)
    <3>1. b.selector # None /\ host.selector = None => Has(r.undo, Of("reselect"))
      BY <1>1, <1>9, ProductKnown DEF Restorable, Back
    <3> QED
      BY <3>1, <1>3, <1>4
  <2>2. /\ r.todo \in Seq(Steps) /\ r.todo # <<>> /\ r.undo \in Seq(Steps)
        /\ s \in Seq(Steps) /\ x \in Seq(Steps)
        /\ q.todo = s \o Tail(r.todo) /\ q.undo = x \o r.undo
        /\ q.op = r.op /\ q.before = r.before /\ q.failing = "no" /\ r.failing = "no"
    BY <1>1, <1>2, <1>3, <1>4, <1>5
  <2>3. /\ Records(x, host)
        /\ \A f \in Files : Has(s, {Do("file", f)}) => Has(x, PutBacks(f))
        /\ Has(s, Of("enable") \cup Of("start")) => Has(x, Timing)
        /\ \A e \in Entries : Has(s, {Do("entry", e)}) => Has(x, Repaths(e))
        /\ Has(s, {Do("publish", "legacy-import")}) => host.selector = "plain"
    BY <1>3, <1>4
  <2> HIDE DEF r, u
  <2> QED
    BY <1>2, <1>9, <2>1, <2>2, <2>3, ScheduleRestorable
<1>10. Recovers(r, host) => Recovers(q, host')
  BY <1>1, <1>5, <1>9 DEF Recovers
<1> QED
  BY <1>5, <1>8, <1>10 DEF Advanced

LEMMA ReleaseAdvanced ==
  ASSUME Inv, OrderInv, NEW p \in Processes, Release(p)
  PROVE  Advanced(p)
<1> DEFINE r == run[p]
           w == Head(r.todo).on
           i == IF host.releases[w] = None THEN <<Do("stage", w), Do("publish", w)>> ELSE <<>>
           a == <<Do("activate", w)>>
           s == i \o a
<1>1. /\ host' = host /\ r.failing = "no" /\ r.todo # <<>> /\ Head(r.todo).do = "release"
      /\ Continue(p, s, r.undo)
  BY DEF Release, Ready, At, Now
<1>2. /\ r.todo \in Seq(Steps) /\ Tail(r.todo) \in Seq(Steps) /\ r.undo \in Seq(Steps) /\ host \in Hosts
      /\ \A A : Has(r.todo, A) <=> Head(r.todo) \in A \/ Has(Tail(r.todo), A)
      /\ Sequence(r.op, r.todo) /\ Head(r.todo) \in Steps
      /\ r.op \in Installing /\ r.policy = None => Has(r.todo, {Do("plan", "bootstrap")})
  BY <1>1, Underway
<1>3. Head(r.todo) \in Selecting /\ Head(r.todo) \notin Choosing /\ Head(r.todo) # Do("plan", "bootstrap")
  BY <1>1, <1>2 DEF Selecting, Choosing, Of, Do
<1>4. /\ Sequence(r.op, Tail(r.todo)) /\ ~Has(Tail(r.todo), Choosing)
      /\ Head(r.todo) # Do("release", "legacy-import")
  BY <1>1, <1>2, <1>3, SequenceTail
<1>5. w \in Versions /\ w # "legacy-import"
  BY <1>1, <1>2, <1>4 DEF Steps, Do
<1>6. /\ s \in Seq(Free) /\ s \in Seq(Steps) /\ ~Has(s, Choosing)
      /\ ~Has(s, Of("enable") \cup Of("start")) /\ ~Has(s, {Do("publish", "legacy-import")})
      /\ \A f \in Files : ~Has(s, {Do("file", f)})
      /\ \A e \in Entries : ~Has(s, {Do("entry", e)})
  <2> DEFINE T == {Do("stage", w), Do("publish", w), Do("activate", w)}
  <2>1. \A what, on : Do(what, on).do = what /\ Do(what, on).on = on
    BY DEF Do
  <2>2. T \subseteq Free
    BY <1>5, <2>1, StepKinds DEF Free, Of
  <2>3. /\ T \cap Choosing = {} /\ T \cap (Of("enable") \cup Of("start")) = {}
        /\ T \cap {Do("publish", "legacy-import")} = {}
        /\ \A y : T \cap {Do("file", y)} = {} /\ T \cap {Do("entry", y)} = {}
        /\ T \subseteq Steps
    BY <1>5, <2>1, <2>2 DEF Free, Of, Choosing
  <2>4. i \in Seq(T) /\ a \in Seq(T)
    <3>1. <<Do("stage", w), Do("publish", w)>> \in Seq(T) /\ <<>> \in Seq(T) /\ a \in Seq(T)
      BY EmptyTyped
    <3> QED
      BY <3>1
  <2> HIDE DEF i, a, T
  <2>5. s \in Seq(T)
    BY <2>4, ConcatProperties
  <2> HIDE DEF s
  <2> QED
    BY <2>2, <2>3, <2>5, HasNone, SeqMonotone
<1> HIDE DEF s
<1>7. PICK q : /\ run' = [run EXCEPT ![p] = q] /\ q.todo = s \o Tail(r.todo) /\ q.undo = r.undo
               /\ q.op = r.op /\ q.policy = r.policy /\ q.failing = r.failing
               /\ q.before = r.before /\ q.alone = r.alone
  BY <1>1, ContinueAll
<1>8. Sequence(q.op, q.todo)
  <2>1. /\ Sequence(r.op, s) /\ ~Has(s, {Do("create", "member")})
        /\ ~Has(s, Closing \cup {Do("plan", "full")})
    BY <1>6, FreeSequence
  <2> QED
    BY <1>2, <1>4, <1>6, <1>7, <2>1, SequenceJoined
<1>9. Orderly(q)
  <2>1. \A A : Has(q.todo, A) <=> Has(s, A) \/ Has(Tail(r.todo), A)
    <3> DEFINE z == Tail(r.todo)
    <3>1. s \in Seq(Steps) /\ z \in Seq(Steps)
      BY <1>2, <1>6
    <3> HIDE DEF z
    <3>2. \A A : Has(s \o z, A) <=> Has(s, A) \/ Has(z, A)
      BY <3>1, HasJoined
    <3> QED
      BY <1>7, <3>2 DEF z
  <2> QED
    BY <1>2, <1>3, <1>7, <1>8, <2>1 DEF Orderly
<1>10. ASSUME NEW b \in Hosts, Restorable(r, host, b)
       PROVE  Restorable(q, host, b)
  <2> DEFINE x == <<>>
  <2>1. /\ Records(x, host) /\ x \in Seq(Steps) /\ q.undo = x \o r.undo
    BY <1>2, <1>7, EmptyRecords, EmptyTyped, ConcatEmptySeq
  <2>2. b.selector # None => Has(r.undo, Of("reselect"))
    BY <1>1, <1>2, <1>3, <1>4, <1>10 DEF Restorable, Covers
  <2> HIDE DEF r, x
  <2> QED
    BY <1>1, <1>2, <1>6, <1>7, <1>10, <2>1, <2>2, ScheduleRestorable
<1>11. Recovers(r, host) => Recovers(q, host')
  BY <1>1, <1>7, <1>10 DEF Recovers
<1> QED
  BY <1>7, <1>9, <1>11 DEF Advanced

-----------------------------------------------------------------------------
(* What a step does is taken back by what is recorded. *)
LEMMA DoneRestores ==
  ASSUME host \in Hosts, NEW r, r.failing = "no", r.todo \in Seq(Steps), r.todo # <<>>,
         r.undo \in Seq(Steps), NEW b \in Hosts, Restorable(r, host, b), Sequence(r.op, r.todo),
         \A id \in Identities : Has(r.todo, {Do("create", id)}) => Has(r.undo, {Do("drop", id)}),
         NEW d
  PROVE  Restores(r.undo, Done(Head(r.todo), d), b)
<1> DEFINE step == Head(r.todo)
           g == Done(step, d)
           u == r.undo
<1>1. /\ step \in Steps /\ Restores(u, host, b) /\ Covers(r, host, b)
      /\ \A A : Has(r.todo, A) <=> step \in A \/ Has(Tail(r.todo), A)
  BY HeadTailProperties, HasTail DEF Restorable, Back
<1>2. Has(Tail(r.todo), Choosing) => step \notin Selecting
  BY SequenceTail
<1> HIDE DEF step
<1>3. /\ g.ids = IF step.do = "create" THEN host.ids \cup {step.on} ELSE host.ids
      /\ step.do # "file" => g.files = host.files
      /\ step.do = "file" => /\ step.on \in Files
                             /\ g.files = [host.files EXCEPT ![step.on] = Rendered(step.on, d.policy)]
      /\ step.do # "entry" => g.entries = host.entries
      /\ step.do = "entry" => /\ step.on \in Entries
                              /\ g.entries = [host.entries EXCEPT ![step.on] = "ours"]
      /\ g.selector = IF step.do = "activate" THEN step.on ELSE host.selector
  BY <1>1, DoneFields
<1>10. /\ g.links = IF step.do = "enable" THEN host.links \cup {"persistent"} ELSE host.links
       /\ g.active = IF step.do = "start" THEN TRUE ELSE host.active
  BY <1>1, DonePlaces
<1> HIDE DEF g
<1>4. \A f \in Files : Has(u, PutBacks(f)) \/ g.files[f] = host.files[f]
  <2> TAKE f \in Files
  <2>1. CASE step = Do("file", f)
    BY <1>1, <2>1 DEF Covers
  <2>2. CASE step # Do("file", f)
    <3>1. step.do = "file" => step.on # f
      BY <1>1, <2>2, StepFields DEF Of, Writes
    <3>2. host.files \in [Files -> Contents]
      BY DEF Hosts
    <3> QED
      BY <1>3, <3>1, <3>2
  <2> QED
    BY <2>1, <2>2
<1>5. \A e \in Entries : Has(u, Repaths(e)) \/ g.entries[e] = host.entries[e]
  <2> TAKE e \in Entries
  <2>1. CASE step = Do("entry", e)
    BY <1>1, <2>1 DEF Covers
  <2>2. CASE step # Do("entry", e)
    <3>1. step.do = "entry" => step.on # e
      BY <1>1, <2>2, StepFields DEF Of
    <3>2. host.entries \in [Entries -> {None, "was", "ours"}]
      BY DEF Hosts
    <3> QED
      BY <1>3, <3>1, <3>2
  <2> QED
    BY <2>1, <2>2
<1>6. Has(u, Timing) \/ Timer(g) = Timer(host)
  <2>1. CASE step.do \in {"enable", "start"}
    <3>1. step \in Of("enable") \cup Of("start")
      BY <1>1, <2>1 DEF Of
    <3> QED
      BY <1>1, <3>1 DEF Covers
  <2>2. CASE step.do \notin {"enable", "start"}
    <3>1. "timer" \in Files
      BY DEF Files
    <3>2. Has(u, PutBacks("timer")) => Has(u, Timing)
      BY HasMore DEF Timing
    <3>3. g.links = host.links /\ g.active = host.active
      BY <1>10, <2>2
    <3> QED
      BY <1>4, <3>1, <3>2, <3>3 DEF Timer
  <2> QED
    BY <2>1, <2>2
<1>7. b.selector # None => Has(u, Of("reselect")) \/ Product(g) = Product(host)
  <2>1. CASE step.do = "activate"
    <3>0. step \in Steps /\ Do("publish", "legacy-import").do = "publish"
      BY <1>1 DEF Do
    <3>1. step \in Selecting /\ step \notin Choosing
      BY <3>0, <2>1 DEF Selecting, Choosing, Of
    <3> QED
      BY <1>1, <1>2, <3>1 DEF Covers
  <2>2. CASE step.do # "activate"
    BY <1>3, <2>2 DEF Product
  <2> QED
    BY <2>1, <2>2
<1>8. host.ids \subseteq g.ids /\ \A id \in g.ids \ host.ids : Has(u, {Do("drop", id)})
  <2>1. step.do = "create" => step = Do("create", step.on) /\ step.on \in Identities
    BY <1>1, StepFields DEF Of, Creates
  <2> QED
    BY <1>1, <1>3, <2>1
<1> HIDE DEF u
<1>9. Restores(u, g, b)
  BY <1>1, <1>4, <1>5, <1>6, <1>7, <1>8, RestoresKept
<1> QED
  BY <1>9 DEF u, g, step

(* install.py alone makes accounts. *)
LEMMA CreatesCovered ==
  ASSUME Inv, BoundaryInv, NEW p \in Processes, run[p].failing = "no"
  PROVE  \A id \in Identities : Has(run[p].todo, {Do("create", id)}) => Has(run[p].undo, {Do("drop", id)})
<1>1. CASE p = "installer"
  BY <1>1 DEF BoundaryInv, OursInv, Ours, Progress
<1>2. CASE p = "manager"
  <2>1. run[p].todo \in Seq(Deploying)
    BY <1>2 DEF BoundaryInv, ManagerInv, Theirs
  <2>2. \A id : Deploying \cap {Do("create", id)} = {}
    BY DEF Deploying, Do
  <2> QED
    BY <2>1, <2>2, HasNone
<1> QED
  BY <1>1, <1>2 DEF Processes

LEMMA AdvanceAdvanced ==
  ASSUME Inv, BoundaryInv, OrderInv, NEW p \in Processes, Advance(p), host' \in Hosts
  PROVE  Advanced(p)
<1> DEFINE r == run[p]
           step == Head(r.todo)
           g == Done(step, r)
           legacy == step.do = "publish" /\ step.on = "legacy-import"
           s == <<>>
           x == IF legacy THEN Reselect("legacy-import") ELSE <<>>
           u == x \o r.undo
<1>1. /\ host' = g /\ r.failing = "no" /\ r.todo # <<>> /\ step.do \in Forward
      /\ Continue(p, s, u)
  BY DEF Advance, Ready, At, Now
<1>2. /\ r.todo \in Seq(Steps) /\ Tail(r.todo) \in Seq(Steps) /\ r.undo \in Seq(Steps) /\ host \in Hosts
      /\ \A A : Has(r.todo, A) <=> step \in A \/ Has(Tail(r.todo), A)
      /\ Sequence(r.op, r.todo) /\ step \in Steps /\ g \in Hosts
      /\ r.op \in Installing /\ r.policy = None => Has(r.todo, {Do("plan", "bootstrap")})
  BY <1>1, Underway
<1> HIDE DEF s, u, x, g
<1>3. PICK q : /\ run' = [run EXCEPT ![p] = q] /\ q.todo = s \o Tail(r.todo) /\ q.undo = u
               /\ q.op = r.op /\ q.policy = r.policy /\ q.failing = r.failing
               /\ q.before = r.before /\ q.alone = r.alone
  BY <1>1, ContinueAll
<1> DEFINE t == Tail(r.todo)
<1> HIDE DEF step, t
<1>4. q.todo = t
  BY <1>2, <1>3, ConcatEmptySeq DEF s, t
<1>5. /\ t \in Seq(Steps) /\ \A A : Has(r.todo, A) <=> step \in A \/ Has(t, A)
      /\ Sequence(r.op, t) /\ (Has(t, Choosing) => step \notin Selecting)
  BY <1>1, <1>2, SequenceTail DEF t, step
<1>6. step # Do("plan", "bootstrap") /\ (step \in Choosing => legacy)
  <2>1. Do("plan", "bootstrap").do = "plan" /\ \A y : y = Do("publish", "legacy-import") =>
                                              y.do = "publish" /\ y.on = "legacy-import"
    BY DEF Do
  <2>2. step.do # "plan" /\ step.do # "select"
    BY <1>1 DEF Forward
  <2> QED
    BY <2>1, <2>2 DEF Choosing, Of
<1>7. Orderly(q)
  BY <1>2, <1>3, <1>4, <1>5, <1>6 DEF Orderly
<1>8. /\ g.selector = IF step.do = "activate" THEN step.on ELSE host.selector
      /\ host.releases[Mine] = "ours" => g.releases[Mine] = "ours"
  <2>1. g.selector = IF step.do = "activate" THEN step.on ELSE host.selector
    BY <1>2, DoneFields DEF g
  <2>2. Mine \in Versions /\ "ours" # None /\ host' = g
    BY <1>1, Values DEF Versions
  <2> QED
    BY <2>1, <2>2, AdvanceKeeps DEF Keeps, Safe
<1>9. ASSUME NEW b \in Hosts, Restorable(r, host, b)
      PROVE  Restorable(q, g, b)
  <2>1. Restores(r.undo, g, b)
    <3>1. \A id \in Identities : Has(r.todo, {Do("create", id)}) => Has(r.undo, {Do("drop", id)})
      BY <1>1, CreatesCovered
    <3> QED
      BY <1>1, <1>2, <1>9, <3>1, DoneRestores DEF g, step
  <2>2. legacy => step = Do("publish", "legacy-import")
    BY <1>2 DEF Steps, Do
  <2>3. legacy => g.selector = "plain"
    <3>1. legacy => Has(r.todo, {Do("publish", "legacy-import")})
      BY <1>5, <2>2
    <3>2. Has(r.todo, {Do("publish", "legacy-import")}) => host.selector = "plain"
      BY <1>1, <1>9 DEF Restorable, Covers
    <3> QED
      BY <1>8, <3>1, <3>2
  <2>4. x \in Seq(Steps) /\ Records(x, g) /\ (legacy => Has(x, Of("reselect")))
    <3>1. CASE legacy
      <4>1. Product(g) = "legacy-import" /\ g.selector # None
        BY <2>3, <3>1, NoneAssumption DEF Product
      <4> QED
        BY <1>2, <3>1, <4>1, ReselectRecords DEF x
    <3>2. CASE ~legacy
      BY <3>2, EmptyRecords, EmptyTyped DEF x
    <3> QED
      BY <3>1, <3>2
  <2>5. Restores(q.undo, g, b)
    <3> HIDE DEF r
    <3>1. Restores(x \o r.undo, g, b)
      BY <1>2, <2>1, <2>4, RestoresJoined
    <3> QED
      BY <1>3, <3>1 DEF u
  <2>6. \A A : Has(q.undo, A) <=> Has(x, A) \/ Has(r.undo, A)
    <3> DEFINE y == r.undo
    <3>1. y \in Seq(Steps)
      BY <1>2
    <3> HIDE DEF y
    <3>2. \A A : Has(x \o y, A) <=> Has(x, A) \/ Has(y, A)
      BY <2>4, <3>1, HasJoined
    <3> QED
      BY <1>3, <3>2 DEF u, y
  <2>7. Covers(r, host, b)
    BY <1>1, <1>9 DEF Restorable
  <2>8. \A A : Has(t, A) => Has(r.todo, A)
    BY <1>5
  <2> HIDE DEF r, legacy
  <2>9. b.selector # None /\ Has(t, Selecting) => Has(q.undo, Of("reselect")) \/ Has(t, Choosing)
    BY <1>5, <1>6, <2>4, <2>6, <2>7 DEF Covers
  <2>10. Has(t, {Do("publish", "legacy-import")}) => g.selector = "plain"
    <3>1. step.do = "activate" => step \in Selecting
      BY <1>2 DEF Selecting, Of
    <3>2. Has(t, {Do("publish", "legacy-import")}) => Has(t, Choosing)
      BY HasMore DEF Choosing
    <3> QED
      BY <1>5, <1>8, <2>7, <2>8, <3>1, <3>2 DEF Covers
  <2>11. Covers(q, g, b)
    BY <1>4, <2>6, <2>7, <2>8, <2>9, <2>10 DEF Covers
  <2> QED
    BY <1>1, <1>3, <1>8, <1>9, <2>5, <2>11 DEF Restorable, Based, Back
<1>10. Recovers(r, host) => Recovers(q, host')
  BY <1>1, <1>3, <1>9 DEF Recovers
<1> QED
  BY <1>3, <1>7, <1>10 DEF Advanced

-----------------------------------------------------------------------------
(* Failures *)

Ending == Closing \cup {Do("plan", "full")}

(* What install and adopt do not take back comes after everything else. *)
LEMMA EndingAhead ==
  ASSUME NEW op \in Installing, NEW t \in Seq(Steps), t # <<>>, Sequence(op, t), Head(t) \in Ending
  PROVE  ~Has(t, Steps \ Ending)
<1>1. ~Has(Tail(t), Steps \ Closing)
  BY SequenceTail DEF Ending
<1>2. ~Has(Tail(t), Steps \ Ending)
  BY <1>1, HasMore DEF Ending
<1>3. Has(t, Steps \ Ending) <=> Head(t) \in Steps \ Ending \/ Has(Tail(t), Steps \ Ending)
  BY HasTail
<1> QED
  BY <1>2, <1>3

LEMMA EndingApart ==
  /\ Selecting \subseteq Steps \ Ending /\ Choosing \subseteq Steps \ Ending
  /\ \A v \in Versions : Brings(v) \subseteq Steps \ Ending /\ Selects(v) \subseteq Steps \ Ending
  /\ \A e \in Entries : Puts(e) \subseteq Steps \ Ending /\ {Do("entry", e)} \subseteq Steps \ Ending
  /\ \A f \in Files : {Do("file", f)} \subseteq Steps \ Ending
  /\ \A id \in Identities : {Do("create", id)} \subseteq Steps \ Ending
  /\ Of("enable") \subseteq Steps \ Ending /\ Of("start") \subseteq Steps \ Ending
  /\ Of("enable") \cup Of("start") \subseteq Steps \ Ending
  /\ {Do("plan", "bootstrap")} \subseteq Steps \ Ending
  /\ {Do("publish", "legacy-import")} \subseteq Steps \ Ending
<1>1. \A what, on : Do(what, on).do = what /\ Do(what, on).on = on
  BY DEF Do
<1>2. \A s \in Steps : s.do \notin {"initialize", "health", "plan"} => s \in Steps \ Ending
  BY <1>1 DEF Ending, Closing, Of
<1>3. /\ Selecting \subseteq Steps \ Ending
      /\ Of("enable") \subseteq Steps \ Ending /\ Of("start") \subseteq Steps \ Ending
      /\ Of("release") \subseteq Steps \ Ending /\ Of("publish") \subseteq Steps \ Ending
      /\ Of("snapshot") \subseteq Steps \ Ending /\ Of("entry") \subseteq Steps \ Ending
      /\ Creates \subseteq Steps \ Ending /\ Writes \subseteq Steps \ Ending
      /\ Of("select") \subseteq Steps \ Ending
  BY <1>2 DEF Of, Selecting, Creates, Writes
<1>4. Do("publish", "legacy-import") \in Of("publish")
  BY StepKinds DEF Versions
<1>5. Do("plan", "bootstrap") \in Steps \ Ending
  <2>1. Do("plan", "bootstrap") \in Steps
    BY StepKinds DEF Policies, Of
  <2> QED
    BY <1>1, <2>1 DEF Ending, Closing, Of
<1>6. \A v \in Versions : Brings(v) \subseteq Steps \ Ending /\ Selects(v) \subseteq Steps \ Ending
  BY <1>3 DEF Brings, Selects
<1>7. \A e \in Entries : Puts(e) \subseteq Steps \ Ending /\ {Do("entry", e)} \subseteq Steps \ Ending
  BY <1>3, StepKinds DEF Puts
<1> QED
  BY <1>3, <1>4, <1>5, <1>6, <1>7, StepKinds DEF Choosing

(* What an install or adopt leaves when it fails there. *)
LEMMA SettledHost ==
  ASSUME Inv, BoundaryInv, SuccessInv, OrderInv, NEW p \in Processes, run[p] # Idle, run[p].alone,
         run[p].failing = "no", run[p].op \in Installing, ~Has(run[p].todo, Steps \ Ending)
  PROVE  /\ Deployed(host, Mine) /\ host.releases[Mine] = "ours"
         /\ \E policy \in Policies : Boundary(host, policy)
<1> DEFINE r == run[p]
           policy == r.policy
<1>1. \A A : A \subseteq Steps \ Ending => ~Has(r.todo, A)
  BY HasMore
<1>2. r.op \in Lasting /\ r.op # "update" /\ r.op # "configure"
  BY DEF Installing, Lasting
<1>3. p = "installer" /\ Reaches(r, host, Mine) /\ Mine \in Versions
  BY <1>2, Both, NoneAssumption DEF SuccessInv, Theirs, Installing, Versions, Operations
<1>4. policy # None /\ policy \in Policies
  <2>1. policy # None
    BY <1>1, EndingApart DEF OrderInv, Orderly
  <2> QED
    BY <2>1 DEF Inv, TypeOK, Runs
<1>5. Deployed(host, Mine) /\ host.releases[Mine] = "ours"
  <2>1. /\ Has(r.todo, Brings(Mine)) \/ host.releases[Mine] = "ours"
        /\ Has(r.todo, Selects(Mine)) \/ host.selector = Mine
        /\ \A e \in Entries : Has(r.todo, Puts(e)) \/ host.entries[e] = "ours"
    BY <1>3, <1>2 DEF Reaches, Deploys, Artifact
  <2> QED
    BY <1>1, <1>3, <2>1, EndingApart DEF Deployed
<1>6. /\ \A f \in Files : host.files[f] = Rendered(f, policy)
      /\ "persistent" \in host.links /\ host.active
  <2>1. Configures(r, host)
    BY <1>3, <1>2 DEF Reaches
  <2> QED
    BY <1>1, <1>4, <2>1, EndingApart DEF Configures
<1>7. Wanted(policy) \subseteq host.ids
  <2>1. Progress(r, host)
    BY <1>3 DEF BoundaryInv, OursInv, Ours
  <2>2. \A id \in Wanted(policy) : id \in host.ids \/ Has(r.todo, {Do("create", id)})
    BY <1>4, <2>1 DEF Progress
  <2> QED
    BY <1>1, <2>2, EndingApart, WantedTyped
<1>8. Timer(host) = [unit |-> "enabled", active |-> TRUE]
  <2>1. host.files["timer"] # None
    <3>1. "timer" \in Files /\ Rendered("timer", policy) = "full"
      BY DEF Files, Rendered
    <3> QED
      BY <1>6, <3>1, Nothing
  <2>2. host.active = TRUE
    BY <1>6 DEF Inv, TypeOK, Hosts
  <2> QED
    BY <1>6, <2>1, <2>2 DEF Timer
<1> QED
  BY <1>4, <1>5, <1>6, <1>7, <1>8 DEF Boundary

(* What a failure takes back leads to a host to go back to: the one found, or the
   complete deployment that install and adopt keep. *)
LEMMA CompensationRestorable ==
  ASSUME Inv, BoundaryInv, SuccessInv, OrderInv, NEW p \in Processes,
         run[p].todo # <<>>, run[p].failing = "no", run[p].alone, Recovers(run[p], host)
  PROVE  LET c == [run[p] EXCEPT !.undo = Compensation(p)] IN
           /\ c.todo = run[p].todo /\ c.undo = Compensation(p) /\ c.op = run[p].op
           /\ c.before = run[p].before /\ c.failing = "no" /\ c.undo \in Seq(Steps)
           /\ \A id \in Identities : Has(c.todo, {Do("create", id)}) => Has(c.undo, {Do("drop", id)})
           /\ \E b \in Hosts : Restorable(c, host, b)
<1> DEFINE r == run[p]
           step == Head(r.todo)
           u == Compensation(p)
           c == [r EXCEPT !.undo = u]
<1>1. /\ r.todo \in Seq(Steps) /\ r.undo \in Seq(Steps) /\ r \in Runs /\ host \in Hosts
      /\ Sequence(r.op, r.todo) /\ step \in Steps
  BY Underway
<1>2. u = r.undo \/ (u = <<>> /\ r.op \in Installing /\ step \in Ending)
  <2>1. CASE At(p, "plan")
    <3>1. step = Do("plan", step.on)
      BY <1>1, <2>1, StepFields DEF At, Now, Of
    <3>2. u = r.undo \/ (u = <<>> /\ r.op \in Installing /\ step.on = "full")
      BY <2>1 DEF Compensation, Enclosing, Now, Installing
    <3> QED
      BY <3>1, <3>2 DEF Ending
  <2>2. CASE At(p, "initialize") \/ Now(p) = Do("health", "last")
    <3>1. Do("health", "last") \in Of("health")
      BY StepKinds
    <3>2. step \in Of("initialize") \/ step = Do("health", "last")
      BY <1>1, <2>2 DEF At, Now, Of
    <3>3. r.op \in Installing
      BY <1>1, <3>2, SequenceTail
    <3>4. step \in Ending
      BY <3>1, <3>2 DEF Ending, Closing
    <3>5. ~At(p, "plan")
      BY <2>2 DEF At, Now, Do
    <3> QED
      BY <2>2, <3>3, <3>4, <3>5 DEF Compensation
  <2>3. CASE ~At(p, "plan") /\ ~At(p, "initialize") /\ Now(p) # Do("health", "last")
    BY <2>3 DEF Compensation
  <2> QED
    BY <2>1, <2>2, <2>3
<1> HIDE DEF u
<1>3. /\ c.todo = r.todo /\ c.undo = u /\ c.op = r.op /\ c.before = r.before /\ c.failing = "no"
      /\ c.undo \in Seq(Steps)
  BY <1>1, <1>2, EmptyTyped DEF Runs
<1> HIDE DEF c
<1>4. CASE u = r.undo
  <2>1. \A id \in Identities : Has(r.todo, {Do("create", id)}) => Has(r.undo, {Do("drop", id)})
    BY CreatesCovered
  <2>2. PICK b \in Hosts : Restorable(r, host, b)
    BY DEF Recovers
  <2>3. Restorable(c, host, b)
    BY <1>3, <1>4, <2>2 DEF Restorable, Based, Covers, Back
  <2> QED
    BY <1>3, <1>4, <2>1, <2>3 DEF u, c
<1>5. CASE u = <<>> /\ r.op \in Installing /\ step \in Ending
  <2>1. ~Has(r.todo, Steps \ Ending)
    BY <1>1, <1>5, EndingAhead
  <2>2. \A A : A \subseteq Steps \ Ending => ~Has(c.todo, A)
    BY <1>3, <2>1, HasMore
  <2>3. r # Idle
    BY DEF Idle
  <2>4. /\ Deployed(host, Mine) /\ host.releases[Mine] = "ours"
        /\ \E policy \in Policies : Boundary(host, policy)
    BY <1>5, <2>1, <2>3, SettledHost
  <2>5. Based(c, host, host) /\ Restores(Back(c), host, host)
    BY <1>1, <1>3, <1>5, <2>4, RestoresItself DEF Based, Back
  <2>6. Covers(c, host, host)
    BY <2>2, EndingApart DEF Covers
  <2>7. Restorable(c, host, host)
    BY <2>5, <2>6 DEF Restorable
  <2>8. \A id \in Identities : ~Has(c.todo, {Do("create", id)})
    BY <2>2, EndingApart
  <2> QED
    BY <1>1, <1>3, <2>7, <2>8 DEF u, c
<1> QED
  BY <1>2, <1>4, <1>5

LEMMA StepFailsAdvanced ==
  ASSUME Inv, BoundaryInv, SuccessInv, OrderInv, NEW p \in Processes, StepFails(p)
  PROVE  Advanced(p)
<1> DEFINE r == run[p]
           u == Compensation(p)
           q == [r EXCEPT !.todo = u, !.undo = <<>>, !.failing = "yes"]
<1>1. /\ r.todo # <<>> /\ r.failing = "no" /\ run' = [run EXCEPT ![p] = q]
      /\ host' \in {host, Done(Head(r.todo), r)}
  <2>1. run \in [Processes -> Runs]
    BY DEF Inv, TypeOK
  <2>2. host' \in {host, Done(Head(r.todo), r)}
    BY DEF StepFails, Now
  <2>3. run' = [run EXCEPT ![p] = q]
    BY <2>1 DEF StepFails
  <2> QED
    BY <2>2, <2>3 DEF StepFails
<1>2. /\ r.todo \in Seq(Steps) /\ r \in Runs /\ host \in Hosts /\ Sequence(r.op, r.todo)
      /\ Head(r.todo) \in Steps
  BY <1>1, Underway
<1> HIDE DEF u
<1>3. q.todo = u /\ q.failing = "yes" /\ q.alone = r.alone /\ q.op = r.op /\ q.before = r.before
  BY <1>2 DEF Runs
<1> HIDE DEF q
<1>4. ASSUME Recovers(r, host), r.alone
      PROVE  \E b \in Hosts : Restorable(q, host', b)
  <2> DEFINE c == [run[p] EXCEPT !.undo = Compensation(p)]
  <2>1. /\ c.todo = r.todo /\ c.undo = u /\ c.op = r.op
        /\ c.before = r.before /\ c.failing = "no" /\ c.undo \in Seq(Steps)
        /\ \A id \in Identities : Has(c.todo, {Do("create", id)}) => Has(c.undo, {Do("drop", id)})
        /\ \E b \in Hosts : Restorable(c, host, b)
    BY <1>1, <1>4, CompensationRestorable DEF u
  <2> HIDE DEF c
  <2>2. PICK b \in Hosts : Restorable(c, host, b)
    BY <2>1
  <2>3. Restores(u, host', b)
    <3>1. Restores(u, host, b)
      BY <2>1, <2>2 DEF Restorable, Back
    <3>2. Restores(c.undo, Done(Head(c.todo), r), b)
      BY <1>1, <1>2, <2>1, <2>2, DoneRestores
    <3> QED
      BY <1>1, <2>1, <3>1, <3>2
  <2>4. host.releases[Mine] = "ours" => host'.releases[Mine] = "ours"
    <3>1. Mine \in Versions /\ "ours" # None
      BY Values DEF Versions
    <3> QED
      BY <3>1, StepFailsKeeps DEF Keeps, Safe
  <2> QED
    BY <1>3, <2>1, <2>2, <2>3, <2>4 DEF Restorable, Based, Back
<1>5. Orderly(q) /\ (Recovers(r, host) => Recovers(q, host'))
  BY <1>1, <1>3, <1>4 DEF Orderly, Recovers
<1> QED
  BY <1>1, <1>3, <1>5 DEF Advanced

LEMMA CompensateAdvanced ==
  ASSUME Inv, NEW p \in Processes, Compensate(p)
  PROVE  Advanced(p)
<1> DEFINE r == run[p]
           s == <<>>
           step == Head(r.todo)
<1>1. /\ r.todo # <<>> /\ r.failing # "no" /\ ~Impossible(step) /\ host' \in Outcomes(step)
      /\ Continue(p, s, <<>>)
  BY DEF Compensate, Now
<1>2. r.todo \in Seq(Backward) /\ step \in Backward /\ Tail(r.todo) \in Seq(Backward) /\ host \in Hosts
  BY <1>1, Ahead DEF Now, Inv, TypeOK
<1> HIDE DEF s
<1>3. PICK q : /\ run' = [run EXCEPT ![p] = q] /\ q.todo = s \o Tail(r.todo) /\ q.undo = <<>>
               /\ q.op = r.op /\ q.policy = r.policy /\ q.failing = r.failing
               /\ q.before = r.before /\ q.alone = r.alone
  BY <1>1, ContinueAll
<1>4. q.todo = Tail(r.todo)
  BY <1>2, <1>3, ConcatEmptySeq DEF s
<1>5. host'.releases = host.releases
  BY <1>1, <1>2, OutcomeRest
<1>6. ASSUME NEW b \in Hosts, Restorable(r, host, b)
      PROVE  Restorable(q, host', b)
  <2>1. Restores(r.todo, host, b)
    BY <1>1, <1>6 DEF Restorable, Back
  <2>2. Restores(Tail(r.todo), host', b)
    BY <1>1, <1>2, <2>1, RestoresNearer
  <2> QED
    BY <1>1, <1>3, <1>4, <1>5, <1>6, <2>2 DEF Restorable, Based, Back
<1>7. Orderly(q) /\ (Recovers(r, host) => Recovers(q, host'))
  BY <1>1, <1>3, <1>6 DEF Orderly, Recovers
<1> QED
  BY <1>3, <1>7 DEF Advanced

LEMMA CompensationFailsAdvanced ==
  ASSUME Inv, NEW p \in Processes, CompensationFails(p)
  PROVE  Advanced(p)
<1> DEFINE r == run[p]
           q == [r EXCEPT !.todo = Tail(@), !.failing = "badly"]
<1>1. run' = [run EXCEPT ![p] = q] /\ r \in Runs
  BY DEF CompensationFails, Inv, TypeOK
<1>2. q.failing = "badly" /\ q.alone = r.alone
  BY <1>1 DEF Runs
<1> HIDE DEF q
<1> QED
  BY <1>1, <1>2 DEF Advanced, Orderly, Recovers

-----------------------------------------------------------------------------
(* A plan *)

LEMMA PlanAdvanced ==
  ASSUME Inv, BoundaryInv, SuccessInv, OrderInv, Plan("installer")
  PROVE  Advanced("installer")
<1> DEFINE r == run["installer"]
           step == Head(r.todo)
           policy == step.on
           t == Tail(r.todo)
           s == Configuration(policy)
           e == Enclosing("installer", policy)
           x == HostUndo(policy)
           u == x \o e
           v == s \o t
           q == [r EXCEPT !.policy = policy, !.todo = v, !.undo = u]
<1>0. "installer" \in Processes
  BY DEF Processes
<1>1. /\ host' = host /\ r.failing = "no" /\ r.todo # <<>> /\ step.do = "plan"
      /\ run' = [run EXCEPT !["installer"] = q] /\ ~Refuses(policy, r.flag)
      /\ Compensation("installer") = e
  <2>1. run \in [Processes -> Runs]
    BY DEF Inv, TypeOK
  <2>2. run' = [run EXCEPT !["installer"] = q]
    BY <1>0, <2>1 DEF Plan, Now
  <2> QED
    BY <2>2 DEF Plan, Ready, Rejected, At, Now, Compensation
<1>2. /\ r.todo \in Seq(Steps) /\ t \in Seq(Steps) /\ r \in Runs /\ host \in Hosts /\ step \in Steps
      /\ \A A : Has(r.todo, A) <=> step \in A \/ Has(t, A)
      /\ Sequence(r.op, r.todo) /\ Sequence(r.op, t)
  BY <1>0, <1>1, Underway, SequenceTail
<1>3. policy \in Policies /\ step = Do("plan", policy) /\ step \notin Choosing /\ step \notin Creates
  <2>1. policy \in Policies /\ step = Do("plan", policy)
    BY <1>1, <1>2, StepFields DEF Of
  <2> QED
    BY <1>1, <2>1 DEF Choosing, Creates, Of, Do
<1>4. ~Has(t, Creates)
  <2>1. Ordered(r.op, r.todo)
    BY <1>1 DEF BoundaryInv, OursInv, Ours
  <2> QED
    BY <1>1, <1>2, <1>3, <2>1, OrderedTail
<1> HIDE DEF u, v, e, s, t, x, policy
<1>5. /\ q.todo = v /\ q.undo = u /\ q.policy = policy /\ q.op = r.op /\ q.failing = "no"
      /\ q.before = r.before /\ q.alone = r.alone
  BY <1>1, <1>2 DEF Runs
<1> HIDE DEF q
<1>6. /\ s \in Seq(Steps) /\ Sequence(r.op, s)
      /\ ~Has(s, Selecting) /\ ~Has(s, Choosing) /\ ~Has(s, Closing \cup {Do("plan", "full")})
      /\ ~Has(s, {Do("publish", "legacy-import")}) /\ \A y \in Entries : ~Has(s, {Do("entry", y)})
  <2>1. /\ s \in Seq(Creates \cup Writes \cup Finals)
    BY <1>3, ConfigurationShape DEF s
  <2>2. \A what, on : Do(what, on).do = what
    BY DEF Do
  <2>3. /\ (Creates \cup Writes \cup Finals) \cap {Do("publish", "legacy-import")} = {}
        /\ \A y : (Creates \cup Writes \cup Finals) \cap {Do("entry", y)} = {}
    BY <2>2 DEF Creates, Writes, Finals, Of
  <2>4. ~Has(s, {Do("publish", "legacy-import")}) /\ \A y \in Entries : ~Has(s, {Do("entry", y)})
    BY <2>1, <2>3, HasNone
  <2> QED
    BY <1>3, <2>4, ConfigurationSequence DEF s
<1>7. Sequence(q.op, q.todo)
  <2>1. ~Has(t, {Do("create", "operators")})
    <3>1. {Do("create", "operators")} \subseteq Creates
      BY StepKinds DEF Identities
    <3> QED
      BY <1>4, <3>1, HasMore
  <2>2. Sequence(r.op, s \o t)
    <3> HIDE DEF r
    <3> QED
      BY <1>2, <1>6, <2>1, SequenceJoined
  <2> QED
    BY <1>5, <2>2 DEF v
<1>8. Orderly(q)
  BY <1>3, <1>5, <1>7, Nothing DEF Orderly
<1>9. /\ Records(x, host) /\ x \in Seq(Steps) /\ Has(x, Timing)
      /\ \A f \in Files : Has(x, PutBacks(f))
  <2>1. Enrolled(host) /\ Staging \cap host.ids \in {{}, Staging}
    BY <1>1 DEF OrderInv, Refuses
  <2>2. Backing \subseteq Steps
    BY DEF Backing, Of, Drops
  <2> QED
    BY <1>2, <1>3, <2>1, <2>2, HostUndoRecords, HostUndoSettles, SeqMonotone DEF x
<1>10. ASSUME Recovers(r, host), r.alone
       PROVE  \E b \in Hosts : Restorable(q, host, b)
  <2> DEFINE c == [run["installer"] EXCEPT !.undo = Compensation("installer")]
  <2>1. /\ c.todo = r.todo /\ c.undo = e /\ c.op = r.op
        /\ c.before = r.before /\ c.failing = "no" /\ c.undo \in Seq(Steps)
        /\ \E b \in Hosts : Restorable(c, host, b)
    BY <1>0, <1>1, <1>10, CompensationRestorable
  <2> HIDE DEF c
  <2>2. PICK b \in Hosts : Restorable(c, host, b)
    BY <2>1
  <2>3. b.selector # None /\ Has(t, Selecting) => Has(e, Of("reselect")) \/ Has(t, Choosing)
    BY <1>2, <1>3, <2>1, <2>2 DEF Restorable, Covers
  <2>4. q.todo = s \o Tail(c.todo) /\ q.undo = x \o c.undo
    BY <1>5, <2>1 DEF u, v, t
  <2>5. b.selector # None /\ (Has(s, Selecting) \/ Has(Tail(c.todo), Selecting)) =>
           \/ Has(x, Of("reselect")) \/ Has(c.undo, Of("reselect"))
           \/ Has(s, Choosing) \/ Has(Tail(c.todo), Choosing)
    BY <1>6, <2>1, <2>3 DEF t
  <2>6. c.todo \in Seq(Steps) /\ c.todo # <<>> /\ q.op = c.op /\ q.before = c.before /\ q.failing = "no"
    BY <1>1, <1>2, <1>5, <2>1
  <2> HIDE DEF r
  <2> QED
    BY <1>2, <1>6, <1>9, <2>1, <2>2, <2>4, <2>5, <2>6, ScheduleRestorable
<1>11. Recovers(r, host) => Recovers(q, host')
  BY <1>1, <1>5, <1>10 DEF Recovers
<1> QED
  BY <1>1, <1>5, <1>8, <1>11 DEF Advanced

-----------------------------------------------------------------------------
(* Both processes *)

(* A member is enrolled with the operators' group only. *)
LEMMA DoneEnrolled ==
  ASSUME Inv, BoundaryInv, OrderInv, NEW p \in Processes, run[p].todo # <<>>, run[p].failing = "no"
  PROVE  Enrolled(Done(Head(run[p].todo), run[p]))
<1> DEFINE r == run[p]
           step == Head(r.todo)
           g == Done(step, r)
<1>1. /\ r.todo \in Seq(Steps) /\ step \in Steps /\ host \in Hosts /\ Sequence(r.op, r.todo)
      /\ \A A : Has(r.todo, A) <=> step \in A \/ Has(Tail(r.todo), A)
  BY Underway
<1>2. g.ids = IF step.do = "create" THEN host.ids \cup {step.on} ELSE host.ids
  BY <1>1, DoneFields
<1>3. CASE step = Do("create", "member")
  <2>1. p = "installer"
    <3>1. Do("create", "member").do = "create"
      BY DEF Do
    <3>2. CASE p = "manager"
      <4>1. r.todo \in Seq(Deploying)
        BY <3>2 DEF BoundaryInv, ManagerInv, Theirs
      <4>2. step \in Deploying
        BY <4>1, HeadTailProperties
      <4> QED
        BY <1>3, <3>1, <4>2 DEF Deploying
    <3> QED
      BY <3>2, Both
  <2>2. Progress(r, host)
    BY <2>1 DEF BoundaryInv, OursInv, Ours
  <2>3. r.policy # None
    <3>1. step \notin Of("plan")
      BY <1>3 DEF Of, Do
    <3> QED
      BY <2>2, <3>1 DEF Progress
  <2>4. "operators" \in host.ids \/ Has(r.todo, {Do("create", "operators")})
    BY <2>2, <2>3 DEF Progress, Wanted
  <2>5. ~Has(r.todo, {Do("create", "operators")})
    <3>1. step \notin {Do("create", "operators")}
      BY <1>3 DEF Do
    <3>2. ~Has(Tail(r.todo), {Do("create", "operators")})
      BY <1>1, <1>3, SequenceTail
    <3> QED
      BY <1>1, <3>1, <3>2
  <2> QED
    BY <1>2, <2>4, <2>5 DEF Enrolled
<1>4. CASE step # Do("create", "member")
  <2>1. step.do = "create" => step.on # "member"
    BY <1>1, <1>4, StepFields DEF Of, Creates
  <2> QED
    BY <1>2, <2>1 DEF OrderInv, Enrolled
<1> QED
  BY <1>3, <1>4

LEMMA OutcomeEnrolled ==
  ASSUME host \in Hosts, Enrolled(host), NEW step \in Backward, NEW g \in Outcomes(step)
  PROVE  Enrolled(g)
<1>1. CASE step.do = "drop"
  <2>1. Undone(step) = [host EXCEPT !.ids = @ \ Removed(step.on)]
    BY <1>1 DEF Undone
  <2>2. Undone(step).ids = host.ids \ Removed(step.on) /\ Undone(step) \in Hosts
    BY <2>1 DEF Hosts
  <2>3. g.ids = Undone(step).ids \/ g.ids = Undone(step).ids \ {"group"}
    BY <2>2 DEF Outcomes, Hosts
  <2> QED
    BY <2>2, <2>3 DEF Enrolled, Removed
<1>2. CASE step.do # "drop"
  BY <1>2, OutcomeFields DEF Enrolled
<1> QED
  BY <1>1, <1>2

LEMMA HalfwayEnrolled ==
  ASSUME Inv, Enrolled(host), NEW step \in Backward, NEW g \in Halfway(step), ~Impossible(step)
  PROVE  Enrolled(g)
<1> DEFINE u == Undone(step)
<1>0. host \in Hosts /\ u \in Outcomes(step)
  BY DEF Inv, TypeOK, Outcomes
<1>1. u \in Hosts /\ Enrolled(u)
  <2>1. step.do = "reselect" => host.releases[step.on] # None
    BY DEF Impossible
  <2> QED
    BY <1>0, <2>1, UndoneSafe, OutcomeEnrolled DEF Safe
<1> HIDE DEF u
<1>2. g = host \/ \E l \in {host.links, u.links}, a \in {host.active, u.active} :
                     g = [u EXCEPT !.links = l, !.active = a]
  BY DEF Halfway, u
<1>3. g.ids = host.ids \/ g.ids = u.ids
  BY <1>1, <1>2 DEF Hosts
<1> QED
  BY <1>1, <1>3 DEF Enrolled

LEMMA WorkingEnrolled ==
  ASSUME Inv, BoundaryInv, OrderInv, NEW p \in Processes, Working(p)
  PROVE  Enrolled(host')
<1>0. host \in Hosts /\ Enrolled(host)
  BY DEF Inv, TypeOK, OrderInv
<1>1. CASE Plan(p) \/ Snapshot(p) \/ Select(p) \/ Release(p)
  BY <1>0, <1>1 DEF Plan, Snapshot, Select, Release
<1>2. CASE Advance(p)
  <2>1. run[p].todo # <<>> /\ run[p].failing = "no" /\ host' = Done(Head(run[p].todo), run[p])
    BY <1>2 DEF Advance, Ready, At, Now
  <2> QED
    BY <2>1, DoneEnrolled
<1>3. CASE StepFails(p)
  <2>1. /\ run[p].todo # <<>> /\ run[p].failing = "no"
        /\ host' \in {host, Done(Head(run[p].todo), run[p])}
    BY <1>3 DEF StepFails, Now
  <2> QED
    BY <1>0, <2>1, DoneEnrolled
<1>4. CASE Compensate(p)
  <2>1. /\ Now(p) \in Backward /\ host' \in Outcomes(Now(p))
    BY <1>4, Ahead DEF Compensate
  <2> QED
    BY <1>0, <2>1, OutcomeEnrolled
<1>5. CASE CompensationFails(p)
  <2>1. Now(p) \in Backward
    BY <1>5, Ahead DEF CompensationFails
  <2>2. CASE Impossible(Now(p))
    <3>1. host' = host \/ host' = Undone(Now(p))
      BY <1>5, <2>2 DEF CompensationFails
    <3>2. Undone(Now(p)) \in Outcomes(Now(p))
      BY DEF Outcomes
    <3> QED
      BY <1>0, <2>1, <3>1, <3>2, OutcomeEnrolled
  <2>3. CASE ~Impossible(Now(p))
    <3>1. host' \in Halfway(Now(p))
      BY <1>5, <2>3 DEF CompensationFails
    <3> QED
      BY <1>0, <2>1, <2>3, <3>1, HalfwayEnrolled
  <2> QED
    BY <2>2, <2>3
<1> QED
  BY <1>1, <1>2, <1>3, <1>4, <1>5 DEF Working

LEMMA WorkingAdvanced ==
  ASSUME Inv, BoundaryInv, SuccessInv, OrderInv, NEW p \in Processes, Working(p), host' \in Hosts
  PROVE  Advanced(p)
<1>1. ASSUME Plan(p) PROVE p = "installer"
  <2> SUFFICES ASSUME p = "manager" PROVE FALSE
    BY Both
  <2>1. Theirs.todo # <<>> /\ Head(Theirs.todo).do = "plan" /\ run["manager"] = Theirs
    BY <1>1 DEF Plan, Ready, At, Now, Theirs
  <2> QED
    BY <2>1, TheirsFields DEF Deploying
<1> QED
  BY <1>1, PlanAdvanced, SnapshotAdvanced, SelectAdvanced, ReleaseAdvanced, AdvanceAdvanced,
     StepFailsAdvanced, CompensateAdvanced, CompensationFailsAdvanced DEF Working

LEMMA IdleOrderly == Orderly(Idle)
<1>1. /\ Idle.op = None /\ Idle.todo = <<>>
  BY DEF Idle
<1>2. Idle.op \notin Installing
  BY <1>1, NoneAssumption DEF Installing, Operations
<1> QED
  BY <1>1, <1>2, EmptySequence DEF Orderly

LEMMA BeginRestore ==
  ASSUME Inv, OrderInv, RestoreInv, NEW p \in Processes, NEW op \in Operations, NEW flag,
         NEW version \in Offered, Begin(p, op, flag, version)
  PROVE  OrderInv' /\ RestoreInv'
<1> DEFINE o == Other(p)
           r == Started(op, flag, version)
<1>1. /\ o \in Processes /\ o # p /\ \A x \in Processes : x = p \/ x = o
      /\ host' = host /\ run'[p] = r
      /\ run'[o] = [run[o] EXCEPT !.alone = (run[o] = Idle)]
  <2>1. o \in Processes /\ o # p /\ \A x \in Processes : x = p \/ x = o
    BY Both
  <2> HIDE DEF o
  <2> QED
    BY <2>1 DEF Begin
<1>2. Orderly(r) /\ Recovers(r, host) /\ host \in Hosts
  <2>1. host \in Hosts
    BY DEF Inv, TypeOK
  <2>2. /\ r.op = op /\ r.failing = "no" /\ Sequence(r.op, r.todo) /\ Restorable(r, host, host)
        /\ op \in Installing => Has(r.todo, {Do("plan", "bootstrap")})
    BY <2>1, StartedRestorable
  <2> HIDE DEF r
  <2> QED
    BY <2>1, <2>2 DEF Orderly, Recovers
<1> HIDE DEF r, o
<1>3. Orderly(run'[o]) /\ (run'[o] # Idle => Recovers(run'[o], host))
  <2>1. CASE run[o] = Idle
    <3>1. run'[o] = [Idle EXCEPT !.alone = TRUE]
      BY <1>1, <2>1
    <3>2. run'[o] = Idle
      BY <3>1 DEF Idle
    <3> QED
      BY <3>2, IdleOrderly
  <2>2. CASE run[o] # Idle
    <3> DEFINE q == run'[o]
               b == run[o] = Idle
    <3>1. run[o] \in Runs /\ q = [run[o] EXCEPT !.alone = b] /\ b = FALSE
      BY <1>1, <2>2 DEF Inv, TypeOK
    <3> HIDE DEF q, b
    <3>2. /\ q.op = run[o].op /\ q.alone = FALSE /\ q.todo = run[o].todo /\ q.policy = run[o].policy
          /\ q.failing = run[o].failing
      BY <3>1 DEF Runs
    <3>3. Orderly(q) /\ Recovers(q, host)
      BY <1>1, <3>2 DEF OrderInv, Orderly, Recovers
    <3> QED
      BY <3>3 DEF q
  <2> QED
    BY <2>1, <2>2
<1>4. \A x \in Processes : Orderly(run'[x]) /\ (run'[x] # Idle => Recovers(run'[x], host'))
  BY <1>1, <1>2, <1>3
<1> QED
  BY <1>1, <1>4 DEF OrderInv, RestoreInv

LEMMA WorkingRestore ==
  ASSUME Inv, BoundaryInv, SuccessInv, OrderInv, RestoreInv, NEW p \in Processes, Working(p),
         host' \in Hosts
  PROVE  OrderInv' /\ RestoreInv'
<1> DEFINE o == Other(p)
<1>1. PICK q : /\ run' = [run EXCEPT ![p] = q] /\ q.alone = run[p].alone /\ Orderly(q)
               /\ Recovers(run[p], host) => Recovers(q, host')
  BY WorkingAdvanced DEF Advanced
<1>2. run[p] # Idle /\ Enrolled(host')
  BY WorkingOnward, WorkingEnrolled DEF Onward
<1>3. /\ o \in Processes /\ o # p /\ Other(o) = p /\ \A x \in Processes : x = p \/ x = o
  BY Both
<1> HIDE DEF o
<1>4. run'[p] = q /\ run'[o] = run[o]
  BY <1>1, <1>3 DEF Inv, TypeOK
<1>5. run[o] # Idle => Recovers(run[o], host')
  <2>1. run[o] # Idle => ~run[o].alone
    BY <1>2, <1>3 DEF SuccessInv
  <2> QED
    BY <2>1 DEF Recovers
<1>6. Recovers(q, host')
  BY <1>1, <1>2 DEF RestoreInv
<1>7. \A x \in Processes : Orderly(run'[x]) /\ (run'[x] # Idle => Recovers(run'[x], host'))
  BY <1>1, <1>3, <1>4, <1>5, <1>6 DEF OrderInv
<1> QED
  BY <1>2, <1>7 DEF OrderInv, RestoreInv

LEMMA IdledRestore ==
  ASSUME OrderInv, RestoreInv, \A x \in Processes : run'[x] = Idle \/ run'[x] = run[x],
         host' = host \/ (host'.ids = host.ids /\ \A x \in Processes : run'[x] = Idle)
  PROVE  OrderInv' /\ RestoreInv'
<1>1. Enrolled(host')
  BY DEF OrderInv, Enrolled
<1>2. ASSUME NEW x \in Processes
      PROVE  Orderly(run'[x]) /\ (run'[x] # Idle => Recovers(run'[x], host'))
  BY IdleOrderly DEF OrderInv, RestoreInv
<1> QED
  BY <1>1, <1>2 DEF OrderInv, RestoreInv

LEMMA NextRestore ==
  ASSUME Inv, BoundaryInv, SuccessInv, OrderInv, RestoreInv, [Next]_vars
  PROVE  OrderInv' /\ RestoreInv'
<1>0. host' \in Hosts /\ host \in Hosts /\ run \in [Processes -> Runs]
  BY NextKeeps DEF Keeps, Safe, Inv, TypeOK
<1>1. CASE Configure \/ Install \/ Adopt \/ Upgrade \/ Update
  <2>1. "configure" \in Operations /\ "install" \in Operations /\ "adopt" \in Operations
        /\ "upgrade" \in Operations /\ "update" \in Operations
    BY DEF Operations
  <2>2. CASE Configure
    BY <2>1, <2>2, BeginRestore, Both DEF Configure, Offered
  <2>3. CASE Install
    BY <2>1, <2>3, BeginRestore, Both DEF Install, Offered
  <2>4. CASE Adopt
    BY <2>1, <2>4, BeginRestore, Both DEF Adopt, Offered
  <2>5. CASE Upgrade
    BY <2>1, <2>5, BeginRestore, Both DEF Upgrade, Offered
  <2>6. CASE Update
    <3>1. PICK version \in {Mine, Published} : Begin("manager", "update", FALSE, version)
      BY <2>6 DEF Update
    <3>2. "manager" \in Processes /\ version \in Offered
      BY Both DEF Offered
    <3> QED
      BY <2>1, <3>1, <3>2, BeginRestore
  <2> QED
    BY <1>1, <2>2, <2>3, <2>4, <2>5, <2>6
<1>2. CASE \E p \in Processes : Working(p)
  BY <1>0, <1>2, WorkingRestore
<1>3. CASE \E p \in Processes : Finish(p)
  BY <1>0, <1>3, IdledRestore DEF Finish
<1>4. CASE \E p \in Processes : Kill(p)
  BY <1>0, <1>4, IdledRestore DEF Kill, Killed
<1>5. CASE Reboot
  <2>1. \A x \in Processes : run'[x] = Idle
    BY <1>5 DEF Reboot, Quiet, Killed
  <2>2. host'.ids = host.ids
    BY <1>0, <1>5 DEF Reboot, Booted, Hosts
  <2> QED
    BY <2>1, <2>2, IdledRestore
<1>6. CASE UNCHANGED vars
  BY <1>6, IdledRestore DEF vars
<1> QED
  BY <1>1, <1>2, <1>3, <1>4, <1>5, <1>6 DEF Next, Working

LEMMA RestoreInvariance == Spec => [](Inv /\ BoundaryInv /\ SuccessInv /\ OrderInv /\ RestoreInv)
<1>1. Init => OrderInv /\ RestoreInv
  <2> SUFFICES ASSUME Init PROVE OrderInv /\ RestoreInv
    OBVIOUS
  <2>1. \A p \in Processes : run[p] = Idle
    BY DEF Init
  <2>2. host.ids = {} \/ host.ids = Identities
    <3>1. Bare.ids = {} /\ [Bare EXCEPT !.vpn = "foreign"].ids = {}
      BY DEF Bare
    <3>2. Legacy.ids = {}
      BY DEF Bare, Legacy
    <3>3. \A links, active, mine : Managed(links, active, mine).ids = Identities
      BY DEF Managed, Legacy, Bare
    <3>4. \/ host \in {Bare, [Bare EXCEPT !.vpn = "foreign"], Legacy}
          \/ \E links, active, mine : host = Managed(links, active, mine)
      BY DEF Init
    <3> QED
      BY <3>1, <3>2, <3>3, <3>4
  <2>3. Enrolled(host)
    BY <2>2 DEF Enrolled, Identities
  <2> QED
    BY <2>1, <2>3, IdleOrderly DEF OrderInv, RestoreInv
<1>2. OrderInv /\ RestoreInv /\ Inv /\ BoundaryInv /\ SuccessInv /\ [Next]_vars
        => OrderInv' /\ RestoreInv'
  BY NextRestore
<1> QED
  BY <1>1, <1>2, SuccessInvariance, PTL DEF Spec

(* A configure, install, adopt, upgrade or update that had the host to itself and
   reports a failure, its compensation complete, leaves accounts, policy files, the
   timer's state, entry points and the selected product as it found them, or, for
   install and adopt, a complete deployment and boundary (configure_host,
   _restore_managed_host_state, _rollback_identities,
   rollback_entrypoint_installation, upgrade_product). *)
THEOREM FailureAlwaysRestores == Spec => FailureRestores
<1> DEFINE Well(p) ==
             \/ Same(host', run[p].before)
             \/ /\ run[p].op \in {"install", "adopt"} /\ Deployed(host', Mine)
                /\ \E policy \in Policies : Boundary(host', policy)
<1>1. ASSUME Inv, BoundaryInv, SuccessInv, OrderInv, RestoreInv, [Next]_vars,
             NEW p \in Processes, Ends(p), run[p].alone, report' = "failed"
      PROVE  Well(p)
  <2> DEFINE r == run[p]
  <2>1. Finish(p)
    BY <1>1, EndsFinish
  <2>2. r.todo = <<>> /\ r.failing = "yes" /\ host' = host /\ r # Idle
    BY <1>1, <2>1 DEF Finish
  <2>3. PICK b \in Hosts : Restorable(r, host, b)
    BY <1>1, <2>2 DEF RestoreInv, Recovers
  <2>4. Based(r, host, b) /\ Restores(<<>>, host, b)
    BY <2>2, <2>3 DEF Restorable, Back
  <2>5. /\ \A f \in Files : host.files[f] = b.files[f]
        /\ \A e \in Entries : host.entries[e] = b.entries[e]
        /\ Timer(host) = Timer(b) /\ host.ids = b.ids
        /\ b.selector # None => Product(host) = Product(b)
    BY <2>4, Restored
  <2>6. host \in Hosts
    BY <1>1 DEF Inv, TypeOK
  <2>7. CASE b = r.before
    <3>1. host.files = b.files /\ host.entries = b.entries
      BY <2>5, <2>6 DEF Hosts
    <3> QED
      BY <2>2, <2>5, <2>7, <3>1 DEF Same
  <2>8. CASE /\ r.op \in Installing /\ Deployed(b, Mine) /\ host.releases[Mine] = "ours"
             /\ \E policy \in Policies : Boundary(b, policy)
    <3>1. b.selector = Mine /\ Mine # None /\ Mine # "plain" /\ Mine # "legacy-import"
      BY <2>8, DistinctReleases, NoneAssumption DEF Deployed, Versions
    <3>2. host.selector = Mine
      BY <2>5, <3>1 DEF Product
    <3>3. Deployed(host, Mine)
      BY <2>5, <2>8, <3>2 DEF Deployed
    <3>4. \E policy \in Policies : Boundary(host, policy)
      BY <2>5, <2>8 DEF Boundary
    <3> QED
      BY <2>2, <2>8, <3>3, <3>4 DEF Installing
  <2> QED
    BY <2>4, <2>7, <2>8 DEF Based
<1>2. Inv /\ BoundaryInv /\ SuccessInv /\ OrderInv /\ RestoreInv /\ [Next]_vars =>
        [\A p \in Processes : Ends(p) /\ run[p].alone /\ report' = "failed" => Well(p)]_vars
  BY <1>1
<1> QED
  BY <1>2, RestoreInvariance, PTL DEF Spec, FailureRestores
=============================================================================
