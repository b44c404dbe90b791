----------------------------- MODULE ClientState -----------------------------
(***************************************************************************)
(* The client lifecycle of awgctl (src/src/awgctl/core.py): fresh          *)
(* initialisation, migration, add, import, edit, revoke, rotate, expire,   *)
(* config set, backup and restore, and the server configuration commit     *)
(* they share.  A command is a program of durable steps; a step that fails *)
(* replaces what is left of it by the command's own compensation, and a    *)
(* killed command leaves whatever its steps had written.  Commands run one *)
(* at a time (the mutation lock and the systemd protocol are ServiceOp's   *)
(* subject); the calendar, the expiry timer and reboots do not wait.       *)
(***************************************************************************)
EXTENDS Naturals, Sequences, FiniteSets

CONSTANTS Names,        \* client names
          Expiring,     \* bound: the names that may carry an expiration date
          None,         \* absent file, client, date or backup; interface down
          Partial,      \* a client directory without metadata.json
          MaxDay,       \* bound: midnights that may pass; dates are 1..MaxDay
          MaxCommands,  \* bound: operator commands that change clients or settings
          MaxTroubles   \* bound: steps that fail and commands killed between two steps

ASSUME NamesAssumption ==
  IsFiniteSet(Names) /\ Names # {} /\ Expiring \subseteq Names
ASSUME BoundAssumption ==
  MaxDay \in Nat /\ MaxCommands \in Nat /\ MaxTroubles \in Nat

VARIABLES
  disk,      \* the managed files and /etc/amnezia/amneziawg/awg0.conf
  link,      \* the configuration the running interface holds, or None
  day,       \* the UTC date
  backup,    \* the backup an operator may still restore, or None
  doing,     \* the running command, or None
  todo,      \* its remaining steps
  report,    \* what the last command told the operator, until the next begins
  retired,   \* keys reported revoked, rotated out or expired, since the last restore
  wreck,     \* "none", "retry" (an interrupted expiry), "renewed" or "damaged"
  minted, commands, troubles

running == <<doing, todo>>
history == <<report, retired>>
budget  == <<minted, commands>>
vars    == <<disk, link, day, backup, running, history, wreck, budget, troubles>>

-----------------------------------------------------------------------------
(* Files and what is rendered from them *)

Days    == 0..MaxDay
Dates(n) == {None} \cup IF n \in Expiring THEN 1..MaxDay ELSE {}
Keys    == 1..(MaxCommands + 1)
Address == 1..Cardinality(Names)
Configs == [endpoint : {0, 1}, port : {0, 1}]
Peers   == [key : Keys, addr : Address]
Texts   == [port : {0, 1}, peers : SUBSET Peers]
Records == [key : Keys, addr : Address, state : {"active", "expired", "rotated"},
            expires : {None} \cup 1..MaxDay, managed : BOOLEAN, profile : Configs \cup {None}]
Disks   == [config : Configs \cup {None}, identity : BOOLEAN,
            meta : [Names -> Records \cup {None, Partial}], keys : [Names -> Keys \cup {None}],
            generated : Texts \cup {None}, runtime : Texts \cup {None}]

Ops   == {"initialize", "migrate", "add", "import", "revoke", "rotate",
          "endpoint", "port", "expire", "restore"}
Calls == [op : Ops, name : Names \cup {None}, record : Records \cup {None},
          goal : Configs \cup {None}, text : Texts \cup {None}, before : Disks, now : Days,
          active : BOOLEAN, back : BOOLEAN, committed : BOOLEAN,
          prior : [generated : Texts \cup {None}, runtime : Texts \cup {None}],
          placed : 0..4, displaced : 0..4]

ASSUME NoneAssumption ==
  /\ None \notin Texts /\ None \notin Calls /\ None \notin Records
  /\ None \notin Configs /\ None \notin Keys
  /\ Partial \notin Records /\ Partial # None

Described(meta) == {n \in Names : meta[n] \notin {None, Partial}}

(* effective_client_status, client_is_server_eligible *)
Expired(record, d) ==
  \/ record.state = "expired"
  \/ record.state = "active" /\ record.expires # None /\ record.expires <= d
Eligible(record, d) == record.state = "active" /\ ~Expired(record, d)

(* render_server_config: a peer for every client still eligible on day d.      *)
Render(config, meta, d) ==
  [port |-> config.port,
   peers |-> {[key |-> meta[n].key, addr |-> meta[n].addr] :
                n \in {m \in Described(meta) : Eligible(meta[m], d)}}]

(* load_clients(include_secrets=True) succeeds.                                *)
Loadable(d) ==
  /\ \A n \in Names : d.meta[n] # Partial
  /\ \A n \in Described(d.meta) :
       d.meta[n].state \in {"active", "expired"} /\ d.keys[n] = d.meta[n].key
  /\ \A m, n \in Described(d.meta) :
       m # n => d.meta[m].key # d.meta[n].key /\ d.meta[m].addr # d.meta[n].addr

Ready(d) == d.config # None /\ d.identity /\ Loadable(d)

NoDrift ==                                   \* ensure_no_drift
  /\ Ready(disk)
  /\ disk.generated = Render(disk.config, disk.meta, day)
  /\ disk.runtime = disk.generated

Lowest(S) == CHOOSE a \in S : \A b \in S : a <= b
Taken == {disk.meta[n].addr : n \in Described(disk.meta)}
FreeFromZero == Lowest((Address \cup {0}) \ Taken)   \* deviation: the network address is free
FreeAddress == Lowest(Address \ Taken)               \* next_client_address

(* validate_restore_stage: only a consistent backup whose server configuration *)
(* is what today's clock renders.                                               *)
Restorable(b) ==
  /\ b # None /\ Ready(b)
  /\ \A n \in Names : b.keys[n] = None <=> b.meta[n] = None
  /\ b.generated = Render(b.config, b.meta, day)
  /\ \A n \in Described(b.meta) : b.meta[n].managed => b.meta[n].profile = b.config

Peer(n) == [key |-> disk.meta[n].key, addr |-> disk.meta[n].addr]
LiveKeys == IF link = None THEN {} ELSE {p.key : p \in link.peers}

(* cmd_expire_clients: every client past its date, done with or not, and       *)
(* whether ensure_expiry_reconcilable accepts the server configuration.        *)
Selected == {n \in Described(disk.meta) : Expired(disk.meta[n], day)}
ReconcilableExactly ==                       \* deviation: no drift at all is accepted
  disk.generated = Render(disk.config, disk.meta, day)
Reconcilable ==
  LET expected == Render(disk.config, disk.meta, day)
  IN  \E peers \in {expected.peers, expected.peers \cup {Peer(n) : n \in Selected}} :
        disk.generated = [expected EXCEPT !.peers = peers]

-----------------------------------------------------------------------------
(* Programs *)

Steps ==
  {"config", "create", "describe", "unclient", "unkeys", "compare", "profiles", "mark",
   "render", "generated", "runtime", "act", "verify", "check", "recheck", "displace", "place",
   "oldruntime", "oldgenerated", "again", "halt", "reclient", "rekeys", "reactivate",
   "oldconfig", "oldmetadata", "unconfigure", "noruntime", "unplace", "putback"}

Commit == <<"render", "generated", "runtime", "act">>      \* commit_server_config
Swap   == <<"displace", "place", "displace", "place", "displace", "place", "displace", "place">>

Program(op) ==
  CASE op = "initialize" -> <<"config", "create", "describe">> \o Commit \o <<"verify">>
    [] op = "migrate"    -> <<"config", "create", "describe">> \o Commit \o <<"verify">>
    [] op = "add"        -> <<"create", "describe">> \o Commit \o <<"verify">>
    [] op = "import"     -> <<"unclient", "unkeys", "create", "describe", "compare">>
    [] op = "revoke"     -> Commit \o <<"verify", "unclient", "unkeys">>
    [] op = "rotate"     -> <<"unclient", "unkeys", "create", "describe">> \o Commit \o <<"verify">>
    [] op = "endpoint"   -> <<"config", "profiles", "generated", "runtime">>
    [] op = "port"       -> <<"config", "profiles", "generated", "runtime", "act">>
    [] op = "expire"     -> <<"mark">> \o Commit \o <<"check">>
    [] op = "restore"    -> Swap \o <<"runtime", "act", "verify">>

(* The except clauses, once the configuration commit is out of the way         *)
Cleanup(c) ==
  CASE c.op = "initialize" -> <<"halt", "unconfigure", "unclient", "unkeys", "noruntime">>
    [] c.op = "migrate"    -> <<"oldruntime", "again", "unconfigure", "unclient", "unkeys">>
    [] c.op = "add"        -> <<"unclient", "unkeys">>
    [] c.op = "import"     -> <<"unclient", "unkeys", "reclient", "rekeys">>
    [] c.op = "rotate"     -> <<"unclient", "unkeys", "reclient", "rekeys", "reactivate">>
    [] c.op = "revoke"     -> <<>>
    [] c.op \in {"endpoint", "port"} -> <<"oldconfig", "oldmetadata">>
    [] c.op = "expire"     -> IF c.committed THEN <<"halt">> ELSE <<"oldmetadata">>
    [] c.op = "restore"    -> [i \in 1..c.placed |-> "unplace"]
                                \o [i \in 1..c.displaced |-> "putback"]
                                \o <<"oldruntime", "again">>

UndoUncommitted(c) == Cleanup(c)             \* deviation: the commit is not taken back
Undo(c) ==
  IF c.committed /\ c.op \in {"add", "revoke", "rotate"} THEN Commit \o Cleanup(c) ELSE Cleanup(c)

-----------------------------------------------------------------------------
(* Commands begin *)

Note(how) == wreck' = IF wreck = "damaged" THEN wreck ELSE how

Command(op, n, record) ==
  [op |-> op, name |-> n, record |-> record, goal |-> disk.config, text |-> None,
   before |-> disk, now |-> day, active |-> link # None, back |-> FALSE, committed |-> FALSE,
   prior |-> [generated |-> disk.generated, runtime |-> disk.runtime],
   placed |-> 0, displaced |-> 0]

Start(command) ==
  /\ doing = None
  /\ doing' = command /\ todo' = Program(command.op) /\ report' = None
  /\ UNCHANGED <<disk, link, day, backup, retired, wreck, troubles>>

Operator(command, keys) ==
  /\ commands < MaxCommands /\ commands' = commands + 1
  /\ minted' = minted + keys
  /\ Start(command)

NewRecord(key, addr, date, profile) ==       \* write_client_state
  [key |-> key, addr |-> addr, state |-> "active", expires |-> date,
   managed |-> TRUE, profile |-> profile]

FirstConfig == [endpoint |-> 0, port |-> 0]
LegacyText  == [port |-> 0, peers |-> {[key |-> 1, addr |-> 1]}]

Initialize(n) ==
  /\ disk.config = None /\ disk.runtime = None
  /\ Operator([Command("initialize", n, NewRecord(minted + 1, 1, None, FirstConfig))
                 EXCEPT !.goal = FirstConfig, !.active = TRUE], 1)

Migrate(n) ==                                \* the profile is kept as the legacy file has it
  /\ disk.config = None /\ disk.runtime = LegacyText /\ 1 \in LiveKeys
  /\ Operator([Command("migrate", n, NewRecord(1, 1, None, None)) EXCEPT !.goal = FirstConfig], 0)

Add(n, date) ==
  /\ NoDrift /\ disk.meta[n] = None /\ disk.keys[n] = None
  /\ Operator(Command("add", n, NewRecord(minted + 1, FreeAddress, date, disk.config)), 1)

(* The profile file names the peer and may differ in wording from a rendered one. *)
Import(n, profile) ==
  /\ NoDrift /\ n \in Described(disk.meta) /\ ~disk.meta[n].managed
  /\ Peer(n) \in disk.generated.peers
  /\ Operator(Command("import", n,
       NewRecord(disk.meta[n].key, disk.meta[n].addr, disk.meta[n].expires, profile)), 0)

Revoke(n) ==
  /\ NoDrift /\ n \in Described(disk.meta)
  /\ Operator(Command("revoke", n, None), 0)

Rotate(n) ==
  /\ NoDrift /\ n \in Described(disk.meta) /\ disk.meta[n].managed
  /\ Operator(Command("rotate", n,
       NewRecord(minted + 1, disk.meta[n].addr, disk.meta[n].expires, disk.config)), 1)

(* config set: "endpoint" stands for endpoint and dns, "port" for listen-port  *)
(* and mtu; the new server text is rendered before anything is written.        *)
Configure(field) ==
  LET goal == [disk.config EXCEPT ![field] = 1 - @]
  IN  /\ NoDrift
      /\ Operator([Command(field, None, None)
                     EXCEPT !.goal = goal, !.text = Render(goal, disk.meta, day)], 0)

Expire ==
  /\ Ready(disk) /\ Selected # {}
  /\ disk.generated # None /\ disk.runtime = disk.generated /\ Reconcilable
  /\ Start(Command("expire", None, None))
  /\ UNCHANGED <<minted, commands>>

Restore ==
  /\ Restorable(backup)
  /\ Operator(Command("restore", None, None), 0)

(* client edit: one atomic write after the drift check.  Nothing renders the    *)
(* server again, so renewing a client whose date has passed, but which is not   *)
(* yet marked expired, leaves a drift that no command removes.                  *)
Edit(n, date) ==
  LET edited == [disk EXCEPT !.meta[n].expires = date]
  IN  /\ doing = None /\ commands < MaxCommands /\ commands' = commands + 1
      /\ NoDrift /\ n \in Described(disk.meta) /\ disk.meta[n].expires # date
      /\ disk' = edited
      /\ report' = [op |-> "edit", name |-> n, ok |-> TRUE]
      /\ IF Eligible(edited.meta[n], day) /\ ~Eligible(disk.meta[n], day)
         THEN Note("renewed") ELSE UNCHANGED wreck
      /\ UNCHANGED <<link, day, backup, running, retired, minted, troubles>>

(* create_backup, by itself or by the command that begins next.  Of the backups *)
(* kept under backups/ one that may still be restored is remembered.            *)
Backup ==
  /\ doing = None /\ Ready(disk)
  /\ backup' = [disk EXCEPT !.runtime = None]
  /\ UNCHANGED <<disk, link, day, running, history, wreck, budget, troubles>>

-----------------------------------------------------------------------------
(* Steps *)

At(step) == todo # <<>> /\ Head(todo) = step
Forth    == todo' = Tail(todo)
Stepping == UNCHANGED <<day, backup, history, budget>>

Write(d) ==                                  \* one durable write
  /\ disk' = d /\ Forth
  /\ UNCHANGED <<link, doing, wreck, troubles>> /\ Stepping

WriteConfig == At("config") /\ Write([disk EXCEPT !.config = doing.goal, !.identity = TRUE])

CreateClient ==                              \* directories and key files
  LET n == doing.name
  IN  /\ At("create") /\ disk.meta[n] = None /\ disk.keys[n] = None
      /\ Write([disk EXCEPT !.meta[n] = Partial, !.keys[n] = doing.record.key])

DescribeClient ==                            \* profile, QR code and metadata.json
  At("describe") /\ Write([disk EXCEPT !.meta[doing.name] = doing.record])

RemoveClient == At("unclient") /\ Write([disk EXCEPT !.meta[doing.name] = None])
RemoveKeys   == At("unkeys") /\ Write([disk EXCEPT !.keys[doing.name] = None])

CompareServer ==                             \* import changes no server peer
  /\ At("compare") /\ disk.generated = Render(disk.config, disk.meta, day)
  /\ Write(disk)

OutOfDate == {n \in Described(disk.meta) : disk.meta[n].managed /\ disk.meta[n].profile # doing.goal}
WriteProfiles ==                             \* of every managed client, one after the other
  /\ At("profiles")
  /\ \/ OutOfDate = {} /\ Write(disk)
     \/ \E n \in OutOfDate :
          /\ disk' = [disk EXCEPT !.meta[n].profile = doing.goal]
          /\ UNCHANGED <<link, running, wreck, troubles>> /\ Stepping

Due == {n \in Described(disk.meta) : disk.meta[n].state = "active" /\ Expired(disk.meta[n], doing.now)}
MarkExpired ==
  /\ At("mark")
  /\ \/ Due = {} /\ Write(disk)
     \/ \E n \in Due :
          /\ disk' = [disk EXCEPT !.meta[n].state = "expired"]
          /\ UNCHANGED <<link, running, wreck, troubles>> /\ Stepping

(* commit_server_config.  The text is rendered from the clients the command    *)
(* is about, forwards, and from those it found, when it takes the commit back. *)
Served ==
  IF doing.back THEN doing.before.meta
  ELSE CASE doing.op \in {"initialize", "migrate"} ->   \* the first client, whatever else is there
              [n \in Names |-> IF n = doing.name THEN doing.record ELSE None]
         [] doing.op = "revoke" -> [disk.meta EXCEPT ![doing.name] = None]
         [] OTHER -> disk.meta

RenderServer ==
  /\ At("render") /\ Forth
  /\ doing' = [doing EXCEPT
       !.text = Render(disk.config, Served, IF doing.op = "expire" THEN doing.now ELSE day),
       !.prior = [generated |-> disk.generated, runtime |-> disk.runtime]]
  /\ UNCHANGED <<disk, link, wreck, troubles>> /\ Stepping

WriteGenerated == At("generated") /\ Write([disk EXCEPT !.generated = doing.text])

WriteRuntime ==
  LET text == IF doing.op = "restore" THEN disk.generated ELSE doing.text
  IN  /\ At("runtime") /\ Forth
      /\ disk' = [disk EXCEPT !.runtime = text]
      /\ retired' = IF doing.op = "restore" THEN {} ELSE retired
      /\ UNCHANGED <<link, doing, wreck, troubles, day, backup, report, budget>>

Restarts == doing.op \in {"initialize", "port", "restore"}     \* otherwise a reload

Act ==                                       \* reload, restart or start, if the service was active
  /\ At("act") /\ Forth
  /\ link' = IF doing.active THEN disk.runtime ELSE link
  /\ doing' = [doing EXCEPT !.committed = TRUE]
  /\ UNCHANGED <<disk, wreck, troubles>> /\ Stepping

Fault == troubles < MaxTroubles /\ troubles' = troubles + 1

ActUnapplied ==                              \* systemctl succeeds, the interface is as before
  /\ At("act") /\ doing.active /\ ~Restarts /\ Fault /\ Forth
  /\ doing' = [doing EXCEPT !.committed = TRUE]
  /\ IF doing.back THEN Note("damaged") ELSE UNCHANGED wreck
  /\ UNCHANGED <<disk, link>> /\ Stepping

LinkAfterFailure == IF Restarts THEN {None} ELSE {link, disk.runtime}

ActFails ==
  /\ At("act") /\ doing.active /\ Fault
  /\ link' \in LinkAfterFailure
  /\ doing' = [doing EXCEPT !.back = TRUE]
  /\ todo' = IF doing.op \in {"initialize", "migrate", "restore"} THEN Cleanup(doing)
             ELSE <<"oldruntime", "oldgenerated", "again">>
                    \o (IF doing.back THEN Cleanup(doing) ELSE Undo(doing))
  /\ IF doing.back THEN Note("damaged") ELSE UNCHANGED wreck
  /\ UNCHANGED disk /\ Stepping

(* verify_peer_state and its likes ask the running interface.                  *)
VerifiedAnyhow == TRUE                       \* deviation: nothing is asked
Verified ==
  doing.active =>
    /\ doing.op \in {"initialize", "migrate", "add", "rotate"} => doing.record.key \in LiveKeys
    /\ doing.op \in {"revoke", "rotate"} => doing.before.meta[doing.name].key \notin LiveKeys

Verify == At("verify") /\ Verified /\ Write(disk)

(* cmd_expire_clients looks for the expired peers, commits once more if it     *)
(* finds any, and stops the service when that did not help either.             *)
Remaining ==
  {n \in Described(doing.before.meta) :
     Expired(doing.before.meta[n], doing.now) /\ doing.before.meta[n].key \in LiveKeys}

CheckExpired ==
  /\ At("check") \/ At("recheck")
  /\ todo' = IF Remaining = {} THEN <<>>
             ELSE IF At("check") THEN Commit \o <<"recheck">> ELSE <<"halt">>
  /\ doing' = [doing EXCEPT !.back = Remaining # {} /\ At("recheck")]
  /\ UNCHANGED <<disk, link, wreck, troubles>> /\ Stepping

(* restore_backup_transaction moves one component out and one in at a time.    *)
Components == <<"config", "keys", "clients", "generated">>
With(d, component, from) ==
  CASE component = "config"    -> [d EXCEPT !.config = from.config]
    [] component = "keys"      -> [d EXCEPT !.keys = from.keys, !.identity = from.identity]
    [] component = "clients"   -> [d EXCEPT !.meta = from.meta]
    [] component = "generated" -> [d EXCEPT !.generated = from.generated]
Nothing == [config |-> None, identity |-> FALSE, meta |-> [n \in Names |-> None],
            keys |-> [n \in Names |-> None], generated |-> None, runtime |-> None]

Displace ==
  /\ At("displace") /\ Forth
  /\ disk' = With(disk, Components[doing.displaced + 1], Nothing)
  /\ doing' = [doing EXCEPT !.displaced = @ + 1]
  /\ UNCHANGED <<link, wreck, troubles>> /\ Stepping

Place ==
  /\ At("place") /\ Forth
  /\ disk' = With(disk, Components[doing.placed + 1], backup)
  /\ doing' = [doing EXCEPT !.placed = @ + 1]
  /\ UNCHANGED <<link, wreck, troubles>> /\ Stepping

-----------------------------------------------------------------------------
(* Failure and compensation *)

Fallible == {"config", "create", "describe", "render", "generated", "runtime", "verify",
             "compare", "profiles", "mark", "displace", "place", "check", "recheck"}

Refused ==                                   \* a check of the code itself fails
  \/ At("verify") /\ ~Verified
  \/ At("compare") /\ disk.generated # Render(disk.config, disk.meta, day)
  \/ At("create") /\ ~(disk.meta[doing.name] = None /\ disk.keys[doing.name] = None)

(* The runtime file is written outside the try block of commit_server_config:  *)
(* when it fails, the generated file keeps the new text.                       *)
StepFails ==
  /\ todo # <<>> /\ Head(todo) \in Fallible
  /\ IF Refused THEN UNCHANGED troubles ELSE Fault
  /\ todo' = IF doing.back THEN Cleanup(doing) ELSE Undo(doing)
  /\ doing' = [doing EXCEPT !.back = TRUE]
  /\ IF \/ doing.back
        \/ /\ At("runtime") /\ disk.generated # disk.runtime
           /\ doing.op \notin {"initialize", "migrate", "restore"}
     THEN Note("damaged") ELSE UNCHANGED wreck
  /\ UNCHANGED <<disk, link>> /\ Stepping

OldRuntime   == At("oldruntime") /\ Write([disk EXCEPT !.runtime = doing.prior.runtime])
OldGenerated == At("oldgenerated") /\ Write([disk EXCEPT !.generated = doing.prior.generated])

Again ==                                     \* the compensating reload or restart
  /\ At("again") /\ Forth
  /\ link' = IF doing.active THEN disk.runtime ELSE link
  /\ UNCHANGED <<disk, doing, wreck, troubles>> /\ Stepping

AgainFails ==                                \* "ROLLBACK COULD NOT BE VERIFIED"
  /\ At("again") /\ doing.active /\ Fault /\ Forth
  /\ link' \in LinkAfterFailure
  /\ Note(IF doing.op = "expire" THEN "retry" ELSE "damaged")
  /\ UNCHANGED <<disk, doing>> /\ Stepping

Halt == At("halt") /\ link' = None /\ Forth /\ UNCHANGED <<disk, doing, wreck, troubles>> /\ Stepping

HaltFails ==
  /\ At("halt") /\ link # None /\ Fault /\ Forth
  /\ Note(IF doing.op = "expire" THEN "retry" ELSE "damaged")
  /\ UNCHANGED <<disk, link, doing>> /\ Stepping

ReturnClient ==                              \* from the temporary copy or the archive
  /\ At("reclient")
  /\ Write([disk EXCEPT !.meta[doing.name] = [doing.before.meta[doing.name] EXCEPT
              !.state = IF doing.op = "rotate" THEN "rotated" ELSE @]])
ReturnKeys == At("rekeys") /\ Write([disk EXCEPT !.keys[doing.name] = doing.before.keys[doing.name]])

KeepArchived == At("reactivate") /\ Write(disk)       \* deviation: the archive's state stays
(* restore_client_from_archive makes the client active whatever it was before. *)
Reactivate ==
  /\ At("reactivate") /\ Forth
  /\ disk' = [disk EXCEPT !.meta[doing.name].state = "active"]
  /\ IF doing.before.meta[doing.name].state = "expired" THEN Note("damaged") ELSE UNCHANGED wreck
  /\ UNCHANGED <<link, doing, troubles>> /\ Stepping

OldConfig   == At("oldconfig") /\ Write([disk EXCEPT !.config = doing.before.config])
OldMetadata == At("oldmetadata") /\ Write([disk EXCEPT !.meta = doing.before.meta])
Unconfigure == At("unconfigure") /\ Write([disk EXCEPT !.config = None, !.identity = FALSE, !.generated = None])
NoRuntime   == At("noruntime") /\ Write([disk EXCEPT !.runtime = None])

Unplace ==
  /\ At("unplace") /\ Forth
  /\ disk' = With(disk, Components[doing.placed], Nothing)
  /\ doing' = [doing EXCEPT !.placed = @ - 1]
  /\ UNCHANGED <<link, wreck, troubles>> /\ Stepping

PutBack ==
  /\ At("putback") /\ Forth
  /\ disk' = With(disk, Components[doing.displaced], doing.before)
  /\ doing' = [doing EXCEPT !.displaced = @ - 1]
  /\ UNCHANGED <<link, wreck, troubles>> /\ Stepping

-----------------------------------------------------------------------------
(* Ends, crashes, the service and the calendar *)

Ended == doing' = None /\ todo' = <<>>

Invalidated ==                               \* the keys a command reports as no longer accepted
  IF doing.back THEN {}
  ELSE IF doing.op \in {"revoke", "rotate"} THEN {doing.before.meta[doing.name].key}
  ELSE IF doing.op = "expire"
       THEN {doing.before.meta[n].key :
               n \in {m \in Described(doing.before.meta) : Expired(doing.before.meta[m], doing.now)}}
  ELSE {}

Finish ==
  /\ doing # None /\ todo = <<>> /\ Ended
  /\ report' = [op |-> doing.op, name |-> doing.name, ok |-> ~doing.back]
  /\ retired' = retired \cup Invalidated
  /\ wreck' = IF ~doing.back /\ (doing.op = "restore" \/ (doing.op = "expire" /\ wreck = "retry"))
              THEN "none" ELSE wreck
  /\ UNCHANGED <<disk, link, day, backup, budget, troubles>>

Boot == {None, disk.runtime}                 \* awg-quick@awg0 at boot, if it starts

Harmless == disk = doing.before /\ link' \in {None, disk.runtime}
Torn == disk.generated # disk.runtime

Crash ==                                     \* the process is killed, alone or with the host
  /\ doing # None /\ Fault
  /\ link' \in {link} \cup Boot /\ Ended
  /\ IF Harmless THEN UNCHANGED wreck
     ELSE Note(IF doing.op = "expire" /\ ~Torn THEN "retry" ELSE "damaged")
  /\ UNCHANGED <<disk, day, backup, history, budget>>

Idle == doing = None /\ UNCHANGED <<disk, day, backup, running, history, wreck, budget, troubles>>
Reboot       == Idle /\ link' \in Boot
ServiceStart == Idle /\ NoDrift /\ link' = disk.runtime
ServiceStop  == Idle /\ disk.config # None /\ link' = None

Midnight ==
  /\ day < MaxDay /\ day' = day + 1
  /\ UNCHANGED <<disk, link, backup, running, history, wreck, budget, troubles>>

-----------------------------------------------------------------------------
(* The system starts on a bare host, on one with a hand-made server, or as an  *)
(* earlier product left it: with one client, managed or known only by its key. *)
First(managed) ==
  [key |-> 1, addr |-> 1, state |-> "active", expires |-> None,
   managed |-> managed, profile |-> IF managed THEN FirstConfig ELSE None]

Init ==
  /\ \/ disk = Nothing /\ link = None /\ minted = 0
     \/ disk = [Nothing EXCEPT !.runtime = LegacyText] /\ link = LegacyText /\ minted = 1
     \/ \E n \in Names, managed \in BOOLEAN :
          /\ disk = [config |-> FirstConfig, identity |-> TRUE,
                     meta |-> [m \in Names |-> IF m = n THEN First(managed) ELSE None],
                     keys |-> [m \in Names |-> IF m = n THEN 1 ELSE None],
                     generated |-> LegacyText, runtime |-> LegacyText]
          /\ link = LegacyText /\ minted = 1
  /\ day = 0 /\ backup = None
  /\ doing = None /\ todo = <<>> /\ report = None /\ retired = {} /\ wreck = "none"
  /\ commands = 0 /\ troubles = 0

Step ==
  \/ WriteConfig \/ CreateClient \/ DescribeClient \/ RemoveClient \/ RemoveKeys
  \/ CompareServer \/ WriteProfiles \/ MarkExpired
  \/ RenderServer \/ WriteGenerated \/ WriteRuntime \/ Act \/ ActUnapplied \/ ActFails
  \/ Verify \/ CheckExpired \/ Displace \/ Place
  \/ StepFails \/ OldRuntime \/ OldGenerated \/ Again \/ AgainFails \/ Halt \/ HaltFails
  \/ ReturnClient \/ ReturnKeys \/ Reactivate \/ OldConfig \/ OldMetadata
  \/ Unconfigure \/ NoRuntime \/ Unplace \/ PutBack
  \/ Finish

Next ==
  \/ Step
  \/ \E n \in Names :
       \/ Initialize(n) \/ Migrate(n) \/ Revoke(n) \/ Rotate(n)
       \/ \E date \in Dates(n) : Add(n, date) \/ Edit(n, date)
       \/ \E profile \in {None, disk.config} : Import(n, profile)
  \/ \E field \in {"endpoint", "port"} : Configure(field)
  \/ Expire \/ Restore \/ Backup
  \/ Crash \/ Reboot \/ ServiceStart \/ ServiceStop \/ Midnight

(* A process that runs takes its next step, and amneziawg-client-expiry.timer  *)
(* elapses every day (Persistent=true).                                         *)
Fairness == WF_vars(Step) /\ WF_vars(Expire)

Spec     == Init /\ [][Next]_vars
FairSpec == Spec /\ Fairness

-----------------------------------------------------------------------------
(* Properties *)

(* Every variable keeps to its values: the fields of metadata.json, the       *)
(* components of the managed root and the steps a command is made of.         *)
TypeOK ==
  /\ disk \in Disks
  /\ link \in Texts \cup {None}
  /\ day \in Days
  /\ backup \in Disks \cup {None}
  /\ doing \in Calls \cup {None}
  /\ todo \in Seq(Steps) /\ (doing = None => todo = <<>>)
  /\ report \in [op : Ops \cup {"edit"}, name : Names \cup {None}, ok : BOOLEAN] \cup {None}
  /\ retired \subseteq Keys
  /\ wreck \in {"none", "retry", "renewed", "damaged"}
  /\ commands \in 0..MaxCommands /\ minted \in 0..(commands + 1)
  /\ troubles \in 0..MaxTroubles

(* A configuration lists every client to be served today, and nobody else but *)
(* clients that are not marked expired although their date has passed.        *)
Serves(text) ==
  LET now == Render(disk.config, disk.meta, day).peers
  IN  /\ text.port = disk.config.port
      /\ now \subseteq text.peers
      /\ text.peers \subseteq now \cup {Peer(n) : n \in {m \in Selected : disk.meta[m].state = "active"}}

(* Between commands, unless a crash or a failed compensation was reported,    *)
(* every record of who may connect agrees: metadata, keys, generated and      *)
(* runtime configuration, the profiles handed to clients and, if the service  *)
(* is up, the interface; a restore that reports success brings this back      *)
(* whatever happened before ("roll back on failure", ARCHITECTURE.md).  Only  *)
(* a date that passes makes a difference, which lasts until the timer acts.   *)
IdleConsistent ==
  doing = None /\ wreck = "none" =>
    IF disk.config = None
    THEN \A n \in Names : disk.meta[n] = None /\ disk.keys[n] = None
    ELSE /\ Ready(disk)
         /\ \A n \in Names : disk.keys[n] = None <=> disk.meta[n] = None
         /\ disk.runtime = disk.generated /\ Serves(disk.generated)
         /\ link # None => Serves(link)
         /\ \A n \in Described(disk.meta) :
              disk.meta[n].managed => disk.meta[n].profile \in {None, disk.config}

(* A key that a command reported as revoked, rotated out or expired is never  *)
(* accepted again, by no crash, failed command or reboot afterwards; only a   *)
(* restored backup can bring it back.                                         *)
RetiredStaysOut == LiveKeys \cap retired = {}

(* The daily timer always brings the host to where every expired client is    *)
(* out of the running interface and commands are accepted again, whatever     *)
(* fails or is killed on the way ("the installed daily timer performs the     *)
(* reconciliation", OPERATIONS.md).  Left out are files damaged by a crash or *)
(* an unverified compensation of another command, and a renewed client (Edit).*)
Reconciled ==
  \/ disk.config = None
  \/ NoDrift /\ \A n \in Selected : disk.meta[n].key \notin LiveKeys
ExpiryReconciles == []<>(Reconciled \/ wreck \in {"renewed", "damaged"})

(* What an operator sees of the files: the settings and the clients.          *)
Registered == [key : Keys, addr : Address, state : {"active", "expired", "rotated"},
               expires : {None} \cup 1..MaxDay, managed : BOOLEAN]
Registries == [config : Configs \cup {None}, clients : [Names -> Registered \cup {None}]]

ASSUME RegistryAssumption == None \notin Registered /\ Partial \notin Registries

View(d) ==
  [config |-> d.config,
   clients |-> [n \in Names |->
     IF n \notin Described(d.meta) THEN None
     ELSE [key |-> d.meta[n].key, addr |-> d.meta[n].addr, state |-> d.meta[n].state,
           expires |-> d.meta[n].expires, managed |-> d.meta[n].managed]]]

(* Every command is atomic as its exit status tells it: see ClientRegistry.   *)
Registry == INSTANCE ClientRegistry WITH
  Unknown <- Partial, report <- report,
  registry <- IF wreck = "damaged" THEN Partial
              ELSE View(IF doing = None THEN disk ELSE doing.before)
Implements == Registry!Spec
=============================================================================
