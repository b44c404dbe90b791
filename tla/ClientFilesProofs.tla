-------------------------- MODULE ClientFilesProofs --------------------------
(***************************************************************************)
(* Between commands the files, the profiles and the interface agree about  *)
(* who may connect: IdleConsistent of ClientState, for any number of       *)
(* clients, days, commands, failing steps and crashes.                     *)
(*                                                                         *)
(* IdleConsistent speaks of a host at rest only, so it is not inductive.   *)
(* FilesInv says besides what every command relied on when it began        *)
(* (BeforeInv) and, for each of its steps, forwards and backwards, what    *)
(* has become of the client at hand and of the settings (ClientsInv), of   *)
(* the two server configurations (TextInv) and of the interface (LinkInv); *)
(* a restore is told by the components it has moved (SwapInv).             *)
(*                                                                         *)
(* What these invariants say of the end of a command is also what makes    *)
(* its report true: ClientState implements ClientRegistry.                 *)
(***************************************************************************)
EXTENDS ClientProofs

-----------------------------------------------------------------------------
(* Who is listed for the server, and who may still be *)

(* The commands that refuse to begin with a configuration that has drifted, and *)
(* the expiry; of these, those that may have to take a commit back.             *)
Steady == {"add", "import", "revoke", "rotate", "endpoint", "port", "expire"}
Committers == {"add", "revoke", "rotate"}

(* The peer of a client, those of the clients to be served on day d, and those  *)
(* of the clients whose date has passed since the configuration was rendered;   *)
(* an interrupted expiry, or a renewal, may also leave one it has marked.       *)
Listed(meta, m) == [key |-> meta[m].key, addr |-> meta[m].addr]
Live(meta, d) == {Listed(meta, m) : m \in {x \in Described(meta) : Eligible(meta[x], d)}}
Gone(meta, d, w) ==
  {Listed(meta, m) : m \in {x \in Described(meta) :
     Expired(meta[x], d) /\ (w = "none" => meta[x].state = "active")}}

(* A configuration that names nobody else; one that names everyone to be served. *)
Inside(text, config, meta, d, w) ==
  /\ text # None /\ text \in Texts /\ text.port = config.port
  /\ text.peers \subseteq Live(meta, d) \cup Gone(meta, d, w)
Serving(text, config, meta, d, w) ==
  Inside(text, config, meta, d, w) /\ Live(meta, d) \subseteq text.peers

-----------------------------------------------------------------------------
(* A host at rest *)

(* The files of a server that is set up; the interface that belongs to them; a  *)
(* host without one.  w is the wreck, and today the day.                        *)
Paired(d) == \A m \in Names : d.keys[m] = None <=> d.meta[m] = None
Profiled(d) == \A m \in Described(d.meta) : d.meta[m].managed => d.meta[m].profile \in {None, d.config}
Good(d, w, today) ==
  /\ Ready(d) /\ Paired(d) /\ Profiled(d)
  /\ d.runtime = d.generated
  /\ Inside(d.generated, d.config, d.meta, today, w)
  /\ w # "renewed" => Live(d.meta, today) \subseteq d.generated.peers
Fits(l, d, w, today) ==
  l # None => Inside(l, d.config, d.meta, today, w) /\ Live(d.meta, today) \cap d.generated.peers \subseteq l.peers
Bare(d) == \A m \in Names : d.meta[m] = None /\ d.keys[m] = None
Sane(d, w, today) == IF d.config = None THEN Bare(d) ELSE Good(d, w, today)

RestInv == doing = None /\ wreck # "damaged" =>
  /\ Sane(disk, wreck, day)
  /\ IF disk.config = None THEN link \in {None, disk.runtime} ELSE Fits(link, disk, wreck, day)

-----------------------------------------------------------------------------
(* What a command found when it began, and what it is about to write *)

Keyed(meta, key) == \E m \in Described(meta) : meta[m].key = key

BeforeInv == doing # None =>
  LET b == doing.before
      n == doing.name
      r == doing.record
  IN  /\ wreck # "damaged" => Sane(b, wreck, day)
      /\ doing.op \in Steady =>
           /\ Ready(b) /\ b.runtime = b.generated /\ b.generated # None
           /\ Live(b.meta, day) \subseteq b.generated.peers
           /\ doing.op # "expire" => b.generated = Render(b.config, b.meta, doing.now)
      /\ doing.op \in {"initialize", "migrate"} => b.config = None /\ doing.goal = FirstConfig
      /\ doing.op = "initialize" => r = NewRecord(r.key, 1, None, FirstConfig) /\ doing.active /\ b.runtime = None
      /\ doing.op = "migrate" =>
           r = NewRecord(1, 1, None, None) /\ b.runtime = LegacyText /\ doing.active
      /\ doing.op = "add" =>
           /\ b.meta[n] = None /\ b.keys[n] = None /\ ~Keyed(b.meta, r.key)
           /\ \A m \in Described(b.meta) : b.meta[m].addr # r.addr
           /\ r = NewRecord(r.key, r.addr, r.expires, b.config)
      /\ doing.op = "import" =>
           /\ ~b.meta[n].managed /\ b.meta[n].state = "active"
           /\ r = NewRecord(b.meta[n].key, b.meta[n].addr, b.meta[n].expires, r.profile)
           /\ r.profile \in {None, b.config}
      /\ doing.op = "rotate" =>
           /\ b.meta[n].managed /\ ~Keyed(b.meta, r.key)
           /\ r = NewRecord(r.key, b.meta[n].addr, b.meta[n].expires, b.config)
      /\ doing.op \in {"endpoint", "port"} =>
           /\ doing.goal = [b.config EXCEPT ![doing.op] = 1 - @]
           /\ doing.text = Render(doing.goal, b.meta, doing.now)
      /\ doing.op = "restore" =>
           /\ Ready(backup) /\ Paired(backup) /\ Profiled(backup)
           /\ Serving(backup.generated, backup.config, backup.meta, day, "none")
      /\ doing.op = "restore" => doing.prior.runtime = b.runtime

(* The metadata a command makes of the metadata it found. *)
Marking(meta, d) == [m \in Names |->
  IF m \in Described(meta) /\ meta[m].state = "active" /\ Expired(meta[m], d)
  THEN [meta[m] EXCEPT !.state = "expired"] ELSE meta[m]]
Profiling(meta, config) == [m \in Names |->
  IF m \in Described(meta) /\ meta[m].managed THEN [meta[m] EXCEPT !.profile = config] ELSE meta[m]]
Target(c) ==
  CASE c.op \in {"initialize", "migrate"} -> [m \in Names |-> IF m = c.name THEN c.record ELSE None]
    [] c.op \in {"add", "import", "rotate"} -> [c.before.meta EXCEPT ![c.name] = c.record]
    [] c.op = "revoke" -> [c.before.meta EXCEPT ![c.name] = None]
    [] c.op \in {"endpoint", "port"} -> Profiling(c.before.meta, c.goal)
    [] c.op = "expire" -> Marking(c.before.meta, c.now)
    [] OTHER -> c.before.meta

-----------------------------------------------------------------------------
(* The clients, step by step *)

(* The metadata and the key of the client at hand, and what is returned of it.  *)
Own(m, k) == disk.meta[doing.name] = m /\ disk.keys[doing.name] = k
Returned(c) == [c.before.meta[c.name] EXCEPT !.state = IF c.op = "rotate" THEN "rotated" ELSE @]

MakingInv ==
  LET b == doing.before
      n == doing.name
      r == doing.record
  IN  /\ ~doing.back =>
           /\ Now = "unclient" => Own(b.meta[n], b.keys[n])
           /\ Now = "unkeys" => Own(None, b.keys[n])
           /\ Now \in {"config", "create"} => Own(None, None)
           /\ Now = "describe" => Own(Partial, r.key)
           /\ Now \notin {"unclient", "unkeys", "config", "create", "describe"} => Own(r, r.key)
      /\ doing.back =>
           /\ Now = "unkeys" => disk.meta[n] = None
           /\ Now = "reclient" => Own(None, None)
           /\ Now = "rekeys" => Own(Returned(doing), None)
           /\ Now = "reactivate" => Own(Returned(doing), b.keys[n])
           /\ Now \in {"noruntime", "end"} => Own(b.meta[n], b.keys[n])

ClientsInv == doing # None /\ wreck # "damaged" =>
  LET b == doing.before
      n == doing.name
  IN  /\ doing.op \in {"initialize", "migrate", "add", "import", "rotate", "revoke"} =>
           \A m \in Names \ {n} : disk.meta[m] = b.meta[m] /\ disk.keys[m] = b.keys[m]
      /\ doing.op \in {"add", "import", "rotate", "revoke"} =>
           disk.config = b.config /\ disk.identity = b.identity
      /\ doing.op \in Making => MakingInv
      /\ doing.op \in {"initialize", "migrate"} =>
           /\ ~doing.back /\ Now # "config" => disk.config = doing.goal /\ disk.identity
           /\ doing.back /\ Now \in {"unclient", "unkeys", "noruntime", "end"} => disk.config = None
      /\ doing.op = "revoke" =>
           /\ doing.back \/ Now \notin {"unkeys", "end"} => Own(b.meta[n], b.keys[n])
           /\ ~doing.back /\ Now = "unkeys" => Own(None, b.keys[n])
           /\ ~doing.back /\ Now = "end" => Own(None, None)
      /\ doing.op \in {"endpoint", "port"} =>
           /\ disk.keys = b.keys /\ disk.identity = b.identity
           /\ \A m \in Names : disk.meta[m] \in {b.meta[m], Target(doing)[m]}
           /\ ~doing.back => /\ Now = "config" => disk.config = b.config /\ disk.meta = b.meta
                             /\ Now # "config" => disk.config = doing.goal
                             /\ Now \notin {"config", "profiles"} => disk.meta = Target(doing)
           /\ doing.back => /\ Now \in {"oldmetadata", "end"} => disk.config = b.config
                            /\ Now = "end" => disk.meta = b.meta
      /\ doing.op = "expire" =>
           /\ disk.keys = b.keys /\ disk.identity = b.identity /\ disk.config = b.config
           /\ \A m \in Names : disk.meta[m] \in {b.meta[m], Target(doing)[m]}
           /\ doing.committed \/ (~doing.back /\ Now # "mark") => disk.meta = Target(doing)
           /\ doing.back /\ ~doing.committed /\ Now = "end" => disk.meta = b.meta

-----------------------------------------------------------------------------
(* The two server configurations, step by step *)

Rendered(text, config, meta) == \E d \in doing.now..day : text = Render(config, meta, d)
Pair(g, r) == disk.generated = g /\ disk.runtime = r

(* Backwards, the steps after the commit; forwards, those after the files.      *)
Settling == {"unclient", "unkeys", "reclient", "rekeys", "reactivate", "oldconfig", "oldmetadata", "end"}
Late ==
  \/ Now \in {"act", "verify", "end"}
  \/ doing.op = "revoke" /\ Now \in {"unclient", "unkeys"}
GoalConfig(c) == IF c.op \in {"initialize", "migrate", "endpoint", "port"} THEN c.goal ELSE c.before.config

(* The configuration an expiry commits, and the one it found or has committed   *)
(* already when it commits once more.                                           *)
Newest == Render(doing.before.config, doing.before.meta, doing.now)
Standing == IF doing.op = "expire" /\ doing.committed THEN Newest ELSE doing.before.generated

(* The commands that render for a change of their own, and what is set aside.   *)
Rendering == {"initialize", "migrate", "add", "revoke", "rotate", "endpoint", "port"}
Found == [generated |-> doing.before.generated, runtime |-> doing.before.runtime]
Stood == [generated |-> Standing, runtime |-> Standing]

ForthTexts == doing.op \in Rendering /\ ~doing.back =>
  LET b == doing.before
      T == doing.text
  IN  /\ Now # "runtime" /\ ~Late => Pair(b.generated, b.runtime)
      /\ Now = "runtime" => Pair(T, b.runtime)
      /\ Late => Pair(T, T)
      /\ Now \in {"generated", "runtime"} \/ Late => Rendered(T, GoalConfig(doing), Target(doing))
      /\ doing.prior = Found

BackTexts == doing.op \in {"add", "revoke", "rotate", "endpoint", "port"} /\ doing.back =>
  LET b == doing.before
      T == doing.text
  IN  /\ Now \in {"oldruntime", "oldgenerated"} => doing.prior = Found
      /\ Now = "oldgenerated" => disk.runtime = b.runtime
      /\ Now = "again" => Pair(b.generated, b.runtime)
      /\ Now \in {"generated", "runtime", "act"} => Rendered(T, b.config, b.meta)
      /\ Now = "runtime" => disk.generated = T
      /\ Now = "act" => Pair(T, T)
      /\ Now \in Settling =>
           disk.runtime = disk.generated /\ Serving(disk.generated, b.config, b.meta, day, wreck)

SetupTexts ==
  LET b == doing.before
  IN  /\ doing.op = "import" => Pair(b.generated, b.runtime)
      /\ doing.op = "initialize" /\ doing.back /\ Now = "end" => disk.runtime = None
      /\ doing.op = "migrate" => doing.prior.runtime = b.runtime
      /\ doing.op = "migrate" /\ doing.back /\ Now # "oldruntime" => disk.runtime = b.runtime

ExpiryTexts == doing.op = "expire" =>
  /\ ~doing.back =>
       /\ Now \in {"mark", "render", "generated"} => Pair(Standing, Standing)
       /\ Now \in {"generated", "runtime"} => doing.text = Newest /\ doing.prior = Stood
       /\ Now = "runtime" => Pair(Newest, Standing)
       /\ Now \in {"act", "check", "recheck", "end"} => Pair(Newest, Newest)
       /\ Now = "act" => doing.prior = Stood
       /\ Now \in {"check", "recheck", "end"} => doing.committed
  /\ doing.back =>
       /\ Now = "oldruntime" => disk.generated = Newest
       /\ Now = "oldgenerated" => Pair(Newest, Standing)
       /\ Now \in {"oldruntime", "oldgenerated"} => doing.prior = Stood
       /\ Now \in {"again", "oldmetadata", "halt", "end"} => Pair(Standing, Standing)

TextInv == doing # None /\ wreck # "damaged" => ForthTexts /\ BackTexts /\ SetupTexts /\ ExpiryTexts

-----------------------------------------------------------------------------
(* The interface, step by step *)

(* As the command found it, and as it commits it.                               *)
Old == link # None => Serving(link, doing.before.config, doing.before.meta, day, wreck)
Put == link \in {None, doing.text}

KeptLink == doing.op \in {"import", "endpoint", "expire"} =>
  /\ Old
  /\ doing.op = "expire" /\ doing.back /\ doing.committed /\ Now = "end" =>
       link = None \/ wreck # "none"

MovedLink ==
  /\ doing.op \in {"add", "revoke", "rotate", "port"} =>
       /\ ~doing.back =>
            /\ Now = "act" \/ ~Late => Old
            /\ doing.op # "revoke" /\ Now = "end" => Put
            /\ Now # "act" /\ Late => Old \/ Put
       /\ doing.back /\ Now \in Settling => Old
  /\ doing.op \in Committers /\ ~doing.back /\ Now # "act" /\ Late => doing.committed

SetupLink ==
  /\ doing.op = "initialize" =>
       /\ ~doing.back /\ Now \in {"verify", "end"} => link = doing.text
       /\ doing.back /\ Now # "halt" => link = None
  /\ doing.op = "migrate" =>
       /\ ~doing.back => link = LegacyText
       /\ doing.back /\ Now \notin {"oldruntime", "again"} => link \in {None, doing.before.runtime}

LinkInv == doing # None /\ wreck # "damaged" => KeptLink /\ MovedLink /\ SetupLink

-----------------------------------------------------------------------------
(* The restore, which moves one component out and one in at a time *)

Held(i) == IF i <= doing.placed THEN backup ELSE IF i <= doing.displaced THEN Nothing ELSE doing.before
Swapped ==
  /\ disk.config = Held(1).config
  /\ disk.keys = Held(2).keys /\ disk.identity = Held(2).identity
  /\ disk.meta = Held(3).meta
  /\ disk.generated = Held(4).generated
SwapInv == doing # None /\ doing.op = "restore" =>
  /\ doing.placed <= doing.displaced /\ Swapped
  /\ ~doing.back /\ Now \in {"act", "verify", "end"} => disk.runtime = disk.generated
  /\ ~doing.back /\ Now \in {"verify", "end"} => link \in {None, disk.runtime}
  /\ doing.back /\ Now \in {"again", "end"} => disk.runtime = doing.before.runtime
  /\ doing.back /\ Now = "end" /\ wreck # "damaged" => link \in {None, disk.runtime}

-----------------------------------------------------------------------------
(* The way back of an expiry: a committed one stops the service, the other takes *)
(* its marks back.                                                              *)
ExpiryWay(committed) ==
  Retracting \cup (IF committed THEN {<<"again", "halt">>, <<"halt", "end">>}
                   ELSE {<<"again", "oldmetadata">>, <<"oldmetadata", "end">>})
ExpireFlow == doing # None /\ wreck # "damaged" /\ doing.op = "expire" /\ doing.back =>
  PathTo(todo, ExpiryWay(doing.committed), "end")
-----------------------------------------------------------------------------
(* Texts and the days that pass *)

LEMMA RenderLists ==
  ASSUME NEW config, NEW meta, NEW d
  PROVE  /\ Render(config, meta, d).peers = Live(meta, d)
         /\ Render(config, meta, d).port = config.port
  BY DEF Render, Live, Listed

(* A client is served until its date and stale from then on; a wreck only       *)
(* widens what may be stale.                                                    *)
Wider(w, v) == v = "none" => w = "none"

LEMMA LaterClients ==
  ASSUME NEW meta \in Metas, NEW d \in Days, NEW e \in Days, d <= e, NEW w, NEW v, Wider(w, v)
  PROVE  /\ Live(meta, e) \subseteq Live(meta, d)
         /\ Live(meta, d) \subseteq Live(meta, e) \cup Gone(meta, e, v)
         /\ Gone(meta, d, w) \subseteq Gone(meta, e, v)
<1>1. ASSUME NEW n \in Described(meta)
      PROVE  /\ Eligible(meta[n], e) => Eligible(meta[n], d)
             /\ Expired(meta[n], d) => Expired(meta[n], e)
             /\ Eligible(meta[n], d) /\ ~Eligible(meta[n], e) =>
                  Expired(meta[n], e) /\ meta[n].state = "active"
  <2>1. meta[n] \in Records
    BY DescribedRecords
  <2>2. d \in Nat /\ e \in Nat
    BY BoundAssumption DEF Days
  <2>3. meta[n].expires # None => meta[n].expires \in Nat
    BY <2>1 DEF Records
  <2> QED BY <2>2, <2>3 DEF Eligible, Expired
<1>2. Live(meta, e) \subseteq Live(meta, d)
  BY <1>1 DEF Live
<1>3. Live(meta, d) \subseteq Live(meta, e) \cup Gone(meta, e, v)
  BY <1>1 DEF Live, Gone
<1>4. Gone(meta, d, w) \subseteq Gone(meta, e, v)
  BY <1>1 DEF Gone, Wider
<1> QED BY <1>2, <1>3, <1>4

LEMMA InsideLater ==
  ASSUME NEW meta \in Metas, NEW d \in Days, NEW e \in Days, d <= e, NEW w, NEW v, Wider(w, v),
         NEW text, NEW config
  PROVE  /\ Inside(text, config, meta, d, w) => Inside(text, config, meta, e, v)
         /\ Serving(text, config, meta, d, w) => Serving(text, config, meta, e, v)
<1>1. /\ Live(meta, e) \subseteq Live(meta, d)
      /\ Live(meta, d) \subseteq Live(meta, e) \cup Gone(meta, e, v)
      /\ Gone(meta, d, w) \subseteq Gone(meta, e, v)
  BY LaterClients
<1>2. Inside(text, config, meta, d, w) => Inside(text, config, meta, e, v)
  BY <1>1 DEF Inside
<1> QED BY <1>1, <1>2 DEF Serving

LEMMA RenderServes ==
  ASSUME NEW config \in Configs, NEW meta \in Metas, NEW d \in Days, NEW e \in Days, d <= e, NEW w
  PROVE  Serving(Render(config, meta, d), config, meta, e, w)
<1>1. /\ Live(meta, e) \subseteq Live(meta, d)
      /\ Live(meta, d) \subseteq Live(meta, e) \cup Gone(meta, e, w)
  BY LaterClients DEF Wider
<1>2. Render(config, meta, d) \in Texts /\ Render(config, meta, d) # None
  BY RenderTyped, NoneAssumption DEF NoneAssumption
<1> QED BY <1>1, <1>2, RenderLists DEF Serving, Inside

LEMMA SaneLater ==
  ASSUME NEW x \in Disks, NEW d \in Days, NEW e \in Days, d <= e, NEW w, NEW v, Wider(w, v),
         Sane(x, w, d),
         w = "renewed" /\ v # "renewed" /\ x.config # None => Live(x.meta, d) \subseteq x.generated.peers
  PROVE  Sane(x, v, e)
<1>1. CASE x.config = None
  BY <1>1 DEF Sane
<1>2. CASE x.config # None
  <2>1. x.meta \in Metas
    BY DEF Disks, Metas
  <2>2. Good(x, w, d)
    BY <1>2 DEF Sane
  <2>3. Inside(x.generated, x.config, x.meta, e, v)
    BY <2>1, <2>2, InsideLater DEF Good
  <2>4. Live(x.meta, e) \subseteq Live(x.meta, d)
    BY <2>1, LaterClients
  <2>5. v # "renewed" => Live(x.meta, e) \subseteq x.generated.peers
    BY <1>2, <2>2, <2>4 DEF Good
  <2> QED BY <1>2, <2>2, <2>3, <2>5 DEF Sane, Good
<1> QED BY <1>1, <1>2

-----------------------------------------------------------------------------
(* What a step of a command other than restore does *)

Applied == IF doing.active THEN disk.runtime ELSE link

(* The step at hand succeeds: what it writes, tells the command and the         *)
(* interface, and what it was sure of.                                          *)
Wrote ==
  LET n == doing.name
      b == doing.before
  IN  /\ disk'.config = CASE Now = "config" -> doing.goal
                          [] Now = "oldconfig" -> b.config
                          [] Now = "unconfigure" -> None
                          [] OTHER -> disk.config
      /\ disk'.identity = CASE Now = "config" -> TRUE
                            [] Now = "unconfigure" -> FALSE
                            [] OTHER -> disk.identity
      /\ disk'.keys = CASE Now = "create" -> [disk.keys EXCEPT ![n] = doing.record.key]
                        [] Now = "unkeys" -> [disk.keys EXCEPT ![n] = None]
                        [] Now = "rekeys" -> [disk.keys EXCEPT ![n] = b.keys[n]]
                        [] OTHER -> disk.keys
      /\ disk'.meta = CASE Now = "create" -> [disk.meta EXCEPT ![n] = Partial]
                        [] Now = "describe" -> [disk.meta EXCEPT ![n] = doing.record]
                        [] Now = "unclient" -> [disk.meta EXCEPT ![n] = None]
                        [] Now = "reclient" -> [disk.meta EXCEPT ![n] = Returned(doing)]
                        [] Now = "reactivate" -> [disk.meta EXCEPT ![n].state = "active"]
                        [] Now = "oldmetadata" -> b.meta
                        [] OTHER -> disk.meta
      /\ disk'.generated = CASE Now = "generated" -> doing.text
                             [] Now = "oldgenerated" -> doing.prior.generated
                             [] Now = "unconfigure" -> None
                             [] OTHER -> disk.generated
      /\ disk'.runtime = CASE Now = "runtime" -> doing.text
                           [] Now = "oldruntime" -> doing.prior.runtime
                           [] Now = "noruntime" -> None
                           [] OTHER -> disk.runtime

Told ==
  /\ doing'.committed = (doing.committed \/ Now = "act")
  /\ Now # "render" => doing'.text = doing.text /\ doing'.prior = doing.prior
  /\ Now = "render" =>
       /\ doing'.text = Render(disk.config, Served, IF doing.op = "expire" THEN doing.now ELSE day)
       /\ doing'.prior = [generated |-> disk.generated, runtime |-> disk.runtime]

Linked ==
  /\ Now \notin {"act", "again", "halt"} => link' = link
  /\ Now = "act" =>
       \/ link' = Applied
       \/ link' = link /\ doing.active /\ ~Restarts /\ (doing.back => wreck' = "damaged")
  /\ wreck' # "damaged" =>
       /\ Now \notin {"again", "halt"} => wreck' = wreck
       /\ Now = "again" =>
            \/ link' = Applied /\ wreck' = wreck
            \/ doing.op = "expire" /\ wreck' = "retry" /\ link' \in {link, disk.runtime}
       /\ Now = "halt" =>
            \/ link' = None /\ wreck' = wreck
            \/ doing.op = "expire" /\ wreck' = "retry" /\ link' = link
  /\ wreck = "damaged" => wreck' = "damaged"

Checked ==
  /\ Now = "create" => disk.meta[doing.name] = None /\ disk.keys[doing.name] = None
  /\ Now = "profiles" => OutOfDate = {}
  /\ Now = "mark" => Due = {}
  /\ Now = "verify" => Verified
  /\ Now = "reactivate" /\ wreck' # "damaged" => doing.before.meta[doing.name].state # "expired"
  /\ Now \notin {"check", "recheck"}

Passes ==
  /\ doing'.back = doing.back /\ <<Now, Now'>> \in Edges(doing.op, doing.back)
  /\ Wrote /\ Told /\ Linked /\ Checked

(* It fails. *)
Failing ==
  IF Now = "act" /\ doing.op \notin {"initialize", "migrate"} THEN "oldruntime"
  ELSE IF doing.committed /\ doing.op \in Committers THEN "render" ELSE Mending(doing)

Fails ==
  /\ doing'.back /\ disk' = disk
  /\ doing'.text = doing.text /\ doing'.prior = doing.prior /\ doing'.committed = doing.committed
  /\ Now \in Fallible \cup {"act"}
  /\ Now # "act" => link' = link
  /\ Now = "act" => doing.active /\ link' \in LinkAfterFailure
  /\ wreck = "damaged" => wreck' = "damaged"
  /\ doing.back => wreck' = "damaged"
  /\ Now = "runtime" /\ Torn /\ doing.op \notin {"initialize", "migrate"} => wreck' = "damaged"
  /\ wreck' # "damaged" => wreck' = wreck
  /\ ~doing.back => Now' = Failing

(* It goes through some of the clients, or looks for the expired ones. *)
Still == doing' = doing /\ Now' = Now /\ link' = link /\ wreck' = wreck
Profiles ==
  /\ Still /\ Now = "profiles"
  /\ \E n \in OutOfDate : disk' = [disk EXCEPT !.meta[n].profile = doing.goal]
Marks ==
  /\ Still /\ Now = "mark"
  /\ \E n \in Due : disk' = [disk EXCEPT !.meta[n].state = "expired"]
Checks ==
  /\ disk' = disk /\ link' = link /\ wreck' = wreck /\ Now \in {"check", "recheck"}
  /\ doing'.text = doing.text /\ doing'.prior = doing.prior /\ doing'.committed = doing.committed
  /\ \/ Remaining = {} /\ ~doing'.back /\ Now' = "end"
     \/ Remaining # {} /\ ~doing'.back /\ Now = "check" /\ Now' = "render"
     \/ Remaining # {} /\ doing'.back /\ Now = "recheck" /\ Now' = "halt"

LEMMA GoalFrame ==
  ASSUME TypeInv, Going
  PROVE  Frame /\ doing'.goal = doing.goal /\ doing \in Calls /\ doing' \in Calls
<1>1. Frame /\ doing \in Calls
  BY GoingFrame, HeadFacts DEF Frame
<1>2. doing' \in Calls
  <2>1. Step
    BY DEF Step, Going
  <2>2. TypeInv'
    BY <2>1, StepTyped
  <2> QED BY <1>1, <2>2 DEF TypeInv, TypeOK, Frame
<1>3. \/ doing' = doing
      \/ doing' = [doing EXCEPT !.committed = TRUE]
      \/ \E b \in BOOLEAN : doing' = [doing EXCEPT !.back = b]
      \/ RenderServer
      \/ \E k : doing' = [doing EXCEPT !.displaced = k] \/ doing' = [doing EXCEPT !.placed = k]
  BY DEF Going, WriteConfig, CreateClient, DescribeClient, RemoveClient, RemoveKeys, CompareServer,
         WriteProfiles, MarkExpired, WriteGenerated, WriteRuntime, Act, ActUnapplied,
         ActFails, Verify, Displace, Place, StepFails, OldRuntime, OldGenerated, Again,
         AgainFails, Halt, HaltFails, ReturnClient, ReturnKeys, Reactivate, OldConfig, OldMetadata,
         Unconfigure, NoRuntime, Unplace, PutBack, Write, running, CheckExpired
<1>4. RenderServer => doing'.goal = doing.goal
  BY <1>1 DEF RenderServer, Calls
<1>5. doing'.goal = doing.goal
  BY <1>1, <1>3, <1>4 DEF Calls
<1> QED BY <1>1, <1>2, <1>5

LEMMA StepEdge ==
  ASSUME TypeInv, Onward, doing.op # "restore"
  PROVE  <<Now, Now'>> \in Edges(doing.op, doing.back) /\ Now = Head(todo) /\ doing'.back = doing.back
<1>1. /\ todo \in Seq(Steps) /\ doing \in Calls /\ doing # None /\ Head(todo) = todo[1]
      /\ todo # <<>> /\ todo' = Tail(todo) /\ doing'.back = doing.back
  BY TodoFacts DEF TypeInv, Onward, SameCall
<1>2. PathTo(todo, Edges(doing.op, doing.back), "end")
  BY <1>1 DEF TypeInv, FlowInv
<1>3. <<Head(todo), HeadOr(Tail(todo), "end")>> \in Edges(doing.op, doing.back)
  BY <1>1, <1>2, Continued
<1> QED BY <1>1, <1>3 DEF Now, HeadOr

(* A write of files only. *)
LEMMA WritePasses ==
  ASSUME TypeInv, Onward, doing.op # "restore", Wrote, Checked,
         Now \notin {"render", "act", "again", "halt"},
         link' = link, doing' = doing, wreck' = wreck
  PROVE  Passes
<1>1. <<Now, Now'>> \in Edges(doing.op, doing.back)
  BY StepEdge
<1>2. doing \in Calls
  BY TodoFacts DEF TypeInv, Onward
<1>3. Told
  BY <1>2 DEF Told, Calls
<1>4. Linked
  BY DEF Linked
<1> QED BY <1>1, <1>3, <1>4 DEF Passes

LEMMA NowHead ==
  ASSUME TypeInv, doing.op # "restore", NEW step, At(step)
  PROVE  Now = step /\ disk \in Disks /\ doing \in Calls
<1>1. todo # <<>> /\ Head(todo) = step
  BY DEF At
<1> QED BY <1>1, HeadFacts

LEMMA ClientWrites ==
  ASSUME TypeInv, doing.op # "restore",
         CreateClient \/ DescribeClient \/ RemoveClient \/ RemoveKeys \/ ReturnClient \/ ReturnKeys
  PROVE  Passes
<1>1. CASE CreateClient
  <2>1. Now = "create" /\ disk \in Disks
    BY <1>1, NowHead DEF CreateClient
  <2>2. Wrote /\ Checked
    BY <1>1, <2>1 DEF CreateClient, Write, Wrote, Checked, Disks
  <2> QED BY <1>1, <2>1, <2>2, CreateClientStep, WritePasses DEF CreateClient, Write
<1>2. CASE DescribeClient
  <2>1. Now = "describe" /\ disk \in Disks
    BY <1>2, NowHead DEF DescribeClient
  <2>2. Wrote /\ Checked
    BY <1>2, <2>1 DEF DescribeClient, Write, Wrote, Checked, Disks
  <2> QED BY <1>2, <2>1, <2>2, DescribeClientStep, WritePasses DEF DescribeClient, Write
<1>3. CASE RemoveClient
  <2>1. Now = "unclient" /\ disk \in Disks
    BY <1>3, NowHead DEF RemoveClient
  <2>2. Wrote /\ Checked
    BY <1>3, <2>1 DEF RemoveClient, Write, Wrote, Checked, Disks
  <2> QED BY <1>3, <2>1, <2>2, RemoveSteps, WritePasses DEF RemoveClient, Write
<1>4. CASE RemoveKeys
  <2>1. Now = "unkeys" /\ disk \in Disks
    BY <1>4, NowHead DEF RemoveKeys
  <2>2. Wrote /\ Checked
    BY <1>4, <2>1 DEF RemoveKeys, Write, Wrote, Checked, Disks
  <2> QED BY <1>4, <2>1, <2>2, RemoveSteps, WritePasses DEF RemoveKeys, Write
<1>5. CASE ReturnClient
  <2>1. Now = "reclient" /\ disk \in Disks
    BY <1>5, NowHead DEF ReturnClient
  <2>2. Wrote /\ Checked
    BY <1>5, <2>1 DEF ReturnClient, Write, Wrote, Checked, Disks, Returned
  <2> QED BY <1>5, <2>1, <2>2, ReturnSteps, WritePasses DEF ReturnClient, Write
<1>6. CASE ReturnKeys
  <2>1. Now = "rekeys" /\ disk \in Disks
    BY <1>6, NowHead DEF ReturnKeys
  <2>2. Wrote /\ Checked
    BY <1>6, <2>1 DEF ReturnKeys, Write, Wrote, Checked, Disks
  <2> QED BY <1>6, <2>1, <2>2, ReturnSteps, WritePasses DEF ReturnKeys, Write
<1> QED BY <1>1, <1>2, <1>3, <1>4, <1>5, <1>6

LEMMA FileWrites ==
  ASSUME TypeInv, doing.op # "restore",
         WriteConfig \/ OldConfig \/ Unconfigure \/ OldMetadata \/ WriteGenerated \/ OldGenerated
           \/ OldRuntime \/ NoRuntime \/ CompareServer \/ Verify
  PROVE  Passes
<1>1. CASE WriteConfig
  <2>1. Now = "config" /\ disk \in Disks
    BY <1>1, NowHead DEF WriteConfig
  <2>2. Wrote /\ Checked
    BY <1>1, <2>1 DEF WriteConfig, Write, Wrote, Checked, Disks
  <2> QED BY <1>1, <2>1, <2>2, WriteConfigStep, WritePasses DEF WriteConfig, Write
<1>2. CASE OldConfig
  <2>1. Now = "oldconfig" /\ disk \in Disks
    BY <1>2, NowHead DEF OldConfig
  <2>2. Wrote /\ Checked
    BY <1>2, <2>1 DEF OldConfig, Write, Wrote, Checked, Disks
  <2> QED BY <1>2, <2>1, <2>2, OldSteps, WritePasses DEF OldConfig, Write
<1>3. CASE Unconfigure
  <2>1. Now = "unconfigure" /\ disk \in Disks
    BY <1>3, NowHead DEF Unconfigure
  <2>2. Wrote /\ Checked
    BY <1>3, <2>1 DEF Unconfigure, Write, Wrote, Checked, Disks
  <2> QED BY <1>3, <2>1, <2>2, OldSteps, WritePasses DEF Unconfigure, Write
<1>4. CASE OldMetadata
  <2>1. Now = "oldmetadata" /\ disk \in Disks
    BY <1>4, NowHead DEF OldMetadata
  <2>2. Wrote /\ Checked
    BY <1>4, <2>1 DEF OldMetadata, Write, Wrote, Checked, Disks
  <2> QED BY <1>4, <2>1, <2>2, OldSteps, WritePasses DEF OldMetadata, Write
<1>5. CASE WriteGenerated
  <2>1. Now = "generated" /\ disk \in Disks
    BY <1>5, NowHead DEF WriteGenerated
  <2>2. Wrote /\ Checked
    BY <1>5, <2>1 DEF WriteGenerated, Write, Wrote, Checked, Disks
  <2> QED BY <1>5, <2>1, <2>2, WriteTextSteps, WritePasses DEF WriteGenerated, Write
<1>6. CASE OldGenerated
  <2>1. Now = "oldgenerated" /\ disk \in Disks
    BY <1>6, NowHead DEF OldGenerated
  <2>2. Wrote /\ Checked
    BY <1>6, <2>1 DEF OldGenerated, Write, Wrote, Checked, Disks
  <2> QED BY <1>6, <2>1, <2>2, WriteTextSteps, WritePasses DEF OldGenerated, Write
<1>7. CASE OldRuntime
  <2>1. Now = "oldruntime" /\ disk \in Disks
    BY <1>7, NowHead DEF OldRuntime
  <2>2. Wrote /\ Checked
    BY <1>7, <2>1 DEF OldRuntime, Write, Wrote, Checked, Disks
  <2> QED BY <1>7, <2>1, <2>2, WriteTextSteps, WritePasses DEF OldRuntime, Write
<1>8. CASE NoRuntime
  <2>1. Now = "noruntime" /\ disk \in Disks
    BY <1>8, NowHead DEF NoRuntime
  <2>2. Wrote /\ Checked
    BY <1>8, <2>1 DEF NoRuntime, Write, Wrote, Checked, Disks
  <2> QED BY <1>8, <2>1, <2>2, WriteTextSteps, WritePasses DEF NoRuntime, Write
<1>9. CASE CompareServer \/ Verify
  <2>1. Now \in {"compare", "verify"} /\ disk \in Disks
    BY <1>9, NowHead DEF CompareServer, Verify
  <2>2. Checked
    BY <1>9, <2>1, NowHead DEF CompareServer, Verify, Checked
  <2>3. Wrote
    BY <1>9, <2>1 DEF CompareServer, Verify, Write, Wrote
  <2> QED BY <1>9, <2>1, <2>2, <2>3, RemoveSteps, WritePasses DEF CompareServer, Verify, Write
<1> QED BY <1>1, <1>2, <1>3, <1>4, <1>5, <1>6, <1>7, <1>8, <1>9

LEMMA CommitPasses ==
  ASSUME TypeInv, doing.op # "restore", RenderServer \/ WriteRuntime \/ Reactivate
  PROVE  Passes
<1>1. CASE RenderServer
  <2>1. Now = "render" /\ disk \in Disks /\ doing \in Calls /\ disk' = disk /\ link' = link /\ wreck' = wreck
    BY <1>1, NowHead DEF RenderServer
  <2>2. Wrote /\ Checked /\ Linked
    BY <2>1 DEF Wrote, Checked, Linked
  <2>3. Told
    BY <1>1, <2>1 DEF RenderServer, Told, Calls
  <2> QED BY <1>1, <2>2, <2>3, RenderServerStep, StepEdge DEF Passes
<1>2. CASE WriteRuntime
  <2>1. Now = "runtime" /\ disk \in Disks
    BY <1>2, NowHead DEF WriteRuntime
  <2>2. Wrote /\ Checked
    BY <1>2, <2>1 DEF WriteRuntime, Wrote, Checked, Disks
  <2> QED BY <1>2, <2>1, <2>2, WriteRuntimeStep, WritePasses DEF WriteRuntime
<1>3. CASE Reactivate
  <2>1. Now = "reactivate" /\ disk \in Disks /\ doing \in Calls
    BY <1>3, NowHead DEF Reactivate
  <2>2. link' = link /\ doing' = doing
        /\ (wreck' = wreck \/ wreck' = "damaged")
        /\ (wreck' # "damaged" => wreck' = wreck /\ doing.before.meta[doing.name].state # "expired")
        /\ (wreck = "damaged" => wreck' = wreck)
    BY <1>3 DEF Reactivate, Note
  <2>3. Wrote
    BY <1>3, <2>1 DEF Reactivate, Wrote, Disks
  <2>4. Checked /\ Linked
    BY <2>1, <2>2 DEF Checked, Linked
  <2>5. Told
    BY <2>1, <2>2 DEF Told, Calls
  <2> QED BY <1>3, <2>3, <2>4, <2>5, ReactivateStep, StepEdge DEF Passes
<1> QED BY <1>1, <1>2, <1>3

LEMMA ServicePasses ==
  ASSUME TypeInv, doing.op # "restore", Act \/ ActUnapplied \/ Again \/ AgainFails \/ Halt \/ HaltFails
  PROVE  Passes
<1>1. CASE Act \/ ActUnapplied
  <2>1. Now = "act" /\ doing \in Calls /\ disk' = disk
    BY <1>1, NowHead DEF Act, ActUnapplied
  <2>2. Wrote /\ Checked
    BY <2>1 DEF Wrote, Checked
  <2>3. Linked
    BY <1>1, <2>1 DEF Act, ActUnapplied, Linked, Applied, Note
  <2>4. Told
    BY <1>1, <2>1 DEF Act, ActUnapplied, Told, Calls
  <2> QED BY <1>1, <2>2, <2>3, <2>4, ActSteps, StepEdge DEF Passes
<1>2. CASE Again \/ AgainFails
  <2>1. Now = "again" /\ doing \in Calls /\ disk' = disk /\ doing' = doing
    BY <1>2, NowHead DEF Again, AgainFails
  <2>2. Wrote /\ Checked
    BY <2>1 DEF Wrote, Checked
  <2>3. Linked
    BY <1>2, <2>1 DEF Again, AgainFails, Linked, Applied, Note, LinkAfterFailure, Restarts
  <2>4. Told
    BY <2>1 DEF Told, Calls
  <2> QED BY <1>2, <2>2, <2>3, <2>4, AgainSteps, StepEdge DEF Passes
<1>3. CASE Halt \/ HaltFails
  <2>1. Now = "halt" /\ doing \in Calls /\ disk' = disk /\ doing' = doing
    BY <1>3, NowHead DEF Halt, HaltFails
  <2>2. Wrote /\ Checked
    BY <2>1 DEF Wrote, Checked
  <2>3. Linked
    BY <1>3, <2>1 DEF Halt, HaltFails, Linked, Note
  <2>4. Told
    BY <2>1 DEF Told, Calls
  <2> QED BY <1>3, <2>2, <2>3, <2>4, HaltSteps, StepEdge DEF Passes
<1> QED BY <1>1, <1>2, <1>3

LEMMA LoopPasses ==
  ASSUME TypeInv, doing.op # "restore", WriteProfiles \/ MarkExpired
  PROVE  Passes \/ Profiles \/ Marks
<1>1. CASE WriteProfiles
  <2>1. Now = "profiles" /\ disk \in Disks /\ doing \in Calls
    BY <1>1, NowHead DEF WriteProfiles
  <2>2. todo # <<>> /\ Head(todo) = "profiles"
    BY <1>1 DEF WriteProfiles, At
  <2>3. CASE OutOfDate = {} /\ Write(disk)
    <3>1. Wrote /\ Checked
      BY <2>1, <2>3 DEF Write, Wrote, Checked
    <3>2. Onward
      BY <2>1, <2>3, <2>2, WriteGoes DEF ConfigKept, RecordKept, Write, Forth
    <3> QED BY <2>1, <2>3, <3>1, <3>2, WritePasses DEF Write
  <2>4. CASE \E n \in OutOfDate :
               /\ disk' = [disk EXCEPT !.meta[n].profile = doing.goal]
               /\ UNCHANGED <<link, running, wreck, troubles>> /\ Stepping
    <3>1. Still
      BY <2>4 DEF Still, running, Now
    <3> QED BY <2>1, <2>4, <3>1 DEF Profiles
  <2> QED BY <1>1, <2>3, <2>4 DEF WriteProfiles
<1>2. CASE MarkExpired
  <2>1. Now = "mark" /\ disk \in Disks /\ doing \in Calls
    BY <1>2, NowHead DEF MarkExpired
  <2>2. todo # <<>> /\ Head(todo) = "mark"
    BY <1>2 DEF MarkExpired, At
  <2>3. CASE Due = {} /\ Write(disk)
    <3>1. Wrote /\ Checked
      BY <2>1, <2>3 DEF Write, Wrote, Checked
    <3>2. Onward
      BY <2>1, <2>3, <2>2, WriteGoes DEF ConfigKept, RecordKept, Write, Forth
    <3> QED BY <2>1, <2>3, <3>1, <3>2, WritePasses DEF Write
  <2>4. CASE \E n \in Due :
               /\ disk' = [disk EXCEPT !.meta[n].state = "expired"]
               /\ UNCHANGED <<link, running, wreck, troubles>> /\ Stepping
    <3>1. Still
      BY <2>4 DEF Still, running, Now
    <3> QED BY <2>1, <2>4, <3>1 DEF Marks
  <2> QED BY <1>2, <2>3, <2>4 DEF MarkExpired
<1> QED BY <1>1, <1>2

LEMMA StepFailing ==
  ASSUME TypeInv, doing.op # "restore", StepFails \/ ActFails
  PROVE  Fails
<1>1. /\ todo # <<>> /\ Head(todo) \in Fallible \cup {"act"} /\ disk' = disk
      /\ doing' = [doing EXCEPT !.back = TRUE]
      /\ Head(todo) # "act" => link' = link
      /\ Head(todo) = "act" => doing.active /\ link' \in LinkAfterFailure
      /\ wreck = "damaged" => wreck' = "damaged"
      /\ doing.back => wreck' = "damaged"
      /\ Head(todo) = "runtime" /\ Torn /\ doing.op \notin {"initialize", "migrate"} => wreck' = "damaged"
      /\ wreck' # "damaged" => wreck' = wreck
  BY DEF StepFails, ActFails, At, Note, Torn, Fallible
<1>2. doing \in Calls /\ doing # None /\ doing.op \in Ops \ {"restore"} /\ Now = Head(todo)
  BY <1>1, HeadFacts
<1>3. /\ doing'.back /\ doing'.text = doing.text /\ doing'.prior = doing.prior
      /\ doing'.committed = doing.committed
  BY <1>1, <1>2 DEF Calls
<1>4. ~doing.back => Now' = Failing
  <2> SUFFICES ASSUME ~doing.back PROVE Now' = Failing
    OBVIOUS
  <2>1. HeadOr(Cleanup(doing), "end") = Mending(doing)
    BY <1>2, CleanupPath
  <2>2. HeadOr(Undo(doing), "end") =
          IF doing.committed /\ doing.op \in Committers THEN "render" ELSE Mending(doing)
    <3>1. CASE doing.committed /\ doing.op \in Committers
      <4>1. Undo(doing) = Commit \o Cleanup(doing)
        BY <3>1 DEF Undo, Committers
      <4>2. Cleanup(doing) \in Seq(Steps)
        BY <1>2, CleanupPath
      <4>3. Commit \in Seq(Steps) /\ Commit # <<>> /\ Len(Commit) = 4 /\ Commit[1] = "render"
        BY DEF Commit, Steps
      <4>4. Len(Commit \o Cleanup(doing)) # 0 /\ (Commit \o Cleanup(doing))[1] = "render"
        BY <4>2, <4>3, ConcatProperties, LenProperties
      <4>5. Commit \o Cleanup(doing) # <<>>
        BY <4>4
      <4> QED BY <3>1, <4>1, <4>4, <4>5 DEF HeadOr
    <3>2. CASE ~(doing.committed /\ doing.op \in Committers)
      BY <2>1, <3>2 DEF Undo, Committers
    <3> QED BY <3>1, <3>2
  <2>3. CASE Head(todo) = "act" /\ doing.op \notin {"initialize", "migrate"}
    <3>1. doing.op \in {"add", "revoke", "rotate", "port", "expire"}
      BY <1>1, <1>2, <2>3, HeadFacts DEF Sourced
    <3>2. ~StepFails
      BY <2>3 DEF StepFails, Fallible
    <3>3. todo' = <<"oldruntime", "oldgenerated", "again">> \o Undo(doing)
      BY <1>2, <2>3, <3>2 DEF ActFails
    <3>4. HeadOr(todo', "end") = "oldruntime"
      BY <3>1, <3>3, RetractPath
    <3> QED BY <1>2, <2>3, <3>4 DEF Now, Failing
  <2>4. CASE Head(todo) = "act" /\ doing.op \in {"initialize", "migrate"}
    <3>1. ~StepFails
      BY <2>4 DEF StepFails, Fallible
    <3>2. todo' = Cleanup(doing)
      BY <2>4, <3>1 DEF ActFails
    <3> QED BY <1>2, <2>1, <2>4, <3>2 DEF Now, Failing, Committers
  <2>5. CASE Head(todo) # "act"
    <3>1. ~ActFails
      BY <2>5 DEF ActFails, At
    <3>2. todo' = Undo(doing)
      BY <3>1 DEF StepFails
    <3> QED BY <1>2, <2>2, <2>5, <3>2 DEF Now, Failing
  <2> QED BY <2>3, <2>4, <2>5
<1> QED BY <1>1, <1>2, <1>3, <1>4 DEF Fails

LEMMA CheckChecks ==
  ASSUME TypeInv, doing.op # "restore", CheckExpired
  PROVE  Checks /\ doing.op = "expire" /\ ~doing.back
<1>1. Now \in {"check", "recheck"} /\ doing \in Calls
  BY NowHead DEF CheckExpired
<1>2. doing.op = "expire" /\ ~doing.back
  BY HeadFacts DEF CheckExpired, At, Sourced
<1>3. /\ disk' = disk /\ link' = link /\ wreck' = wreck
      /\ doing' = [doing EXCEPT !.back = Remaining # {} /\ At("recheck")]
  BY DEF CheckExpired
<1>4. /\ doing'.text = doing.text /\ doing'.prior = doing.prior /\ doing'.committed = doing.committed
      /\ doing'.back = (Remaining # {} /\ At("recheck"))
  BY <1>1, <1>3 DEF Calls
<1>5. At("recheck") <=> Now = "recheck"
  BY <1>1, HeadFacts DEF CheckExpired, At
<1>6. At("recheck") /\ Remaining # {} => Now' = "halt"
  BY DEF CheckExpired, Now, HeadOr, At
<1>7. /\ Remaining = {} => Now' = "end"
      /\ Remaining # {} /\ ~doing'.back => Now' = "render"
  BY CheckExpiredStep
<1> QED BY <1>1, <1>2, <1>3, <1>4, <1>5, <1>6, <1>7 DEF Checks

LEMMA GoingPasses ==
  ASSUME TypeInv, Going, doing.op # "restore"
  PROVE  Passes \/ Fails \/ Profiles \/ Marks \/ Checks
<1>1. ~(Displace \/ Place \/ Unplace \/ PutBack)
  BY HeadFacts DEF Displace, Place, Unplace, PutBack, At, Sourced
<1> QED BY <1>1, ClientWrites, FileWrites, CommitPasses, ServicePasses, LoopPasses, StepFailing,
           CheckChecks DEF Going
-----------------------------------------------------------------------------
(* What the command found *)

LEMMA WreckGoes ==
  ASSUME TypeInv, Going, wreck' # "damaged"
  PROVE  wreck # "damaged" /\ (wreck' = wreck \/ (doing.op = "expire" /\ wreck' = "retry"))
<1>1. CASE WriteConfig \/ CreateClient \/ DescribeClient \/ RemoveClient \/ RemoveKeys
           \/ CompareServer \/ WriteProfiles \/ MarkExpired \/ RenderServer \/ WriteGenerated
           \/ WriteRuntime \/ Act \/ Verify \/ CheckExpired \/ Displace \/ Place \/ OldRuntime
           \/ OldGenerated \/ Again \/ Halt \/ ReturnClient \/ ReturnKeys \/ OldConfig
           \/ OldMetadata \/ Unconfigure \/ NoRuntime \/ Unplace \/ PutBack
  <2>1. wreck' = wreck
    BY <1>1 DEF WriteConfig, CreateClient, DescribeClient, RemoveClient, RemoveKeys, CompareServer,
         WriteProfiles, MarkExpired, WriteGenerated, WriteRuntime, Act, RenderServer,
         Verify, Displace, Place, OldRuntime, OldGenerated, Again, CheckExpired,
         Halt, ReturnClient, ReturnKeys, OldConfig, OldMetadata,
         Unconfigure, NoRuntime, Unplace, PutBack, Write, running
  <2> QED BY <2>1
<1>2. CASE ActUnapplied \/ ActFails \/ StepFails \/ Reactivate
  <2>1. wreck' = wreck \/ Note("damaged")
    BY <1>2 DEF ActUnapplied, ActFails, StepFails, Reactivate
  <2> QED BY <2>1 DEF Note
<1>3. CASE AgainFails \/ HaltFails
  BY <1>3 DEF AgainFails, HaltFails, Note
<1> QED BY <1>1, <1>2, <1>3 DEF Going

LEMMA GoingBefore ==
  ASSUME TypeInv, BeforeInv, Going
  PROVE  BeforeInv'
<1>1. /\ Frame /\ doing'.goal = doing.goal /\ doing \in Calls /\ todo # <<>>
      /\ day \in Days /\ doing.before \in Disks
  BY GoalFrame, BoundAssumption DEF Frame, TypeInv, TypeOK, Calls
<1>2. doing.op \in {"endpoint", "port", "restore"} => doing'.text = doing.text /\ doing'.prior = doing.prior
  BY <1>1, HeadFacts DEF Frame, RenderServer, At, Sourced
<1>3. wreck' # "damaged" => Sane(doing.before, wreck', day)
  <2> SUFFICES ASSUME wreck' # "damaged" PROVE Sane(doing.before, wreck', day)
    OBVIOUS
  <2>1. wreck # "damaged" /\ (wreck' = wreck \/ (doing.op = "expire" /\ wreck' = "retry"))
    BY WreckGoes
  <2>2. Sane(doing.before, wreck, day)
    BY <1>1, <2>1 DEF BeforeInv, Frame
  <2>3. CASE wreck' = wreck
    BY <2>2, <2>3
  <2>4. CASE doing.op = "expire" /\ wreck' = "retry"
    <3>1. Live(doing.before.meta, day) \subseteq doing.before.generated.peers
      BY <1>1, <2>4 DEF BeforeInv, Frame, Steady
    <3>2. day <= day /\ Wider(wreck, wreck')
      BY <1>1, <2>4, BoundAssumption DEF Days, Wider
    <3> QED BY <1>1, <2>2, <3>1, <3>2, SaneLater
  <2> QED BY <2>1, <2>3, <2>4
<1> DEFINE b == doing.before
           r == doing.record
<1>4. BeforeInv
  OBVIOUS
<1> QED BY <1>1, <1>2, <1>3 DEF BeforeInv, Frame

-----------------------------------------------------------------------------
(* The client a command makes or removes *)

(* The other clients stay, and the command's own becomes what the step writes. *)
Touched ==
  LET n == doing.name
      b == doing.before
  IN  /\ \A m \in Names \ {n} : disk'.meta[m] = disk.meta[m] /\ disk'.keys[m] = disk.keys[m]
      /\ disk'.meta[n] = CASE Now = "create" -> Partial
                           [] Now = "describe" -> doing.record
                           [] Now = "unclient" -> None
                           [] Now = "reclient" -> Returned(doing)
                           [] Now = "reactivate" -> [disk.meta[n] EXCEPT !.state = "active"]
                           [] OTHER -> disk.meta[n]
      /\ disk'.keys[n] = CASE Now = "create" -> doing.record.key
                           [] Now = "unkeys" -> None
                           [] Now = "rekeys" -> b.keys[n]
                           [] OTHER -> disk.keys[n]

LEMMA OwnStep ==
  ASSUME TypeInv, Going, Passes, doing.op \in Making \cup {"revoke"}
  PROVE  Touched
<1>1. /\ doing \in Calls /\ doing # None /\ doing.name \in Names /\ disk \in Disks
      /\ Sourced(doing.op, doing.back, Now, Now')
  <2>1. Frame /\ doing \in Calls /\ doing.op # "restore" /\ doing.op \in Ops /\ disk \in Disks
    BY GoingFrame, HeadFacts DEF Frame, Making, Calls
  <2> QED BY <2>1, Sources DEF TypeInv, CallInv, Passes, Frame, Calls
<1>2. disk.meta \in Metas /\ disk.keys \in [Names -> Keys \cup {None}] /\ Now # "oldmetadata"
  BY <1>1 DEF Disks, Metas, Sourced, Making
<1>3. \A m \in Names \ {doing.name} : disk'.meta[m] = disk.meta[m] /\ disk'.keys[m] = disk.keys[m]
  BY <1>1, <1>2 DEF Passes, Wrote, Metas
<1>4. disk'.meta[doing.name] =
        CASE Now = "create" -> Partial
          [] Now = "describe" -> doing.record
          [] Now = "unclient" -> None
          [] Now = "reclient" -> Returned(doing)
          [] Now = "reactivate" -> [disk.meta[doing.name] EXCEPT !.state = "active"]
          [] OTHER -> disk.meta[doing.name]
  BY <1>1, <1>2 DEF Passes, Wrote, Metas
<1>5. disk'.keys[doing.name] =
        CASE Now = "create" -> doing.record.key
          [] Now = "unkeys" -> None
          [] Now = "rekeys" -> doing.before.keys[doing.name]
          [] OTHER -> disk.keys[doing.name]
  BY <1>1, <1>2 DEF Passes, Wrote
<1> QED BY <1>3, <1>4, <1>5 DEF Touched

(* Where a command that fails turns to. *)
LEMMA FailsTurn ==
  ASSUME TypeInv, Going, Fails, wreck' # "damaged", doing.op # "restore"
  PROVE  /\ ~doing.back /\ doing'.back /\ disk' = disk /\ wreck' = wreck
         /\ Now' \in {"halt", "oldruntime", "unclient", "oldconfig", "oldmetadata", "render", "end"}
         /\ doing.op = "initialize" => Now' = "halt"
         /\ doing.op \in {"migrate", "port", "expire"} /\ Now = "act" => Now' = "oldruntime"
         /\ doing.op = "migrate" => Now' = "oldruntime"
         /\ doing.op = "import" => Now' = "unclient"
         /\ doing.op \in {"add", "rotate"} => Now' \in {"oldruntime", "render", "unclient"}
         /\ doing.op = "revoke" => Now' \in {"oldruntime", "render", "end"}
         /\ doing.op \in Committers =>
              /\ Now = "act" => Now' = "oldruntime"
              /\ Now # "act" => Now' = IF doing.committed THEN "render" ELSE Mending(doing)
         /\ doing.op \in {"endpoint", "port"} => Now' \in {"oldruntime", "oldconfig"}
         /\ doing.op \in {"endpoint", "port"} /\ Now # "act" => Now' = "oldconfig"
         /\ doing.op = "expire" /\ Now # "act" => Now' = IF doing.committed THEN "halt" ELSE "oldmetadata"
<1>1. Frame /\ doing \in Calls /\ doing.op \in Ops
  BY GoingFrame, HeadFacts DEF Frame
<1>2. Now = "act" => doing.op \in {"initialize", "migrate", "add", "revoke", "rotate", "port", "expire"}
  BY <1>1, HeadFacts DEF Sourced, Frame
<1> QED BY <1>1, <1>2 DEF Fails, Failing, Mending, Committers, Ops

LEMMA Renewed ==
  ASSUME NEW r \in Records, r.state = "active"
  PROVE  [[r EXCEPT !.state = "rotated"] EXCEPT !.state = "active"] = r
  BY DEF Records

LEMMA MakingGoes ==
  ASSUME TypeInv, BeforeInv, ClientsInv, Going, doing.op \in Making, wreck' # "damaged"
  PROVE  MakingInv'
<1>1. /\ Frame /\ doing \in Calls /\ doing # None /\ disk \in Disks /\ doing.op # "restore"
      /\ wreck # "damaged" /\ doing.name \in Names /\ doing.record \in Records
  BY GoingFrame, HeadFacts, WreckGoes DEF Frame, Making, TypeInv, CallInv
<1>2. MakingInv
  BY <1>1 DEF ClientsInv
<1>3. CASE Fails
  BY <1>1, <1>3, FailsTurn DEF MakingInv, Frame, Making
<1>4. CASE Passes
  <2>1. Touched
    BY <1>4, OwnStep
  <2>2. doing.op \in {"initialize", "migrate", "add"} =>
          doing.before.meta[doing.name] = None /\ doing.before.keys[doing.name] = None
    BY <1>1 DEF BeforeInv, Sane, Bare
  <2>3. CASE ~doing.back
    <3>1. ~doing'.back /\ <<Now, Now'>> \in Forward(doing.op)
      BY <1>4, <2>3 DEF Passes, Edges
    <3>2. CASE doing.op \in {"initialize", "migrate"}
      <4>1. /\ doing'.name = doing.name /\ doing'.before = doing.before /\ doing'.record = doing.record
            /\ doing.before.meta[doing.name] = None /\ doing.before.keys[doing.name] = None
        BY <1>1, <2>2, <3>2 DEF Frame
      <4>2. \/ Now = "config" /\ Now' = "create"
            \/ Now = "create" /\ Now' = "describe"
            \/ Now = "describe" /\ Now' = "render"
            \/ /\ Now \in {"render", "generated", "runtime", "act", "verify"}
               /\ Now' \in {"generated", "runtime", "act", "verify", "end"}
        BY <3>1, <3>2 DEF Forward, Committing
      <4> QED BY <1>2, <2>1, <2>3, <3>1, <4>1, <4>2 DEF MakingInv, Own, Touched
    <3>3. CASE doing.op \in {"add"}
      BY <1>1, <1>2, <2>1, <2>2, <2>3, <3>1, <3>3 DEF MakingInv, Own, Touched, Frame, Forward, Committing
    <3>4. CASE doing.op \in {"import"}
      BY <1>1, <1>2, <2>1, <2>3, <3>1, <3>4 DEF MakingInv, Own, Touched, Frame, Forward, Committing
    <3>5. CASE doing.op \in {"rotate"}
      BY <1>1, <1>2, <2>1, <2>3, <3>1, <3>5 DEF MakingInv, Own, Touched, Frame, Forward, Committing
    <3> QED BY <3>2, <3>3, <3>4, <3>5 DEF Making
  <2>4. CASE doing.back
    <3>1. doing'.back /\ <<Now, Now'>> \in Backward(doing.op)
      BY <1>4, <2>4 DEF Passes, Edges
    <3>2. CASE doing.op \in {"initialize", "migrate"}
      BY <1>1, <1>2, <2>1, <2>2, <2>4, <3>1, <3>2 DEF MakingInv, Own, Touched, Frame, Backward
    <3>3. CASE doing.op = "add"
      BY <1>1, <1>2, <2>1, <2>2, <2>4, <3>1, <3>3
         DEF MakingInv, Own, Touched, Frame, Backward, Committing, Retracting
    <3>4. doing.op \in {"import", "rotate"} => doing.before.meta[doing.name] \in Records
      <4>1. doing.before.meta \in Metas
        BY <1>1 DEF Calls, Disks, Metas
      <4> QED BY <1>1, <4>1, DescribedRecords DEF TypeInv, CallInv
    <3>5. CASE doing.op = "import"
      <4>1. Returned(doing) = doing.before.meta[doing.name] /\ Returned(doing)' = Returned(doing)
        BY <1>1, <3>4, <3>5 DEF Returned, Records, Frame
      <4> QED BY <1>1, <1>2, <2>1, <2>4, <3>1, <3>5, <4>1 DEF MakingInv, Own, Touched, Frame, Backward
    <3>6. CASE doing.op = "rotate"
      <4>1. Returned(doing)' = Returned(doing)
        BY <1>1 DEF Returned, Frame
      <4>2. Now = "reactivate" => disk'.meta[doing.name] = doing.before.meta[doing.name]
        <5> SUFFICES ASSUME Now = "reactivate"
                     PROVE  disk'.meta[doing.name] = doing.before.meta[doing.name]
          OBVIOUS
        <5>1. doing.before.meta[doing.name].state = "active"
          <6>1. doing.before.meta[doing.name].state \in {"active", "expired"}
            BY <1>1, <3>6 DEF BeforeInv, Steady, Ready, Loadable, TypeInv, CallInv
          <6> QED BY <1>4, <6>1 DEF Passes, Checked
        <5>2. disk.meta[doing.name] = [doing.before.meta[doing.name] EXCEPT !.state = "rotated"]
          BY <1>2, <2>4, <3>6 DEF MakingInv, Own, Returned
        <5>3. disk'.meta[doing.name] = [disk.meta[doing.name] EXCEPT !.state = "active"]
          BY <2>1 DEF Touched
        <5> DEFINE m == doing.before.meta[doing.name]
        <5>4. m \in Records /\ m.state = "active"
          BY <3>4, <3>6, <5>1
        <5>5. disk'.meta[doing.name] = [[m EXCEPT !.state = "rotated"] EXCEPT !.state = "active"]
          BY <5>2, <5>3, Zenon
        <5> HIDE DEF m
        <5>6. disk'.meta[doing.name] = m
          BY <5>4, <5>5, Renewed, Zenon
        <5> QED BY <5>6 DEF m
      <4>3. Now \in {"unclient", "unkeys", "reclient", "rekeys", "reactivate"} \/
            Now' \notin {"unkeys", "reclient", "rekeys", "reactivate", "noruntime", "end"}
        BY <3>1, <3>6 DEF Backward, Committing, Retracting
      <4>4. /\ Now = "unclient" => Now' = "unkeys"
            /\ Now = "unkeys" => Now' = "reclient"
            /\ Now = "reclient" => Now' = "rekeys"
            /\ Now = "rekeys" => Now' = "reactivate"
            /\ Now = "reactivate" => Now' = "end"
        BY <3>1, <3>6 DEF Backward, Committing, Retracting
      <4> QED BY <1>1, <1>2, <2>1, <2>4, <3>1, <4>1, <4>2, <4>3, <4>4 DEF MakingInv, Own, Touched, Frame
    <3> QED BY <3>2, <3>3, <3>5, <3>6 DEF Making
  <2> QED BY <2>3, <2>4
<1>5. ~(Profiles \/ Marks \/ Checks)
  BY <1>1, HeadFacts DEF Profiles, Marks, Checks, Sourced, Frame, Making
<1> QED BY <1>1, <1>3, <1>4, <1>5, GoingPasses

-----------------------------------------------------------------------------
(* The clients a command rewrites one after the other *)

LEMMA LoopField ==
  ASSUME TypeInv, Going, doing.op # "restore", Profiles \/ Marks
  PROVE  /\ Still /\ doing \in Calls /\ disk.meta \in Metas
         /\ disk'.config = disk.config /\ disk'.identity = disk.identity /\ disk'.keys = disk.keys
         /\ disk'.generated = disk.generated /\ disk'.runtime = disk.runtime
         /\ \E n \in Described(disk.meta) :
              /\ \A m \in Names \ {n} : disk'.meta[m] = disk.meta[m]
              /\ disk'.meta \in Metas
              /\ \/ Profiles /\ n \in OutOfDate /\ disk'.meta[n] = [disk.meta[n] EXCEPT !.profile = doing.goal]
                 \/ Marks /\ n \in Due /\ disk'.meta[n] = [disk.meta[n] EXCEPT !.state = "expired"]
<1>1. /\ doing \in Calls /\ disk \in Disks /\ disk.meta \in Metas /\ Still
      /\ Now = "profiles" => doing.goal \in Configs
  BY GoingFrame, HeadFacts DEF Frame, Profiles, Marks, Sourced, TypeInv, CallInv, Disks, Metas
<1>2. CASE Profiles
  <2>1. PICK n \in OutOfDate : disk' = [disk EXCEPT !.meta[n].profile = doing.goal]
    BY <1>2 DEF Profiles
  <2>2. n \in Described(disk.meta) /\ n \in Names /\ disk.meta[n] \in Records
    BY <1>1, <2>1, DescribedRecords DEF OutOfDate
  <2> DEFINE r == [disk.meta[n] EXCEPT !.profile = doing.goal]
  <2>3. r \in Records
    BY <1>1, <1>2, <2>2 DEF Records, Profiles
  <2>4. disk' = [disk EXCEPT !.meta = [disk.meta EXCEPT ![n] = r]]
    BY <1>1, <2>1, <2>2 DEF Disks
  <2> HIDE DEF r
  <2>5. /\ disk'.meta = [disk.meta EXCEPT ![n] = r]
        /\ disk'.config = disk.config /\ disk'.identity = disk.identity /\ disk'.keys = disk.keys
        /\ disk'.generated = disk.generated /\ disk'.runtime = disk.runtime
    BY <1>1, <2>4 DEF Disks
  <2>6. /\ \A m \in Names \ {n} : disk'.meta[m] = disk.meta[m]
        /\ disk'.meta \in Metas /\ disk'.meta[n] = r
    BY <1>1, <2>2, <2>3, <2>5 DEF Metas
  <2> QED BY <1>1, <1>2, <2>1, <2>2, <2>5, <2>6 DEF r
<1>3. CASE Marks
  <2>1. PICK n \in Due : disk' = [disk EXCEPT !.meta[n].state = "expired"]
    BY <1>3 DEF Marks
  <2>2. n \in Described(disk.meta) /\ n \in Names /\ disk.meta[n] \in Records
    BY <1>1, <2>1, DescribedRecords DEF Due
  <2> DEFINE r == [disk.meta[n] EXCEPT !.state = "expired"]
  <2>3. r \in Records
    BY <1>1, <2>2 DEF Records
  <2>4. disk' = [disk EXCEPT !.meta = [disk.meta EXCEPT ![n] = r]]
    BY <1>1, <2>1, <2>2 DEF Disks
  <2> HIDE DEF r
  <2>5. /\ disk'.meta = [disk.meta EXCEPT ![n] = r]
        /\ disk'.config = disk.config /\ disk'.identity = disk.identity /\ disk'.keys = disk.keys
        /\ disk'.generated = disk.generated /\ disk'.runtime = disk.runtime
    BY <1>1, <2>4 DEF Disks
  <2>6. /\ \A m \in Names \ {n} : disk'.meta[m] = disk.meta[m]
        /\ disk'.meta \in Metas /\ disk'.meta[n] = r
    BY <1>1, <2>2, <2>3, <2>5 DEF Metas
  <2> QED BY <1>1, <1>3, <2>1, <2>2, <2>5, <2>6 DEF r
<1> QED BY <1>2, <1>3

(* The values config set and expire give to a client. *)
LEMMA ProfileGiven ==
  ASSUME NEW meta \in Metas, NEW goal \in Configs, NEW n \in Names, NEW now \in Metas,
         now[n] \in {meta[n], Profiling(meta, goal)[n]}
  PROVE  Profiling(meta, goal)[n] =
           IF now[n] \notin {None, Partial} /\ now[n].managed /\ now[n].profile # goal
           THEN [now[n] EXCEPT !.profile = goal] ELSE now[n]
<1> DEFINE x == now[n]
           r == meta[n]
           p == Profiling(meta, goal)[n]
<1>1. r \in Records \cup {None, Partial} /\ None \notin Records /\ Partial \notin Records
  BY NoneAssumption DEF Metas, NoneAssumption
<1>2. p = IF r \notin {None, Partial} /\ r.managed THEN [r EXCEPT !.profile = goal] ELSE r
  BY DEF Profiling, Described
<1>3. x \in {r, p}
  OBVIOUS
<1> HIDE DEF x, r, p
<1>4. CASE r \in {None, Partial}
  BY <1>3, <1>1, <1>2, <1>4 DEF p, r, x
<1>5. CASE r \in Records
  <2>1. r \notin {None, Partial} /\ p = IF r.managed THEN [r EXCEPT !.profile = goal] ELSE r
    BY <1>1, <1>2, <1>5
  <2>2. p \in Records
    BY <1>5, <2>1 DEF Records
  <2>3. x \in {r, p} /\ x.managed => [x EXCEPT !.profile = goal] = p
    BY <1>5, <2>1 DEF Records
  <2>4. x \in {r, p} /\ ~(x.managed /\ x.profile # goal) => x = p
    BY <1>5, <2>1 DEF Records
  <2> QED BY <1>3, <1>1, <1>5, <2>1, <2>2, <2>3, <2>4 DEF p, r, x
<1> QED BY <1>1, <1>4, <1>5

LEMMA MarkGiven ==
  ASSUME NEW meta \in Metas, NEW d, NEW n \in Names, NEW now \in Metas,
         now[n] \in {meta[n], Marking(meta, d)[n]}
  PROVE  Marking(meta, d)[n] =
           IF now[n] \notin {None, Partial} /\ now[n].state = "active" /\ Expired(now[n], d)
           THEN [now[n] EXCEPT !.state = "expired"] ELSE now[n]
<1> DEFINE x == now[n]
           r == meta[n]
           q == Marking(meta, d)[n]
<1>1. r \in Records \cup {None, Partial} /\ None \notin Records /\ Partial \notin Records
  BY NoneAssumption DEF Metas, NoneAssumption
<1>2. q = IF r \notin {None, Partial} /\ r.state = "active" /\ Expired(r, d)
          THEN [r EXCEPT !.state = "expired"] ELSE r
  BY DEF Marking, Described
<1>3. x \in {r, q}
  OBVIOUS
<1> HIDE DEF x, r, q
<1>4. CASE r \in {None, Partial}
  BY <1>3, <1>1, <1>2, <1>4 DEF q, r, x
<1>5. CASE r \in Records
  <2>1. /\ r \notin {None, Partial}
        /\ q = IF r.state = "active" /\ Expired(r, d) THEN [r EXCEPT !.state = "expired"] ELSE r
    BY <1>1, <1>2, <1>5
  <2>2. q \in Records
    BY <1>5, <2>1 DEF Records
  <2>3. x \in {r, q} /\ x.state = "active" /\ Expired(x, d) => [x EXCEPT !.state = "expired"] = q
    BY <1>5, <2>1 DEF Records, Expired
  <2>4. x \in {r, q} /\ ~(x.state = "active" /\ Expired(x, d)) => x = q
    BY <1>5, <2>1 DEF Records, Expired
  <2> QED BY <1>3, <1>1, <1>5, <2>1, <2>2, <2>3, <2>4 DEF q, r, x
<1> QED BY <1>1, <1>4, <1>5

LEMMA ProfilingTyped ==
  ASSUME NEW meta \in Metas, NEW goal \in Configs
  PROVE  Profiling(meta, goal) \in Metas
<1>1. ASSUME NEW r \in Records PROVE [r EXCEPT !.profile = goal] \in Records
  BY DEF Records
<1> QED BY <1>1, DescribedRecords DEF Profiling, Metas

LEMMA MarkingTyped ==
  ASSUME NEW meta \in Metas, NEW d
  PROVE  Marking(meta, d) \in Metas
<1>1. ASSUME NEW r \in Records PROVE [r EXCEPT !.state = "expired"] \in Records
  BY DEF Records
<1> QED BY <1>1, DescribedRecords DEF Marking, Metas

LEMMA SameMetas ==
  ASSUME NEW f \in Metas, NEW g \in Metas, \A m \in Names : f[m] = g[m]
  PROVE  f = g
  BY DEF Metas

(* When no client is left to rewrite, the clients are what the command makes of them. *)
LEMMA ProfilesGiven ==
  ASSUME NEW meta \in Metas, NEW goal \in Configs, NEW now \in Metas,
         \A m \in Names : now[m] \in {meta[m], Profiling(meta, goal)[m]},
         {m \in Described(now) : now[m].managed /\ now[m].profile # goal} = {}
  PROVE  now = Profiling(meta, goal)
<1>1. ASSUME NEW m \in Names PROVE now[m] = Profiling(meta, goal)[m]
  <2>1. ~(now[m] \notin {None, Partial} /\ now[m].managed /\ now[m].profile # goal)
    BY DEF Described
  <2>2. now[m] \in {meta[m], Profiling(meta, goal)[m]}
    OBVIOUS
  <2>3. Profiling(meta, goal)[m] =
          IF now[m] \notin {None, Partial} /\ now[m].managed /\ now[m].profile # goal
          THEN [now[m] EXCEPT !.profile = goal] ELSE now[m]
    BY ONLY <2>2, ProfileGiven, m \in Names, meta \in Metas, goal \in Configs, now \in Metas
  <2> QED BY <2>1, <2>3, Zenon
<1> QED BY <1>1, ProfilingTyped, SameMetas

LEMMA MarksGiven ==
  ASSUME NEW meta \in Metas, NEW d, NEW now \in Metas,
         \A m \in Names : now[m] \in {meta[m], Marking(meta, d)[m]},
         {m \in Described(now) : now[m].state = "active" /\ Expired(now[m], d)} = {}
  PROVE  now = Marking(meta, d)
<1>1. ASSUME NEW m \in Names PROVE now[m] = Marking(meta, d)[m]
  <2>1. ~(now[m] \notin {None, Partial} /\ now[m].state = "active" /\ Expired(now[m], d))
    BY DEF Described
  <2>2. now[m] \in {meta[m], Marking(meta, d)[m]}
    OBVIOUS
  <2>3. Marking(meta, d)[m] =
          IF now[m] \notin {None, Partial} /\ now[m].state = "active" /\ Expired(now[m], d)
          THEN [now[m] EXCEPT !.state = "expired"] ELSE now[m]
    BY <2>2, MarkGiven, Zenon
  <2> QED BY <2>1, <2>3, Zenon
<1> QED BY <1>1, MarkingTyped, SameMetas

LEMMA Ongoing ==
  ASSUME TypeInv, Going, wreck' # "damaged", doing.op # "restore"
  PROVE  /\ Frame /\ doing'.goal = doing.goal /\ doing \in Calls /\ doing' \in Calls /\ doing # None
         /\ doing.op \in Ops \ {"restore"} /\ doing.back \in BOOLEAN /\ disk \in Disks
         /\ disk.meta \in Metas /\ doing.before \in Disks /\ doing.before.meta \in Metas
         /\ wreck # "damaged" /\ wreck' \in {wreck, "retry"} /\ (doing.op # "expire" => wreck' = wreck)
         /\ Sourced(doing.op, doing.back, Now, HeadOr(Tail(todo), "end"))
         /\ Now # "end"
<1>1. Frame /\ doing'.goal = doing.goal /\ doing \in Calls /\ doing' \in Calls
  BY GoalFrame
<1>2. /\ doing # None /\ doing.op \in Ops /\ doing.back \in BOOLEAN /\ disk \in Disks
      /\ Sourced(doing.op, doing.back, Now, HeadOr(Tail(todo), "end"))
  BY <1>1, HeadFacts DEF Frame
<1>3. disk.meta \in Metas /\ doing.before \in Disks /\ doing.before.meta \in Metas
  BY <1>1, <1>2 DEF Calls, Disks, Metas
<1>4. Now # "end"
  <2>1. todo[1] \in Steps /\ Now = todo[1]
    BY <1>1, TodoFacts DEF TypeInv, Frame, Now, HeadOr
  <2> QED BY <2>1 DEF Steps
<1> QED BY <1>1, <1>2, <1>3, <1>4, WreckGoes

LEMMA RevokeGoes ==
  ASSUME TypeInv, ClientsInv, Going, doing.op = "revoke", wreck' # "damaged"
  PROVE  /\ doing'.back \/ Now' \notin {"unkeys", "end"} =>
              Own(doing.before.meta[doing.name], doing.before.keys[doing.name])'
         /\ ~doing'.back /\ Now' = "unkeys" => Own(None, doing.before.keys[doing.name])'
         /\ ~doing'.back /\ Now' = "end" => Own(None, None)'
<1>1. /\ Frame /\ Sourced(doing.op, doing.back, Now, HeadOr(Tail(todo), "end")) /\ wreck # "damaged"
      /\ doing # None /\ doing.op # "restore"
  BY Ongoing
<1>2. CASE Fails
  <2>1. ~doing.back /\ Now \notin {"unkeys", "end"}
    BY <1>1, <1>2, FailsTurn DEF Fails, Fallible
  <2> QED BY <1>1, <1>2, <2>1 DEF Fails, ClientsInv, Own, Frame
<1>3. CASE Passes
  <2>1. Touched
    BY <1>3, OwnStep DEF Making
  <2>2. <<Now, Now'>> \in Edges(doing.op, doing.back) /\ doing'.back = doing.back
    BY <1>3 DEF Passes
  <2>3. CASE doing.back
    <3>1. Now \in {"render", "generated", "runtime", "act", "oldruntime", "oldgenerated", "again"}
      BY <2>2, <2>3 DEF Edges, Backward, Committing, Retracting
    <3> QED BY <1>1, <2>1, <2>2, <2>3, <3>1 DEF ClientsInv, Own, Frame, Touched
  <2>4. CASE ~doing.back
    <3>1. /\ Now \in {"render", "generated", "runtime", "act", "verify", "unclient", "unkeys"}
          /\ Now' \in {"render", "generated", "runtime", "act", "verify", "unclient", "unkeys", "end"}
          /\ Now' = "unkeys" <=> Now = "unclient"
          /\ Now' = "end" <=> Now = "unkeys"
      BY <2>2, <2>4 DEF Edges, Forward, Committing
    <3> QED BY <1>1, <2>1, <2>2, <2>4, <3>1 DEF ClientsInv, Own, Frame, Touched
  <2> QED BY <2>3, <2>4
<1>4. ~(Profiles \/ Marks \/ Checks)
  BY <1>1 DEF Profiles, Marks, Checks, Sourced
<1> QED BY <1>1, <1>2, <1>3, <1>4, GoingPasses

LEMMA SettingGoes ==
  ASSUME TypeInv, BeforeInv, ClientsInv, Going, doing.op \in {"endpoint", "port"}, wreck' # "damaged"
  PROVE  LET b == doing.before IN
         /\ disk'.keys = b.keys /\ disk'.identity = b.identity
         /\ \A m \in Names : disk'.meta[m] \in {b.meta[m], Target(doing)[m]}
         /\ ~doing'.back => /\ Now' = "config" => disk'.config = b.config /\ disk'.meta = b.meta
                            /\ Now' # "config" => disk'.config = doing.goal
                            /\ Now' \notin {"config", "profiles"} => disk'.meta = Target(doing)
         /\ doing'.back => /\ Now' \in {"oldmetadata", "end"} => disk'.config = b.config
                           /\ Now' = "end" => disk'.meta = b.meta
<1> DEFINE b == doing.before
           T == Target(doing)
<1>1. /\ Frame /\ Sourced(doing.op, doing.back, Now, HeadOr(Tail(todo), "end")) /\ wreck # "damaged"
      /\ doing # None /\ doing.op # "restore" /\ disk \in Disks /\ disk.meta \in Metas /\ b.meta \in Metas
      /\ doing.goal \in Configs /\ b.identity
  BY Ongoing DEF TypeInv, CallInv, BeforeInv, Steady, Ready
<1>2. /\ disk.keys = b.keys /\ disk.identity = b.identity
      /\ \A m \in Names : disk.meta[m] \in {b.meta[m], T[m]}
      /\ ~doing.back => /\ Now = "config" => disk.config = b.config /\ disk.meta = b.meta
                        /\ Now # "config" => disk.config = doing.goal
                        /\ Now \notin {"config", "profiles"} => disk.meta = T
      /\ doing.back => /\ Now \in {"oldmetadata", "end"} => disk.config = b.config
                       /\ Now = "end" => disk.meta = b.meta
  BY <1>1 DEF ClientsInv
<1>3. T = Profiling(b.meta, doing.goal)
  BY DEF Target
<1>4. CASE Fails
  BY <1>1, <1>2, <1>4, FailsTurn DEF Fails
<1>5. CASE Passes
  <2>1. <<Now, Now'>> \in Edges(doing.op, doing.back) /\ doing'.back = doing.back
    BY <1>5 DEF Passes
  <2>2. CASE doing.back
    <3>1. /\ Now \in {"oldruntime", "oldgenerated", "again", "oldconfig", "oldmetadata"}
          /\ Now' \in {"oldmetadata", "end"} <=> Now \in {"oldconfig", "oldmetadata"}
          /\ Now' = "end" <=> Now = "oldmetadata"
      BY <2>1, <2>2 DEF Edges, Backward, Retracting
    <3> QED BY <1>1, <1>2, <1>5, <2>1, <2>2, <3>1 DEF Passes, Wrote
  <2>3. CASE ~doing.back
    <3>1. /\ Now \in {"config", "profiles", "generated", "runtime", "act"}
          /\ Now' # "config"
          /\ Now' = "profiles" <=> Now = "config"
      BY <2>1, <2>3 DEF Edges, Forward
    <3>2. /\ disk'.meta = disk.meta /\ disk'.keys = disk.keys
          /\ disk'.config = IF Now = "config" THEN doing.goal ELSE disk.config
          /\ disk'.identity = IF Now = "config" THEN TRUE ELSE disk.identity
      BY <1>5, <3>1 DEF Passes, Wrote
    <3>3. disk'.identity = b.identity
      BY <1>1, <1>2, <3>2
    <3>4. Now = "profiles" => disk.meta = T
      <4> SUFFICES ASSUME Now = "profiles" PROVE disk.meta = T
        OBVIOUS
      <4>1. OutOfDate = {}
        BY <1>5 DEF Passes, Checked
      <4>2. disk.meta \in Metas /\ b.meta \in Metas /\ doing.goal \in Configs
        BY <1>1
      <4>3. \A m \in Names : disk.meta[m] \in {b.meta[m], Profiling(b.meta, doing.goal)[m]}
        BY <1>2, <1>3
      <4>4. {m \in Described(disk.meta) : disk.meta[m].managed /\ disk.meta[m].profile # doing.goal} = {}
        BY <4>1 DEF OutOfDate
      <4>5. disk.meta = Profiling(b.meta, doing.goal)
        BY <4>2, <4>3, <4>4, ProfilesGiven
      <4> QED BY <1>3, <4>5
    <3> QED BY <1>1, <1>2, <2>1, <2>3, <3>1, <3>2, <3>3, <3>4
  <2> QED BY <2>2, <2>3
<1>6. CASE Profiles
  <2>1. PICK n \in Described(disk.meta) :
           /\ \A m \in Names \ {n} : disk'.meta[m] = disk.meta[m]
           /\ n \in OutOfDate /\ disk'.meta[n] = [disk.meta[n] EXCEPT !.profile = doing.goal]
    BY <1>1, <1>6, LoopField DEF Profiles, Marks
  <2>2. /\ Still /\ disk'.config = disk.config /\ disk'.identity = disk.identity /\ disk'.keys = disk.keys
        /\ Now = "profiles" /\ ~doing.back
    BY <1>1, <1>6, LoopField DEF Profiles, Sourced
  <2>3. disk'.meta[n] = T[n]
    <3>1. disk.meta[n] \notin {None, Partial} /\ disk.meta[n].managed /\ n \in Names
      BY <2>1 DEF OutOfDate, Described
    <3>2. disk.meta[n] \in {b.meta[n], Profiling(b.meta, doing.goal)[n]}
      BY <1>2, <1>3, <3>1
    <3>3. [disk.meta[n] EXCEPT !.profile = doing.goal] = Profiling(b.meta, doing.goal)[n]
      <4>1. disk.meta[n].profile # doing.goal
        BY <2>1 DEF OutOfDate
      <4> QED BY <1>1, <3>1, <3>2, <4>1, ProfileGiven
    <3> QED BY <1>3, <2>1, <3>3
  <2>4. \A m \in Names : disk'.meta[m] \in {b.meta[m], T[m]}
    BY <1>2, <2>1, <2>3
  <2> QED BY <1>1, <1>2, <2>2, <2>4 DEF Still
<1>7. ~(Marks \/ Checks)
  BY <1>1 DEF Marks, Checks, Sourced
<1> QED BY <1>1, <1>4, <1>5, <1>6, <1>7, GoingPasses

LEMMA ExpiryGoes ==
  ASSUME TypeInv, ClientsInv, ExpireFlow, Going, doing.op = "expire", wreck' # "damaged"
  PROVE  LET b == doing.before IN
         /\ disk'.keys = b.keys /\ disk'.identity = b.identity /\ disk'.config = b.config
         /\ \A m \in Names : disk'.meta[m] \in {b.meta[m], Target(doing)[m]}
         /\ doing'.committed \/ (~doing'.back /\ Now' # "mark") => disk'.meta = Target(doing)
         /\ doing'.back /\ ~doing'.committed /\ Now' = "end" => disk'.meta = b.meta
<1> DEFINE b == doing.before
           T == Target(doing)
<1>1. /\ Frame /\ Sourced(doing.op, doing.back, Now, HeadOr(Tail(todo), "end")) /\ wreck # "damaged"
      /\ doing # None /\ doing.op # "restore" /\ disk \in Disks /\ disk.meta \in Metas /\ b.meta \in Metas
  BY Ongoing
<1>2. /\ disk.keys = b.keys /\ disk.identity = b.identity /\ disk.config = b.config
      /\ \A m \in Names : disk.meta[m] \in {b.meta[m], T[m]}
      /\ doing.committed \/ (~doing.back /\ Now # "mark") => disk.meta = T
      /\ doing.back /\ ~doing.committed /\ Now = "end" => disk.meta = b.meta
  BY <1>1 DEF ClientsInv
<1>3. T = Marking(b.meta, doing.now)
  BY DEF Target
<1>4. CASE Fails
  BY <1>1, <1>2, <1>4, FailsTurn DEF Fails
<1>5. CASE Passes
  <2>1. <<Now, Now'>> \in Edges(doing.op, doing.back) /\ doing'.back = doing.back
        /\ doing'.committed = (doing.committed \/ Now = "act")
    BY <1>5 DEF Passes, Told
  <2>2. CASE doing.back
    <3>1. /\ Now \in {"oldruntime", "oldgenerated", "again", "halt", "oldmetadata"}
          /\ Now' = "end" <=> Now \in {"halt", "oldmetadata"}
      BY <2>1, <2>2 DEF Edges, Backward, Retracting
    <3>2. /\ Now = "oldmetadata" => ~doing.committed
          /\ Now = "halt" => doing.committed
      <4>1. /\ todo \in Seq(Steps) /\ todo # <<>> /\ Now = Head(todo)
            /\ PathTo(todo, ExpiryWay(doing.committed), "end")
        BY <1>1, <2>2, HeadFacts, TodoFacts DEF ExpireFlow, Frame, TypeInv
      <4>2. <<Now, HeadOr(Tail(todo), "end")>> \in ExpiryWay(doing.committed)
        BY <4>1, Continued
      <4> QED BY <4>2 DEF Retracting, ExpiryWay
    <3>3. /\ disk'.meta = IF Now = "oldmetadata" THEN b.meta ELSE disk.meta
          /\ disk'.keys = disk.keys /\ disk'.identity = disk.identity /\ disk'.config = disk.config
      BY <1>5, <3>1 DEF Passes, Wrote
    <3> QED BY <1>1, <1>2, <2>1, <2>2, <3>1, <3>2, <3>3
  <2>3. CASE ~doing.back
    <3>1. Now \in {"mark", "render", "generated", "runtime", "act"} /\ Now' # "mark"
      BY <1>5, <2>1, <2>3 DEF Edges, Forward, Committing, Passes, Checked
    <3>2. /\ disk'.meta = disk.meta /\ disk'.keys = disk.keys
          /\ disk'.identity = disk.identity /\ disk'.config = disk.config
      BY <1>5, <3>1 DEF Passes, Wrote
    <3>3. Now = "mark" => disk.meta = T
      <4> SUFFICES ASSUME Now = "mark" PROVE disk.meta = T
        OBVIOUS
      <4>1. Due = {}
        BY <1>5 DEF Passes, Checked
      <4>2. disk.meta \in Metas /\ b.meta \in Metas
        BY <1>1
      <4>3. \A m \in Names : disk.meta[m] \in {b.meta[m], Marking(b.meta, doing.now)[m]}
        BY <1>2, <1>3
      <4>4. {m \in Described(disk.meta) : disk.meta[m].state = "active" /\ Expired(disk.meta[m], doing.now)} = {}
        BY <4>1 DEF Due
      <4>5. disk.meta = Marking(b.meta, doing.now)
        BY <4>2, <4>3, <4>4, MarksGiven
      <4> QED BY <1>3, <4>5
    <3> QED BY <1>1, <1>2, <2>1, <2>3, <3>1, <3>2, <3>3
  <2> QED BY <2>2, <2>3
<1>6. CASE Marks
  <2>1. PICK n \in Described(disk.meta) :
           /\ \A m \in Names \ {n} : disk'.meta[m] = disk.meta[m]
           /\ n \in Due /\ disk'.meta[n] = [disk.meta[n] EXCEPT !.state = "expired"]
    BY <1>1, <1>6, LoopField DEF Profiles, Marks
  <2>2. /\ Still /\ disk'.config = disk.config /\ disk'.identity = disk.identity /\ disk'.keys = disk.keys
        /\ Now = "mark" /\ ~doing.back /\ disk'.meta \in Metas
    BY <1>1, <1>6, LoopField DEF Marks, Sourced
  <2>3. disk.meta[n] \notin {None, Partial} /\ n \in Names /\ disk.meta[n].state = "active" /\ Expired(disk.meta[n], doing.now)
    BY <2>1 DEF Due, Described
  <2>4. disk.meta[n] \in {b.meta[n], Marking(b.meta, doing.now)[n]}
    BY <1>2, <1>3, <2>3
  <2>5. disk'.meta[n] = T[n]
    <3>1. [disk.meta[n] EXCEPT !.state = "expired"] = Marking(b.meta, doing.now)[n]
      BY <1>1, <2>3, <2>4, MarkGiven
    <3> QED BY <1>3, <2>1, <3>1
  <2>6. \A m \in Names : disk'.meta[m] \in {b.meta[m], T[m]}
    BY <1>2, <2>1, <2>5
  <2>7. ~doing.committed
    <3> SUFFICES ASSUME doing.committed PROVE FALSE
      OBVIOUS
    <3>1. disk.meta = T /\ disk.meta[n] \in Records
      BY <1>1, <1>2, <2>1, DescribedRecords
    <3>2. [disk.meta[n] EXCEPT !.state = "expired"] = disk.meta[n]
      BY <2>1, <2>5, <3>1
    <3>3. [disk.meta[n] EXCEPT !.state = "expired"].state = "expired"
      BY <3>1 DEF Records
    <3> QED BY <2>3, <3>2, <3>3
  <2> QED BY <1>1, <1>2, <2>2, <2>6, <2>7 DEF Still
<1>7. CASE Checks
  BY <1>1, <1>2, <1>7 DEF Checks, Sourced
<1>8. ~Profiles
  BY <1>1 DEF Profiles, Sourced
<1> QED BY <1>1, <1>4, <1>5, <1>6, <1>7, <1>8, GoingPasses

(* The other clients, and the files of a command on one client. *)
LEMMA OthersGo ==
  ASSUME TypeInv, ClientsInv, Going, wreck' # "damaged",
         doing.op \in {"initialize", "migrate", "add", "import", "rotate", "revoke"}
  PROVE  LET b == doing.before IN
         /\ \A m \in Names \ {doing.name} : disk'.meta[m] = b.meta[m] /\ disk'.keys[m] = b.keys[m]
         /\ doing.op \in {"add", "import", "rotate", "revoke"} =>
              disk'.config = b.config /\ disk'.identity = b.identity
<1> DEFINE b == doing.before
<1>1. /\ Frame /\ Sourced(doing.op, doing.back, Now, HeadOr(Tail(todo), "end")) /\ wreck # "damaged"
      /\ doing # None /\ doing.op # "restore"
  BY Ongoing
<1>2. /\ \A m \in Names \ {doing.name} : disk.meta[m] = b.meta[m] /\ disk.keys[m] = b.keys[m]
      /\ doing.op \in {"add", "import", "rotate", "revoke"} =>
           disk.config = b.config /\ disk.identity = b.identity
  BY <1>1 DEF ClientsInv
<1>3. CASE Fails
  BY <1>1, <1>2, <1>3 DEF Fails
<1>4. CASE Passes
  <2>1. \A m \in Names \ {doing.name} : disk'.meta[m] = disk.meta[m] /\ disk'.keys[m] = disk.keys[m]
    BY <1>4, OwnStep DEF Touched, Making
  <2>2. doing.op \in {"add", "import", "rotate", "revoke"} =>
          disk'.config = disk.config /\ disk'.identity = disk.identity
    BY <1>1, <1>4 DEF Passes, Wrote, Sourced
  <2> QED BY <1>2, <2>1, <2>2
<1>5. ~(Profiles \/ Marks \/ Checks)
  BY <1>1 DEF Profiles, Marks, Checks, Sourced
<1> QED BY <1>1, <1>3, <1>4, <1>5, GoingPasses

LEMMA SetupGoes ==
  ASSUME TypeInv, ClientsInv, Going, wreck' # "damaged", doing.op \in {"initialize", "migrate"}
  PROVE  /\ ~doing'.back /\ Now' # "config" => disk'.config = doing.goal /\ disk'.identity
         /\ doing'.back /\ Now' \in {"unclient", "unkeys", "noruntime", "end"} => disk'.config = None
<1>1. /\ Frame /\ Sourced(doing.op, doing.back, Now, HeadOr(Tail(todo), "end")) /\ wreck # "damaged"
      /\ doing # None /\ doing.op # "restore"
  BY Ongoing
<1>2. /\ ~doing.back /\ Now # "config" => disk.config = doing.goal /\ disk.identity
      /\ doing.back /\ Now \in {"unclient", "unkeys", "noruntime", "end"} => disk.config = None
  BY <1>1 DEF ClientsInv
<1>3. CASE Fails
  BY <1>1, <1>3, FailsTurn
<1>4. CASE Passes
  <2>1. <<Now, Now'>> \in Edges(doing.op, doing.back) /\ doing'.back = doing.back
    BY <1>4 DEF Passes
  <2>2. CASE doing.back
    <3>1. /\ Now' \in {"unclient", "unkeys", "noruntime", "end"} =>
               Now \in {"unconfigure", "unclient", "unkeys", "noruntime"}
          /\ Now \notin {"config", "oldconfig"}
      BY <2>1, <2>2 DEF Edges, Backward
    <3> QED BY <1>2, <1>4, <2>1, <2>2, <3>1 DEF Passes, Wrote
  <2>3. CASE ~doing.back
    <3>1. Now \notin {"oldconfig", "unconfigure"}
      BY <2>1, <2>3 DEF Edges, Forward, Committing
    <3> QED BY <1>2, <1>4, <2>1, <2>3, <3>1 DEF Passes, Wrote
  <2> QED BY <2>2, <2>3
<1>5. ~(Profiles \/ Marks \/ Checks)
  BY <1>1 DEF Profiles, Marks, Checks, Sourced
<1> QED BY <1>1, <1>3, <1>4, <1>5, GoingPasses

LEMMA GoingClients ==
  ASSUME TypeInv, BeforeInv, ClientsInv, ExpireFlow, Going
  PROVE  ClientsInv'
<1>1. CASE wreck' = "damaged"
  BY <1>1 DEF ClientsInv
<1>2. CASE wreck' # "damaged"
  <2>1. Frame /\ doing'.goal = doing.goal /\ doing.op \in Ops
    BY GoalFrame DEF Calls
  <2>2. Target(doing)' = Target(doing)
    BY <2>1 DEF Target, Frame
  <2>3. CASE doing.op \in Making \cup {"revoke"}
    <3>1. doing.op \in Making => MakingInv'
      BY <1>2, MakingGoes
    <3>2. doing.op = "revoke" =>
            /\ doing'.back \/ Now' \notin {"unkeys", "end"} =>
                 Own(doing.before.meta[doing.name], doing.before.keys[doing.name])'
            /\ ~doing'.back /\ Now' = "unkeys" => Own(None, doing.before.keys[doing.name])'
            /\ ~doing'.back /\ Now' = "end" => Own(None, None)'
      BY <1>2, RevokeGoes
    <3>3. /\ \A m \in Names \ {doing.name} :
               disk'.meta[m] = doing.before.meta[m] /\ disk'.keys[m] = doing.before.keys[m]
          /\ doing.op \in {"add", "import", "rotate", "revoke"} =>
               disk'.config = doing.before.config /\ disk'.identity = doing.before.identity
      BY <1>2, <2>3, OthersGo DEF Making
    <3>4. doing.op \in {"initialize", "migrate"} =>
            /\ ~doing'.back /\ Now' # "config" => disk'.config = doing.goal /\ disk'.identity
            /\ doing'.back /\ Now' \in {"unclient", "unkeys", "noruntime", "end"} => disk'.config = None
      BY <1>2, SetupGoes
    <3> QED BY <2>1, <2>3, <3>1, <3>2, <3>3, <3>4 DEF ClientsInv, Frame, Own, Making
  <2>4. CASE doing.op \in {"endpoint", "port"}
    BY <1>2, <2>1, <2>2, <2>4, SettingGoes DEF ClientsInv, Frame, Making
  <2>5. CASE doing.op = "expire"
    BY <1>2, <2>1, <2>2, <2>5, ExpiryGoes DEF ClientsInv, Frame, Making
  <2>6. CASE doing.op = "restore"
    BY <2>1, <2>6 DEF ClientsInv, Frame, Making
  <2> QED BY <2>1, <2>3, <2>4, <2>5, <2>6 DEF Ops, Making
<1> QED BY <1>1, <1>2

-----------------------------------------------------------------------------
(* What is rendered, and of which clients *)

(* Two lists of clients with the same keys, addresses and eligible clients serve the same. *)
LEMMA RenderAlike ==
  ASSUME NEW meta \in Metas, NEW other \in Metas, NEW config, NEW d,
         Described(other) = Described(meta),
         \A m \in Described(meta) :
           /\ other[m].key = meta[m].key /\ other[m].addr = meta[m].addr
           /\ Eligible(other[m], d) <=> Eligible(meta[m], d)
  PROVE  Render(config, other, d) = Render(config, meta, d)
<1>1. {m \in Described(other) : Eligible(other[m], d)} = {m \in Described(meta) : Eligible(meta[m], d)}
  OBVIOUS
<1> QED BY <1>1 DEF Render

LEMMA RenderProfiling ==
  ASSUME NEW meta \in Metas, NEW goal \in Configs, NEW config, NEW d
  PROVE  Render(config, Profiling(meta, goal), d) = Render(config, meta, d)
<1> DEFINE p == Profiling(meta, goal)
<1>1. p \in Metas /\ None \notin Records /\ Partial \notin Records
  BY ProfilingTyped, NoneAssumption DEF NoneAssumption
<1>2. \A m \in Names : p[m] = IF m \in Described(meta) /\ meta[m].managed
                              THEN [meta[m] EXCEPT !.profile = goal] ELSE meta[m]
  BY DEF Profiling
<1>3. \A m \in Described(meta) : m \in Names /\ meta[m] \in Records
  BY DescribedRecords DEF Described
<1> HIDE DEF p
<1>4. ASSUME NEW m \in Described(meta)
      PROVE  /\ p[m] \in Records /\ p[m].key = meta[m].key /\ p[m].addr = meta[m].addr
             /\ p[m].state = meta[m].state /\ p[m].expires = meta[m].expires
  <2>1. m \in Names /\ meta[m] \in Records
    BY <1>3, <1>4
  <2>2. CASE p[m] = meta[m]
    BY <2>1, <2>2
  <2>3. CASE p[m] = [meta[m] EXCEPT !.profile = goal]
    BY <2>1, <2>3 DEF Records
  <2> QED BY <1>2, <2>1, <2>2, <2>3
<1>5. Described(p) = Described(meta)
  BY <1>1, <1>2, <1>4 DEF Described
<1>6. \A m \in Described(meta) : Eligible(p[m], d) <=> Eligible(meta[m], d)
  BY <1>4 DEF Eligible, Expired
<1>7. Render(config, p, d) = Render(config, meta, d)
  BY <1>1, <1>4, <1>5, <1>6, RenderAlike
<1> QED BY <1>7 DEF p

LEMMA RenderMarking ==
  ASSUME NEW meta \in Metas, NEW config, NEW d
  PROVE  Render(config, Marking(meta, d), d) = Render(config, meta, d)
<1> DEFINE p == Marking(meta, d)
<1>1. p \in Metas /\ None \notin Records /\ Partial \notin Records
  BY MarkingTyped, NoneAssumption DEF NoneAssumption
<1>2. \A m \in Names : p[m] = IF m \in Described(meta) /\ meta[m].state = "active" /\ Expired(meta[m], d)
                              THEN [meta[m] EXCEPT !.state = "expired"] ELSE meta[m]
  BY DEF Marking
<1>3. \A m \in Described(meta) : m \in Names /\ meta[m] \in Records
  BY DescribedRecords DEF Described
<1> HIDE DEF p
<1>4. ASSUME NEW m \in Described(meta)
      PROVE  /\ p[m] \in Records /\ p[m].key = meta[m].key /\ p[m].addr = meta[m].addr
             /\ p[m].expires = meta[m].expires
             /\ \/ p[m].state = meta[m].state
                \/ p[m].state = "expired" /\ Expired(meta[m], d)
  BY <1>2, <1>3 DEF Records
<1>5. Described(p) = Described(meta)
  BY <1>1, <1>2, <1>4 DEF Described
<1>6. \A m \in Described(meta) : Eligible(p[m], d) <=> Eligible(meta[m], d)
  BY <1>4 DEF Eligible, Expired
<1>7. Render(config, p, d) = Render(config, meta, d)
  BY <1>1, <1>4, <1>5, <1>6, RenderAlike
<1> QED BY <1>7 DEF p

(* The hand-made server serves what the first rendered configuration does. *)
LEMMA RenderLegacy ==
  ASSUME NEW n \in Names, NEW d
  PROVE  Render(FirstConfig, [m \in Names |-> IF m = n THEN NewRecord(1, 1, None, None) ELSE None], d)
           = LegacyText
<1> DEFINE meta == [m \in Names |-> IF m = n THEN NewRecord(1, 1, None, None) ELSE None]
<1>1. NewRecord(1, 1, None, None) \in Records
  BY FirstValues DEF NewRecord, Records
<1>2. meta[n] = NewRecord(1, 1, None, None) /\ meta[n] \notin {None, Partial}
  BY <1>1, NoneAssumption DEF NoneAssumption
<1>3. /\ meta[n].key = 1 /\ meta[n].addr = 1 /\ Eligible(meta[n], d)
  BY <1>2 DEF NewRecord, Eligible, Expired
<1>4. Described(meta) = {n}
  BY <1>2 DEF Described
<1> HIDE DEF meta
<1>5. {m \in Described(meta) : Eligible(meta[m], d)} = {n}
  BY <1>3, <1>4
<1>6. Render(FirstConfig, meta, d) = [port |-> 0, peers |-> {[key |-> 1, addr |-> 1]}]
  BY <1>3, <1>5 DEF Render, FirstConfig
<1> QED BY <1>6 DEF LegacyText, meta

(* The server configuration a command found serves what it found. *)
LEMMA FoundServes ==
  ASSUME TypeInv, BeforeInv, doing # None, doing.op \in Steady, wreck # "damaged"
  PROVE  /\ Serving(doing.before.generated, doing.before.config, doing.before.meta, day, wreck)
         /\ doing.before.runtime = doing.before.generated
         /\ doing.before.config \in Configs /\ doing.before.identity
<1>1. doing.before \in Disks
  BY DEF TypeInv, TypeOK, Calls
<1>2. /\ Sane(doing.before, wreck, day) /\ Ready(doing.before)
      /\ doing.before.runtime = doing.before.generated
      /\ Live(doing.before.meta, day) \subseteq doing.before.generated.peers
  BY DEF BeforeInv
<1>3. doing.before.config # None /\ doing.before.identity
  BY <1>2 DEF Ready
<1>4. Inside(doing.before.generated, doing.before.config, doing.before.meta, day, wreck)
  BY <1>2, <1>3 DEF Sane, Good
<1> QED BY <1>1, <1>2, <1>3, <1>4 DEF Serving, Disks

(* A text rendered of what a command found, since it began, serves it. *)
LEMMA RenderedServes ==
  ASSUME TypeInv, doing # None, doing.before.config \in Configs, NEW text,
         Rendered(text, doing.before.config, doing.before.meta), NEW w
  PROVE  Serving(text, doing.before.config, doing.before.meta, day, w)
<1>1. PICK d \in doing.now..day : text = Render(doing.before.config, doing.before.meta, d)
  BY DEF Rendered
<1>2. doing \in Calls /\ doing.now \in Days /\ day \in Days /\ doing.before.meta \in Metas
  BY DEF TypeInv, TypeOK, Calls, Disks, Metas
<1>3. d \in Days /\ d <= day
  BY <1>2, BoundAssumption DEF Days
<1> QED BY <1>1, <1>2, <1>3, RenderServes

(* What the commit renders is what the command makes of the clients. *)
LEMMA TargetServed ==
  ASSUME TypeInv, BeforeInv, ClientsInv, doing # None, wreck # "damaged", Now = "render", ~doing.back,
         doing.op \in Rendering \cup {"expire"}, Sourced(doing.op, doing.back, Now, Now')
  PROVE  Served = Target(doing) /\ disk.config = GoalConfig(doing)
<1>1. disk \in Disks /\ doing \in Calls /\ disk.meta \in Metas /\ doing.before.meta \in Metas
  BY DEF TypeInv, TypeOK, Calls, Disks, Metas
<1>2. doing.op \in {"initialize", "migrate", "add", "revoke", "rotate", "expire"}
  BY DEF Sourced
<1>3. disk.config = GoalConfig(doing)
  BY <1>2 DEF ClientsInv, GoalConfig
<1>4. CASE doing.op \in {"initialize", "migrate"}
  <2> DEFINE T == [m \in Names |-> IF m = doing.name THEN doing.record ELSE None]
  <2>1. Served = T
    BY <1>4 DEF Served
  <2>2. Target(doing) = T
    BY <1>4 DEF Target
  <2> QED BY <1>3, <2>1, <2>2, Zenon
<1>5. CASE doing.op \in {"add", "rotate"}
  <2>1. /\ doing.name \in Names /\ doing.record \in Records /\ disk.meta[doing.name] = doing.record
        /\ \A m \in Names \ {doing.name} : disk.meta[m] = doing.before.meta[m]
    BY <1>5 DEF ClientsInv, MakingInv, Own, Making, TypeInv, CallInv
  <2> DEFINE T == [doing.before.meta EXCEPT ![doing.name] = doing.record]
  <2>2. T \in Metas /\ T[doing.name] = doing.record
        /\ \A m \in Names \ {doing.name} : T[m] = doing.before.meta[m]
    BY <1>1, <2>1 DEF Metas
  <2> HIDE DEF T
  <2>3. disk.meta = T
    BY <1>1, <2>1, <2>2, SameMetas
  <2> QED BY <1>3, <1>5, <2>3 DEF Served, Target, T
<1>6. CASE doing.op = "revoke"
  <2>1. /\ doing.name \in Names
        /\ disk.meta[doing.name] = doing.before.meta[doing.name]
        /\ \A m \in Names \ {doing.name} : disk.meta[m] = doing.before.meta[m]
    BY <1>6 DEF ClientsInv, Own, TypeInv, CallInv
  <2>2. disk.meta = doing.before.meta
    BY <1>1, <2>1, SameMetas
  <2> QED BY <1>3, <1>6, <2>2 DEF Served, Target
<1>7. CASE doing.op = "expire"
  BY <1>3, <1>7 DEF Served, ClientsInv
<1> QED BY <1>2, <1>3, <1>4, <1>5, <1>6, <1>7

(* The step at hand has a place on the command's path. *)
LEMMA NowEdge ==
  ASSUME TypeInv, todo # <<>>, doing.op # "restore"
  PROVE  <<Now, HeadOr(Tail(todo), "end")>> \in Edges(doing.op, doing.back)
<1>1. todo \in Seq(Steps) /\ PathTo(todo, Edges(doing.op, doing.back), "end") /\ Now = Head(todo)
  BY HeadFacts, TodoFacts DEF TypeInv, FlowInv
<1> QED BY <1>1, Continued

-----------------------------------------------------------------------------
(* The texts of a command that goes well *)

LEMMA ForthGoes ==
  ASSUME TypeInv, BeforeInv, ClientsInv, TextInv, Going, wreck' # "damaged", doing.op \in Rendering
  PROVE  ForthTexts'
<1> SUFFICES ASSUME ~doing'.back PROVE ForthTexts'
  BY DEF ForthTexts
<1> DEFINE b == doing.before
<1>1. /\ Frame /\ doing'.goal = doing.goal /\ doing \in Calls /\ doing # None /\ wreck # "damaged"
      /\ doing.op \in Ops \ {"restore"} /\ disk \in Disks /\ b.meta \in Metas /\ Now # "end" /\ doing.back \in BOOLEAN
      /\ Sourced(doing.op, doing.back, Now, HeadOr(Tail(todo), "end"))
  BY Ongoing DEF Rendering
<1>2. ~doing.back
  BY <1>1 DEF Frame
<1>3. ForthTexts /\ wreck # "damaged"
  BY <1>1 DEF TextInv
<1>4. Found' = Found /\ Target(doing)' = Target(doing) /\ GoalConfig(doing)' = GoalConfig(doing)
  BY <1>1 DEF Found, Target, GoalConfig, Frame
<1>5. doing'.op = doing.op /\ doing'.before = doing.before /\ doing'.now = doing.now /\ day' = day
  BY <1>1 DEF Frame
<1>6. CASE Passes
  <2>1. <<Now, Now'>> \in Forward(doing.op) /\ Wrote /\ Told
    BY <1>2, <1>6 DEF Passes, Edges
  <2>2. /\ disk'.generated = IF Now = "generated" THEN doing.text ELSE disk.generated
        /\ disk'.runtime = IF Now = "runtime" THEN doing.text ELSE disk.runtime
    BY <1>1, <1>2, <2>1 DEF Wrote, Sourced
  <2>3. CASE Now = "render"
    <3>1. Now' = "generated"
      BY <1>1, <2>1, <2>3 DEF Forward, Committing, Rendering
    <3>2. Served = Target(doing) /\ disk.config = GoalConfig(doing)
      <4>1. Sourced(doing.op, doing.back, Now, Now')
        BY <1>1, <1>6, Sources DEF Passes
      <4> QED BY <1>1, <1>2, <2>3, <4>1, TargetServed
    <3>3. doing'.text = Render(GoalConfig(doing), Target(doing), day)
      BY <2>1, <2>3, <3>2 DEF Told, Rendering
    <3>4. Rendered(doing.text, GoalConfig(doing), Target(doing))'
      <4>1. day \in doing.now..day
        BY <1>1, BoundAssumption DEF TypeInv, TypeOK, CallInv, Calls, Days
      <4> QED BY <1>4, <1>5, <3>3, <4>1 DEF Rendered
    <3>5. Pair(b.generated, b.runtime)
      BY <1>2, <1>3, <2>3 DEF ForthTexts, Late
    <3>6. Pair(b.generated, b.runtime)' /\ doing'.prior = Found
      BY <2>1, <2>2, <2>3, <3>5, <1>5 DEF Pair, Told, Found
    <3> QED BY <1>4, <1>5, <3>1, <3>4, <3>6 DEF ForthTexts, Late
  <2>4. CASE Now # "render"
    <3>1. doing'.text = doing.text /\ doing'.prior = doing.prior
      BY <2>1, <2>4 DEF Told
    <3>2. CASE Now = "profiles"
      <4>1. Now' = "generated" /\ doing.op \in {"endpoint", "port"}
        BY <1>1, <2>1, <3>2 DEF Forward, Committing, Sourced
      <4>2. doing.text = Render(doing.goal, b.meta, doing.now) /\ doing.goal \in Configs
        BY <1>1, <4>1 DEF BeforeInv, TypeInv, CallInv
      <4>3. Render(doing.goal, Target(doing), doing.now) = Render(doing.goal, b.meta, doing.now)
        BY <1>1, <4>1, <4>2, RenderProfiling DEF Target
      <4>4. doing.now \in doing.now..day
        BY <1>1, BoundAssumption DEF TypeInv, TypeOK, CallInv, Calls, Days
      <4>5. Rendered(doing.text, GoalConfig(doing), Target(doing))
        BY <4>1, <4>2, <4>3, <4>4 DEF Rendered, GoalConfig
      <4>6. Rendered(doing.text, GoalConfig(doing), Target(doing))'
        BY <1>4, <1>5, <3>1, <4>5 DEF Rendered
      <4> QED BY <1>2, <1>3, <1>4, <1>5, <2>2, <3>1, <3>2, <4>1, <4>6 DEF ForthTexts, Late, Pair
    <3>3. CASE Now \in {"generated", "runtime"} \/ Late
      <4>1. /\ Rendered(doing.text, GoalConfig(doing), Target(doing))
            /\ Now' \in {"runtime"} <=> Now = "generated"
            /\ Late' <=> Now # "generated"
            /\ Now' # "generated"
        BY <1>1, <1>2, <1>3, <1>5, <2>1, <3>3 DEF ForthTexts, Late, Forward, Committing, Rendering
      <4>2. Rendered(doing.text, GoalConfig(doing), Target(doing))'
        BY <1>4, <1>5, <3>1, <4>1 DEF Rendered
      <4> QED BY <1>2, <1>3, <1>4, <1>5, <2>2, <3>1, <3>3, <4>1, <4>2 DEF ForthTexts, Late, Pair
    <3>4. CASE Now \notin {"profiles", "generated", "runtime"} /\ ~Late
      <4>1. Now' \notin {"generated", "runtime"} /\ ~Late'
        BY <1>1, <1>5, <2>1, <2>4, <3>4 DEF Late, Forward, Committing, Rendering
      <4> QED BY <1>2, <1>3, <1>4, <1>5, <2>2, <3>1, <3>4, <4>1 DEF ForthTexts, Late, Pair
    <3> QED BY <3>2, <3>3, <3>4
  <2> QED BY <2>3, <2>4
<1>7. CASE Profiles
  <2>1. Still /\ Now = "profiles" /\ disk'.generated = disk.generated /\ disk'.runtime = disk.runtime
    BY <1>1, <1>7, LoopField DEF Profiles
  <2> QED BY <1>2, <1>3, <1>5, <2>1 DEF ForthTexts, Still, Late, Pair, Found
<1>8. ~(Fails \/ Marks \/ Checks)
  BY <1>1 DEF Fails, Marks, Checks, Sourced, Rendering
<1> QED BY <1>1, <1>6, <1>7, <1>8, GoingPasses

-----------------------------------------------------------------------------
(* The texts of a command that is taken back *)

LEMMA BackGoes ==
  ASSUME TypeInv, BeforeInv, ClientsInv, TextInv, LinkInv, Going, wreck' # "damaged",
         doing.op \in {"add", "revoke", "rotate", "endpoint", "port"}
  PROVE  BackTexts'
<1> SUFFICES ASSUME doing'.back PROVE BackTexts'
  BY DEF BackTexts
<1> DEFINE b == doing.before
<1>1. /\ Frame /\ doing'.goal = doing.goal /\ doing \in Calls /\ doing # None /\ wreck # "damaged"
      /\ doing.op \in Ops \ {"restore"} /\ disk \in Disks /\ b.meta \in Metas /\ Now # "end"
      /\ Sourced(doing.op, doing.back, Now, HeadOr(Tail(todo), "end"))
  BY Ongoing
<1>2. doing.op \in Steady /\ doing.op # "expire" /\ wreck' = wreck
  BY Ongoing DEF Steady
<1>3. /\ Serving(b.generated, b.config, b.meta, day, wreck)
      /\ b.runtime = b.generated /\ b.config \in Configs
  BY <1>1, <1>2, FoundServes
<1>4. doing'.op = doing.op /\ doing'.before = doing.before /\ doing'.now = doing.now /\ day' = day
      /\ Found' = Found
  BY <1>1 DEF Frame, Found
<1>5. CASE Fails
  <2>1. /\ ~doing.back /\ disk' = disk /\ doing'.prior = doing.prior
        /\ ForthTexts /\ MovedLink
    BY <1>1, <1>5, FailsTurn DEF Fails, TextInv, LinkInv
  <2>2. doing.prior = Found
    BY <2>1 DEF ForthTexts, Rendering
  <2>3. CASE Now' \in Settling
    <3>1. /\ Now # "act"
          /\ doing.op \in Committers => ~doing.committed
      <4>1. doing.op \in Committers =>
              /\ Now = "act" => Now' = "oldruntime"
              /\ Now # "act" => Now' = IF doing.committed THEN "render" ELSE Mending(doing)
        BY <1>1, <1>5, FailsTurn
      <4>2. doing.op \in {"port"} /\ Now = "act" => Now' = "oldruntime"
        BY <1>1, <1>5, FailsTurn
      <4>3. doing.op = "endpoint" => Now # "act"
        BY <1>1 DEF Sourced
      <4> QED BY <2>3, <4>1, <4>2, <4>3 DEF Settling, Committers
    <3>2. ~Late
      <4>1. doing.op \in Committers => ~Late
        BY <2>1, <3>1 DEF MovedLink
      <4>2. doing.op \in {"endpoint", "port"} => ~Late
        <5>1. <<Now, HeadOr(Tail(todo), "end")>> \in Edges(doing.op, doing.back)
          BY <1>1, NowEdge DEF Frame
        <5> QED BY <1>1, <2>1, <3>1, <5>1 DEF Late, Edges, Forward
      <4> QED BY <4>1, <4>2 DEF Committers
    <3>3. disk.generated = b.generated /\ disk.runtime = b.runtime
      <4>1. CASE Now = "runtime"
        <5>1. disk.generated = disk.runtime
          BY <1>5, <4>1 DEF Fails, Torn
        <5> QED BY <1>3, <2>1, <4>1, <5>1 DEF ForthTexts, Rendering, Pair
      <4>2. CASE Now # "runtime"
        BY <2>1, <3>2, <4>2 DEF ForthTexts, Rendering, Pair
      <4> QED BY <4>1, <4>2
    <3> QED BY <1>2, <1>3, <1>4, <2>1, <2>3, <3>3 DEF BackTexts, Settling
  <2>4. CASE Now' \in {"oldruntime", "render"}
    BY <1>4, <2>1, <2>2, <2>4 DEF BackTexts, Settling
  <2> QED BY <1>1, <1>5, <2>3, <2>4, FailsTurn DEF Settling
<1>6. CASE Passes
  <2>1. <<Now, Now'>> \in Backward(doing.op) /\ Wrote /\ Told /\ doing.back
    BY <1>6 DEF Passes, Edges
  <2>2. /\ disk'.generated = CASE Now = "generated" -> doing.text
                               [] Now = "oldgenerated" -> doing.prior.generated
                               [] OTHER -> disk.generated
        /\ disk'.runtime = CASE Now = "runtime" -> doing.text
                             [] Now = "oldruntime" -> doing.prior.runtime
                             [] OTHER -> disk.runtime
    BY <1>1, <2>1 DEF Wrote, Sourced
  <2>3. BackTexts
    BY <1>1 DEF TextInv
  <2>4. CASE Now = "oldruntime"
    <3>1. Now' = "oldgenerated" /\ doing'.prior = doing.prior
      BY <1>1, <2>1, <2>4 DEF Backward, Committing, Retracting, Told
    <3> QED BY <1>4, <2>1, <2>2, <2>3, <2>4, <3>1 DEF BackTexts, Settling, Found
  <2>5. CASE Now = "oldgenerated"
    <3>1. Now' = "again"
      BY <1>1, <2>1, <2>5 DEF Backward, Committing, Retracting
    <3> QED BY <1>4, <2>1, <2>2, <2>3, <2>5, <3>1 DEF BackTexts, Settling, Found, Pair
  <2>6. CASE Now = "again"
    <3>1. Now' \in Settling \cup {"render"}
      BY <1>1, <2>1, <2>6 DEF Backward, Committing, Retracting, Settling
    <3>2. disk'.generated = b.generated /\ disk'.runtime = b.generated
      BY <1>3, <2>1, <2>2, <2>3, <2>6 DEF BackTexts, Pair
    <3> QED BY <1>2, <1>3, <1>4, <3>1, <3>2 DEF BackTexts, Settling
  <2>7. CASE Now = "render"
    <3>1. Now' = "generated" /\ doing.op \in {"add", "revoke", "rotate"}
      BY <1>1, <2>1, <2>7 DEF Backward, Committing, Retracting, Sourced
    <3>2. disk.config = b.config
      BY <1>1, <3>1 DEF ClientsInv
    <3>3. doing'.text = Render(b.config, b.meta, day)
      BY <1>2, <2>1, <2>7, <3>2 DEF Told, Served
    <3>4. day \in doing.now..day
      BY <1>1, BoundAssumption DEF TypeInv, TypeOK, CallInv, Calls, Days
    <3>5. Rendered(doing.text, b.config, b.meta)'
      BY <1>4, <3>3, <3>4 DEF Rendered
    <3> QED BY <1>4, <3>1, <3>5 DEF BackTexts, Settling
  <2>8. CASE Now \in {"generated", "runtime"}
    <3>1. /\ doing'.text = doing.text /\ Rendered(doing.text, b.config, b.meta)
          /\ Now' = IF Now = "generated" THEN "runtime" ELSE "act"
      BY <1>1, <2>1, <2>3, <2>8 DEF Backward, Committing, Retracting, Told, BackTexts
    <3>2. Rendered(doing.text, b.config, b.meta)'
      BY <1>4, <3>1 DEF Rendered
    <3> QED BY <1>4, <2>1, <2>2, <2>3, <2>8, <3>1, <3>2 DEF BackTexts, Settling, Pair
  <2>9. CASE Now = "act"
    <3>1. Now' \in Settling
      BY <1>1, <2>1, <2>9 DEF Backward, Committing, Retracting, Settling
    <3>2. Rendered(doing.text, b.config, b.meta) /\ Pair(doing.text, doing.text)
      BY <2>1, <2>3, <2>9 DEF BackTexts
    <3>3. Serving(doing.text, b.config, b.meta, day, wreck)
      BY <1>1, <1>3, <3>2, RenderedServes
    <3>4. disk'.generated = doing.text /\ disk'.runtime = doing.text
      BY <2>2, <2>9, <3>2 DEF Pair
    <3> QED BY <1>2, <1>4, <3>1, <3>3, <3>4 DEF BackTexts, Settling
  <2>10. CASE Now \in Settling
    <3>1. Now' \in Settling
      BY <1>1, <2>1, <2>10 DEF Backward, Committing, Retracting, Settling
    <3> QED BY <1>2, <1>4, <2>1, <2>2, <2>3, <2>10, <3>1 DEF BackTexts, Settling
  <2> QED BY <1>1, <2>1, <2>4, <2>5, <2>6, <2>7, <2>8, <2>9, <2>10
         DEF Backward, Committing, Retracting, Settling
<1>7. ~(Profiles \/ Marks \/ Checks)
  BY <1>1 DEF Profiles, Marks, Checks, Sourced, Still
<1> QED BY <1>1, <1>5, <1>6, <1>7, GoingPasses

-----------------------------------------------------------------------------
(* The texts of import, of the first server and of the expiry *)

LEMMA SetupTextsGo ==
  ASSUME TypeInv, BeforeInv, ClientsInv, TextInv, Going, wreck' # "damaged", doing.op # "restore"
  PROVE  SetupTexts'
<1>1. /\ Frame /\ doing \in Calls /\ doing # None /\ wreck # "damaged" /\ todo # <<>>
      /\ Sourced(doing.op, doing.back, Now, HeadOr(Tail(todo), "end"))
  BY Ongoing DEF Frame
<1>2. SetupTexts /\ ForthTexts
  BY <1>1 DEF TextInv
<1>3. doing'.op = doing.op /\ doing'.before = doing.before
  BY <1>1 DEF Frame
<1>4. CASE doing.op \notin {"import", "initialize", "migrate"}
  BY <1>3, <1>4 DEF SetupTexts
<1>5. ASSUME doing.op \in {"import", "initialize", "migrate"}, Fails
      PROVE  SetupTexts'
  <2>1. /\ ~doing.back /\ disk' = disk /\ doing'.prior = doing.prior
        /\ doing.op = "initialize" => Now' = "halt"
        /\ doing.op = "migrate" => Now' = "oldruntime"
    BY <1>1, <1>5, FailsTurn DEF Fails
  <2>2. CASE doing.op = "import"
    BY <1>2, <1>3, <2>1, <2>2 DEF SetupTexts, Pair
  <2>3. CASE doing.op \in {"initialize", "migrate"}
    BY <1>2, <1>3, <2>1, <2>3 DEF SetupTexts
  <2> QED BY <1>5, <2>2, <2>3
<1>6. ASSUME doing.op \in {"import", "initialize", "migrate"}, Passes
      PROVE  SetupTexts'
  <2>1. <<Now, Now'>> \in Edges(doing.op, doing.back) /\ doing'.back = doing.back /\ Wrote /\ Told
    BY <1>6 DEF Passes
  <2>2. CASE doing.op = "import"
    <3>1. disk'.generated = disk.generated /\ disk'.runtime = disk.runtime
      BY <1>1, <2>1, <2>2 DEF Wrote, Sourced, Edges, Forward, Backward
    <3> QED BY <1>2, <1>3, <2>2, <3>1 DEF SetupTexts, Pair
  <2>3. CASE doing.op = "initialize"
    <3>1. doing.back /\ Now' = "end" => Now = "noruntime"
      BY <2>1, <2>3 DEF Edges, Backward
    <3> QED BY <1>3, <2>1, <2>3, <3>1 DEF SetupTexts, Wrote
  <2>4. CASE doing.op = "migrate"
    <3>1. Now = "render" => disk.runtime = doing.before.runtime
      <4>1. Now = "render" => ~doing.back
        BY <1>1, <2>4 DEF Sourced
      <4> QED BY <1>2, <2>4, <4>1 DEF ForthTexts, Rendering, Late, Pair
    <3>2. doing'.prior.runtime = doing.before.runtime
      BY <1>2, <2>1, <2>4, <3>1 DEF SetupTexts, Told
    <3>3. doing.back => /\ Now \notin {"runtime", "noruntime"}
                        /\ Now' # "oldruntime"
      BY <2>1, <2>4 DEF Edges, Backward
    <3>4. doing.back => disk'.runtime = IF Now = "oldruntime" THEN doing.prior.runtime ELSE disk.runtime
      BY <2>1, <3>3 DEF Wrote
    <3> QED BY <1>2, <1>3, <2>1, <2>4, <3>2, <3>3, <3>4 DEF SetupTexts
  <2> QED BY <1>6, <2>2, <2>3, <2>4
<1>7. ASSUME doing.op \in {"import", "initialize", "migrate"} PROVE ~(Profiles \/ Marks \/ Checks)
  BY <1>1, <1>7 DEF Profiles, Marks, Checks, Sourced
<1> QED BY <1>4, <1>5, <1>6, <1>7, GoingPasses

LEMMA ExpiryTextsGo ==
  ASSUME TypeInv, BeforeInv, ClientsInv, TextInv, ExpireFlow, Going, wreck' # "damaged",
         doing.op = "expire"
  PROVE  ExpiryTexts'
<1> DEFINE b == doing.before
<1>1. /\ Frame /\ doing \in Calls /\ doing # None /\ wreck # "damaged" /\ todo # <<>> /\ Now # "end"
      /\ disk.meta \in Metas /\ b.meta \in Metas /\ doing.back \in BOOLEAN /\ doing.committed \in BOOLEAN
      /\ Sourced(doing.op, doing.back, Now, HeadOr(Tail(todo), "end"))
  BY Ongoing DEF Frame, Calls
<1>2. ExpiryTexts
  BY <1>1 DEF TextInv
<1>3. doing'.op = doing.op /\ doing'.before = doing.before /\ doing'.now = doing.now
  BY <1>1 DEF Frame
<1>4. Newest' = Newest
  BY <1>3 DEF Newest
<1>5. doing'.committed = doing.committed => Standing' = Standing /\ Stood' = Stood
  BY <1>3, <1>4 DEF Standing, Stood
<1>6. doing.committed => Standing = Newest
  BY DEF Standing
<1>7. CASE Fails
  <2>1. /\ ~doing.back /\ doing'.back /\ disk' = disk /\ doing'.prior = doing.prior
        /\ doing'.committed = doing.committed
        /\ Now = "act" => Now' = "oldruntime"
        /\ Now # "act" => Now' \in {"halt", "oldmetadata"}
    BY <1>1, <1>7, FailsTurn DEF Fails
  <2>2. CASE Now = "act"
    BY <1>2, <1>3, <1>4, <1>5, <2>1, <2>2 DEF ExpiryTexts, Pair
  <2>3. CASE Now # "act"
    <3>1. Now \in {"mark", "render", "generated", "runtime", "check", "recheck"}
      <4>1. <<Now, HeadOr(Tail(todo), "end")>> \in Edges(doing.op, doing.back)
        BY <1>1, NowEdge
      <4> QED BY <2>1, <2>3, <4>1 DEF Edges, Forward, Committing
    <3>2. Pair(Standing, Standing)
      <4>1. CASE Now = "runtime"
        <5>1. disk.generated = disk.runtime
          BY <1>7, <4>1 DEF Fails, Torn
        <5> QED BY <1>2, <2>1, <4>1, <5>1 DEF ExpiryTexts, Pair
      <4>2. CASE Now \in {"check", "recheck"}
        BY <1>2, <1>6, <2>1, <4>2 DEF ExpiryTexts, Pair
      <4>3. CASE Now \in {"mark", "render", "generated"}
        BY <1>2, <2>1, <4>3 DEF ExpiryTexts
      <4> QED BY <3>1, <4>1, <4>2, <4>3
    <3> QED BY <1>3, <1>4, <1>5, <2>1, <2>3, <3>2 DEF ExpiryTexts, Pair
  <2> QED BY <2>2, <2>3
<1>8. CASE Passes
  <2>1. /\ <<Now, Now'>> \in Edges(doing.op, doing.back) /\ doing'.back = doing.back /\ Wrote /\ Told
        /\ Now \notin {"check", "recheck"}
    BY <1>8 DEF Passes, Checked
  <2>2. Now # "act" => doing'.committed = doing.committed
    BY <1>1, <2>1 DEF Told
  <2>3. /\ disk'.generated = CASE Now = "generated" -> doing.text
                               [] Now = "oldgenerated" -> doing.prior.generated
                               [] OTHER -> disk.generated
        /\ disk'.runtime = CASE Now = "runtime" -> doing.text
                             [] Now = "oldruntime" -> doing.prior.runtime
                             [] OTHER -> disk.runtime
    BY <1>1, <2>1 DEF Wrote, Sourced
  <2>4. CASE ~doing.back
    <3>1. CASE Now = "mark"
      <4>1. Now' = "render"
        BY <2>1, <2>4, <3>1 DEF Edges, Forward, Committing
      <4> QED BY <1>2, <1>3, <1>4, <1>5, <2>1, <2>2, <2>3, <2>4, <3>1, <4>1 DEF ExpiryTexts, Pair
    <3>2. CASE Now = "render"
      <4>1. Now' = "generated"
        BY <2>1, <2>4, <3>2 DEF Edges, Forward, Committing
      <4>2. doing'.text = Newest
        <5>1. Sourced(doing.op, doing.back, Now, Now') 
          BY <1>1, <1>8, Sources DEF Passes, Ops
        <5>2. Served = Marking(b.meta, doing.now) /\ disk.config = b.config
          BY <1>1, <2>4, <3>2, <5>1, TargetServed DEF Target, GoalConfig
        <5>3. doing'.text = Render(b.config, Marking(b.meta, doing.now), doing.now)
          BY <2>1, <3>2, <5>2 DEF Told
        <5> QED BY <1>1, <5>3, RenderMarking DEF Newest
      <4>3. Pair(Standing, Standing)
        BY <1>2, <2>4, <3>2 DEF ExpiryTexts
      <4>4. doing'.prior = Stood
        BY <2>1, <3>2, <4>3 DEF Told, Pair, Stood
      <4> QED BY <1>3, <1>4, <1>5, <2>1, <2>2, <2>3, <2>4, <3>2, <4>1, <4>2, <4>3, <4>4
             DEF ExpiryTexts, Pair
    <3>3. CASE Now = "generated"
      <4>1. Now' = "runtime" /\ doing'.text = doing.text /\ doing'.prior = doing.prior
        BY <2>1, <2>4, <3>3 DEF Edges, Forward, Committing, Told
      <4> QED BY <1>2, <1>3, <1>4, <1>5, <2>1, <2>2, <2>3, <2>4, <3>3, <4>1 DEF ExpiryTexts, Pair
    <3>4. CASE Now = "runtime"
      <4>1. Now' = "act" /\ doing'.text = doing.text /\ doing'.prior = doing.prior
        BY <2>1, <2>4, <3>4 DEF Edges, Forward, Committing, Told
      <4> QED BY <1>2, <1>3, <1>4, <1>5, <2>1, <2>2, <2>3, <2>4, <3>4, <4>1 DEF ExpiryTexts, Pair
    <3>5. CASE Now = "act"
      <4>1. Now' \in {"check", "recheck"} /\ doing'.committed
        BY <2>1, <2>4, <3>5 DEF Edges, Forward, Committing, Told
      <4> QED BY <1>2, <1>3, <1>4, <2>1, <2>3, <2>4, <3>5, <4>1 DEF ExpiryTexts, Pair
    <3> QED BY <2>1, <2>4, <3>1, <3>2, <3>3, <3>4, <3>5 DEF Edges, Forward, Committing
  <2>5. CASE doing.back
    <3>1. CASE Now = "oldruntime"
      <4>1. Now' = "oldgenerated" /\ doing'.prior = doing.prior
        BY <2>1, <2>5, <3>1 DEF Edges, Backward, Retracting, Told
      <4>2. disk.generated = Newest /\ doing.prior = Stood
        BY <1>2, <2>5, <3>1 DEF ExpiryTexts
      <4> QED BY <1>3, <1>4, <1>5, <2>1, <2>2, <2>3, <2>5, <3>1, <4>1, <4>2 DEF ExpiryTexts, Pair, Stood
    <3>2. CASE Now = "oldgenerated"
      <4>1. Now' = "again"
        BY <2>1, <2>5, <3>2 DEF Edges, Backward, Retracting
      <4>2. Pair(Newest, Standing) /\ doing.prior = Stood
        BY <1>2, <2>5, <3>2 DEF ExpiryTexts
      <4> QED BY <1>3, <1>4, <1>5, <2>1, <2>2, <2>3, <2>5, <3>2, <4>1, <4>2 DEF ExpiryTexts, Pair, Stood
    <3>3. CASE Now \in {"again", "oldmetadata", "halt"}
      <4>1. Now' \in {"oldmetadata", "halt", "end"}
        BY <2>1, <2>5, <3>3 DEF Edges, Backward, Retracting
      <4> QED BY <1>2, <1>3, <1>4, <1>5, <2>1, <2>2, <2>3, <2>5, <3>3, <4>1 DEF ExpiryTexts, Pair
    <3> QED BY <2>1, <2>5, <3>1, <3>2, <3>3 DEF Edges, Backward, Retracting
  <2> QED BY <2>4, <2>5
<1>9. CASE Marks
  <2>1. Still /\ Now = "mark" /\ disk'.generated = disk.generated /\ disk'.runtime = disk.runtime
    BY <1>1, <1>9, LoopField DEF Marks
  <2> QED BY <1>2, <1>3, <1>4, <1>5, <2>1 DEF ExpiryTexts, Still, Pair, Stood
<1>10. CASE Checks
  <2>1. /\ ~doing.back /\ Now \in {"check", "recheck"} /\ disk' = disk
        /\ doing'.committed = doing.committed /\ doing'.prior = doing.prior
        /\ Now' \in {"end", "render", "halt"} /\ (Now' \in {"end", "render"} => ~doing'.back)
        /\ Now' = "halt" => doing'.back
    BY <1>1, <1>10 DEF Checks, Sourced
  <2>2. doing.committed /\ Pair(Newest, Newest)
    BY <1>2, <2>1 DEF ExpiryTexts
  <2> QED BY <1>3, <1>4, <1>5, <1>6, <2>1, <2>2 DEF ExpiryTexts, Pair
<1>11. ~Profiles
  BY <1>1 DEF Profiles, Sourced
<1> QED BY <1>1, <1>7, <1>8, <1>9, <1>10, <1>11, GoingPasses

LEMMA GoingTexts ==
  ASSUME TypeInv, BeforeInv, ClientsInv, TextInv, LinkInv, ExpireFlow, Going, doing.op # "restore"
  PROVE  TextInv'
<1>1. CASE wreck' = "damaged"
  BY <1>1 DEF TextInv
<1>2. CASE wreck' # "damaged"
  <2>1. doing'.op = doing.op
    BY GoalFrame DEF Frame
  <2>2. ForthTexts'
    BY <1>2, <2>1, ForthGoes DEF ForthTexts
  <2>3. BackTexts'
    BY <1>2, <2>1, BackGoes DEF BackTexts
  <2>4. ExpiryTexts'
    BY <1>2, <2>1, ExpiryTextsGo DEF ExpiryTexts
  <2>5. SetupTexts'
    BY <1>2, SetupTextsGo
  <2> QED BY <2>2, <2>3, <2>4, <2>5 DEF TextInv
<1> QED BY <1>1, <1>2

-----------------------------------------------------------------------------
(* The interface while a command runs *)

LEMMA OldStays ==
  ASSUME TypeInv, Frame, wreck' \in {wreck, "retry"},
         link' # None => Serving(link', doing.before.config, doing.before.meta, day, wreck)
  PROVE  Old'
<1>1. doing \in Calls /\ day \in Days /\ doing.before.meta \in Metas /\ day <= day
  BY BoundAssumption DEF TypeInv, TypeOK, Frame, Calls, Disks, Metas, Days
<1>2. Wider(wreck, wreck')
  BY DEF Wider
<1>3. link' # None => Serving(link', doing.before.config, doing.before.meta, day, wreck')
  BY <1>1, <1>2, InsideLater
<1> QED BY <1>3 DEF Old, Frame

LEMMA NewestServes ==
  ASSUME TypeInv, BeforeInv, doing # None, doing.op = "expire", wreck # "damaged", NEW w
  PROVE  /\ Serving(Newest, doing.before.config, doing.before.meta, day, w)
         /\ Serving(Standing, doing.before.config, doing.before.meta, day, wreck)
<1>1. /\ doing \in Calls /\ doing.now \in Days /\ day \in Days /\ doing.before.meta \in Metas /\ doing.now <= day
  BY DEF TypeInv, TypeOK, CallInv, Calls, Disks, Metas
<1>2. /\ Serving(doing.before.generated, doing.before.config, doing.before.meta, day, wreck)
      /\ doing.before.config \in Configs
  BY FoundServes DEF Steady
<1>3. \A v : Serving(Newest, doing.before.config, doing.before.meta, day, v)
  BY <1>1, <1>2, RenderServes DEF Newest
<1> QED BY <1>2, <1>3 DEF Standing

LEMMA KeptLinkGoes ==
  ASSUME TypeInv, BeforeInv, TextInv, LinkInv, ExpireFlow, Going, wreck' # "damaged",
         doing.op \in {"import", "endpoint", "expire"}
  PROVE  KeptLink'
<1> DEFINE b == doing.before
           Serves1(text) == Serving(text, b.config, b.meta, day, wreck)
<1>1. /\ Frame /\ doing \in Calls /\ doing # None /\ wreck # "damaged" /\ todo # <<>>
      /\ wreck' \in {wreck, "retry"} /\ (doing.op # "expire" => wreck' = wreck) /\ Now # "end"
      /\ doing.back \in BOOLEAN /\ doing.committed \in BOOLEAN
      /\ Sourced(doing.op, doing.back, Now, HeadOr(Tail(todo), "end"))
  BY Ongoing DEF Frame, Calls
<1>2. Old /\ Serves1(b.generated) /\ b.runtime = b.generated
  BY <1>1, FoundServes DEF LinkInv, KeptLink, Steady
<1>3. <<Now, HeadOr(Tail(todo), "end")>> \in Edges(doing.op, doing.back)
  BY <1>1, NowEdge
<1>4. Now \in {"act", "again"} => Serves1(disk.runtime) /\ ~Restarts
  <2>1. CASE doing.op = "expire"
    <3>1. Now \in {"act", "again"} => disk.runtime \in {Newest, Standing}
      BY <1>1, <2>1 DEF TextInv, ExpiryTexts, Sourced, Pair
    <3> QED BY <1>1, <2>1, <3>1, NewestServes DEF Restarts
  <2>2. CASE doing.op = "endpoint"
    <3>1. Now # "act"
      BY <1>1, <2>2 DEF Sourced
    <3>2. Now = "again" => disk.runtime = b.generated
      BY <1>1, <1>2, <2>2 DEF TextInv, BackTexts, Sourced, Pair
    <3> QED BY <1>2, <2>2, <3>1, <3>2 DEF Restarts
  <2>3. CASE doing.op = "import"
    BY <1>3, <2>3 DEF Edges, Forward, Backward
  <2> QED BY <2>1, <2>2, <2>3
<1>5. link' \in {link, None} \/ (Now \in {"act", "again"} /\ link' = disk.runtime)
  <2>1. CASE Fails
    BY <1>4, <2>1 DEF Fails, LinkAfterFailure
  <2>2. CASE Passes
    BY <2>2 DEF Passes, Linked, Applied
  <2>3. CASE Profiles \/ Marks \/ Checks
    BY <2>3 DEF Profiles, Marks, Checks, Still
  <2> QED BY <2>1, <2>2, <2>3, GoingPasses
<1>6. Old'
  <2>1. link' # None => Serves1(link')
    BY <1>2, <1>4, <1>5 DEF Old
  <2> QED BY <1>1, <2>1, OldStays
<1>7. doing.op = "expire" /\ doing'.back /\ doing'.committed /\ Now' = "end" =>
        link' = None \/ wreck' # "none"
  <2> SUFFICES ASSUME doing.op = "expire", doing'.back, doing'.committed, Now' = "end"
               PROVE  link' = None \/ wreck' # "none"
    OBVIOUS
  <2>1. CASE Fails
    BY <1>1, <2>1, FailsTurn DEF Fails
  <2>2. CASE Passes
    <3>1. doing.back /\ <<Now, "end">> \in Backward("expire")
      BY <2>2 DEF Passes, Edges
    <3>2. Now \in {"halt", "oldmetadata"}
      BY <3>1 DEF Backward, Retracting
    <3>3. doing.committed
      BY <1>1, <2>2, <3>2 DEF Passes, Told
    <3>4. Now = "halt"
      <4>1. PathTo(todo, ExpiryWay(doing.committed), "end")
        BY <1>1, <3>1, <3>3 DEF ExpireFlow
      <4>2. <<Now, HeadOr(Tail(todo), "end")>> \in ExpiryWay(doing.committed)
        BY <1>1, <4>1, HeadFacts, TodoFacts, Continued DEF TypeInv
      <4> QED BY <3>2, <3>3, <4>2 DEF Retracting, ExpiryWay
    <3> QED BY <2>2, <3>4 DEF Passes, Linked
  <2>3. CASE Profiles \/ Marks \/ Checks
    BY <1>1, <2>3 DEF Profiles, Marks, Checks, Still, Sourced
  <2> QED BY <2>1, <2>2, <2>3, GoingPasses
<1> QED BY <1>1, <1>6, <1>7 DEF KeptLink, Frame

LEMMA SetupLinkGoes ==
  ASSUME TypeInv, BeforeInv, ClientsInv, TextInv, LinkInv, Going, wreck' # "damaged",
         doing.op \in {"initialize", "migrate"}
  PROVE  SetupLink'
<1> DEFINE b == doing.before
<1>1. /\ Frame /\ doing \in Calls /\ doing # None /\ wreck # "damaged" /\ todo # <<>>
      /\ wreck' = wreck /\ Now # "end" /\ doing.back \in BOOLEAN
      /\ Sourced(doing.op, doing.back, Now, HeadOr(Tail(todo), "end"))
  BY Ongoing DEF Frame
<1>2. SetupLink /\ ForthTexts /\ SetupTexts
  BY <1>1 DEF LinkInv, TextInv
<1>3. doing'.op = doing.op /\ doing'.before = doing.before
  BY <1>1 DEF Frame
<1>4. doing.active
  BY <1>1 DEF BeforeInv
<1>5. doing.op = "migrate" => b.runtime = LegacyText
  BY <1>1 DEF BeforeInv
<1>6. doing.op = "migrate" /\ Now = "act" => disk.runtime = LegacyText
  <2> SUFFICES ASSUME doing.op = "migrate", Now = "act" PROVE disk.runtime = LegacyText
    OBVIOUS
  <2>1. disk.runtime = doing.text /\ Rendered(doing.text, GoalConfig(doing), Target(doing))
    BY <1>1, <1>2 DEF ForthTexts, Rendering, Late, Pair, Sourced
  <2>2. doing.name \in Names /\ doing.record = NewRecord(1, 1, None, None) /\ doing.goal = FirstConfig
    BY <1>1 DEF BeforeInv, TypeInv, CallInv, Making
  <2>3. Target(doing) = [m \in Names |-> IF m = doing.name THEN NewRecord(1, 1, None, None) ELSE None]
    BY <2>2 DEF Target
  <2>4. GoalConfig(doing) = FirstConfig
    BY <2>2 DEF GoalConfig
  <2>5. \A d : Render(FirstConfig, Target(doing), d) = LegacyText
    BY <2>2, <2>3, RenderLegacy
  <2> QED BY <2>1, <2>4, <2>5 DEF Rendered
<1>7. CASE Fails
  <2>1. /\ ~doing.back /\ doing'.back
        /\ doing.op = "initialize" => Now' = "halt"
        /\ doing.op = "migrate" => Now' = "oldruntime"
    BY <1>1, <1>7, FailsTurn
  <2> QED BY <1>3, <2>1 DEF SetupLink
<1>8. CASE Passes
  <2>1. /\ <<Now, Now'>> \in Edges(doing.op, doing.back) /\ doing'.back = doing.back /\ Told /\ Linked
    BY <1>8 DEF Passes
  <2>2. CASE doing.op = "initialize" /\ ~doing.back
    <3>1. /\ Now' \in {"verify", "end"} => Now \in {"act", "verify"}
          /\ Now \notin {"again", "halt"}
      BY <2>1, <2>2 DEF Edges, Forward, Committing
    <3>2. Now = "act" => link' = disk.runtime /\ disk.runtime = doing.text
      BY <1>2, <1>4, <2>1, <2>2 DEF Linked, Applied, Restarts, ForthTexts, Rendering, Late, Pair
    <3> QED BY <1>2, <1>3, <2>1, <2>2, <3>1, <3>2 DEF SetupLink, Told, Linked
  <2>3. CASE doing.op = "initialize" /\ doing.back
    <3>1. Now \notin {"act", "again"}
      BY <2>1, <2>3 DEF Edges, Backward
    <3> QED BY <1>1, <1>2, <1>3, <2>1, <2>3, <3>1 DEF SetupLink, Linked
  <2>4. CASE doing.op = "migrate" /\ ~doing.back
    <3>1. Now \notin {"again", "halt"}
      BY <2>1, <2>4 DEF Edges, Forward, Committing
    <3> QED BY <1>2, <1>3, <1>4, <1>6, <2>1, <2>4, <3>1 DEF SetupLink, Linked, Applied
  <2>5. CASE doing.op = "migrate" /\ doing.back
    <3>1. /\ Now \notin {"act", "halt"}
          /\ Now' # "oldruntime" /\ (Now = "oldruntime" => Now' = "again")
      BY <2>1, <2>5 DEF Edges, Backward
    <3>2. Now = "again" => link' = b.runtime
      BY <1>1, <1>2, <1>4, <2>1, <2>5 DEF Linked, Applied, SetupTexts
    <3> QED BY <1>2, <1>3, <2>1, <2>5, <3>1, <3>2 DEF SetupLink, Linked
  <2> QED BY <2>2, <2>3, <2>4, <2>5
<1>9. ~(Profiles \/ Marks \/ Checks)
  BY <1>1 DEF Profiles, Marks, Checks, Sourced
<1> QED BY <1>7, <1>8, <1>9, GoingPasses, <1>1

(* A text that serves what the command found names no key but theirs. *)
LEMMA ServingKeyed ==
  ASSUME NEW text, NEW config, NEW meta, NEW d, NEW w, Serving(text, config, meta, d, w),
         NEW p \in text.peers
  PROVE  Keyed(meta, p.key)
<1>1. p \in Live(meta, d) \cup Gone(meta, d, w)
  BY DEF Serving, Inside
<1>2. PICK m \in Described(meta) : p = Listed(meta, m)
  BY <1>1 DEF Live, Gone
<1> QED BY <1>2 DEF Keyed, Listed

LEMMA MovedLinkGoes ==
  ASSUME TypeInv, BeforeInv, ClientsInv, TextInv, LinkInv, Going, wreck' # "damaged",
         doing.op \in {"add", "revoke", "rotate", "port"}
  PROVE  MovedLink'
<1> DEFINE b == doing.before
           Serves1(text) == Serving(text, b.config, b.meta, day, wreck)
<1>1. /\ Frame /\ doing \in Calls /\ doing # None /\ wreck # "damaged" /\ todo # <<>>
      /\ wreck' = wreck /\ Now # "end" /\ doing.back \in BOOLEAN /\ doing.committed \in BOOLEAN
      /\ Sourced(doing.op, doing.back, Now, HeadOr(Tail(todo), "end"))
  BY Ongoing DEF Frame, Calls
<1>2. MovedLink /\ ForthTexts /\ BackTexts
  BY <1>1 DEF LinkInv, TextInv
<1>3. Serves1(b.generated) /\ b.runtime = b.generated /\ b.config \in Configs
  BY <1>1, FoundServes DEF Steady
<1>4. doing'.op = doing.op /\ doing'.before = doing.before /\ day' = day
  BY <1>1 DEF Frame
<1>5. Old' <=> (link' # None => Serves1(link'))
  BY <1>1, <1>4 DEF Old
<1>6. <<Now, HeadOr(Tail(todo), "end")>> \in Edges(doing.op, doing.back)
  BY <1>1, NowEdge
<1>7. CASE Fails
  <2>1. ~doing.back /\ doing'.back /\ doing'.committed = doing.committed
    BY <1>1, <1>7, FailsTurn DEF Fails
  <2>2. Now' \in Settling => link' = link /\ Old
    <3> SUFFICES ASSUME Now' \in Settling PROVE link' = link /\ Old
      OBVIOUS
    <3>1. Now # "act" /\ (doing.op \in Committers => ~doing.committed)
      <4>1. doing.op \in Committers =>
              /\ Now = "act" => Now' = "oldruntime"
              /\ Now # "act" => Now' = IF doing.committed THEN "render" ELSE Mending(doing)
        BY <1>1, <1>7, FailsTurn
      <4>2. doing.op \in {"port"} /\ Now = "act" => Now' = "oldruntime"
        BY <1>1, <1>7, FailsTurn
      <4> QED BY <4>1, <4>2 DEF Settling, Committers
    <3>2. ~Late
      <4>1. doing.op \in Committers => ~Late
        BY <1>2, <2>1, <3>1 DEF MovedLink
      <4>2. doing.op = "port" => ~Late
        BY <1>1, <1>6, <2>1, <3>1 DEF Late, Edges, Forward
      <4> QED BY <4>1, <4>2 DEF Committers
    <3> QED BY <1>2, <1>7, <2>1, <3>1, <3>2 DEF MovedLink, Fails
  <2> QED BY <1>1, <1>4, <1>5, <2>1, <2>2 DEF MovedLink, Old
<1>8. CASE Passes
  <2>1. /\ <<Now, Now'>> \in Edges(doing.op, doing.back) /\ doing'.back = doing.back
        /\ doing'.committed = (doing.committed \/ Now = "act")
        /\ Now # "render" => doing'.text = doing.text
        /\ Linked /\ Checked
    BY <1>8 DEF Passes, Told
  <2>2. CASE doing.back
    <3>1. CASE Now = "act"
      <4>1. Rendered(doing.text, b.config, b.meta) /\ disk.runtime = doing.text
        BY <1>2, <2>2, <3>1 DEF BackTexts, Pair
      <4>2. Serves1(doing.text)
        BY <1>1, <1>3, <4>1, RenderedServes
      <4>3. link' = Applied
        BY <2>1, <2>2, <3>1 DEF Linked
      <4>4. link' # None => link' = doing.text
        BY <1>1, <4>1, <4>3 DEF Applied, TypeInv, CallInv
      <4>5. Old'
        BY <1>5, <4>2, <4>4
      <4> QED BY <1>4, <2>1, <2>2, <4>5 DEF MovedLink
    <3>2. CASE Now = "again"
      <4>1. disk.runtime = b.generated
        BY <1>2, <1>3, <2>2, <3>2 DEF BackTexts, Pair
      <4>2. link' # None => link' = b.generated
        BY <1>1, <2>1, <3>2, <4>1 DEF Linked, Applied, TypeInv, CallInv
      <4>3. Old'
        BY <1>3, <1>5, <4>2
      <4> QED BY <1>4, <2>1, <2>2, <4>3 DEF MovedLink
    <3>3. CASE Now \notin {"act", "again"}
      <4>1. Now' \in Settling => Now \in Settling
        BY <2>1, <2>2, <3>3 DEF Edges, Backward, Committing, Retracting, Settling
      <4>2. Now # "halt"
        BY <2>1, <2>2 DEF Edges, Backward, Committing, Retracting
      <4>3. link' = link
        BY <2>1, <3>3, <4>2 DEF Linked
      <4>4. Now' \in Settling => Old'
        BY <1>2, <1>5, <2>2, <4>1, <4>3 DEF MovedLink, Old
      <4> QED BY <1>4, <2>1, <2>2, <4>4 DEF MovedLink
    <3> QED BY <3>1, <3>2, <3>3
  <2>3. CASE ~doing.back
    <3>1. Now \notin {"again", "halt"}
      BY <2>1, <2>3 DEF Edges, Forward, Committing
    <3>2. CASE Now = "act"
      <4>1. disk.runtime = doing.text /\ Old
        BY <1>2, <2>3, <3>2 DEF ForthTexts, Rendering, Late, Pair, MovedLink
      <4>2. \/ link' \in {None, doing.text}
            \/ link' = link /\ doing.op # "port"
        BY <1>1, <2>1, <3>2, <4>1 DEF Linked, Applied, Restarts, TypeInv, CallInv
      <4>3. Put' \/ (Old' /\ doing.op # "port")
        BY <1>5, <2>1, <3>2, <4>1, <4>2 DEF Put, Old
      <4>4. Now' # "act" /\ (Now' = "end" => doing.op = "port")
        BY <2>1, <2>3, <3>2 DEF Edges, Forward, Committing
      <4>5. Now' \in {"verify", "end"}
        BY <2>1, <2>3, <3>2 DEF Edges, Forward, Committing
      <4> QED BY <1>4, <2>1, <2>3, <3>2, <4>3, <4>4, <4>5 DEF MovedLink, Late
    <3>3. CASE Now # "act" /\ ~Late
      <4>1. /\ link' = link /\ Old
            /\ ~Late' \/ Now' = "act"
            /\ Now' # "end"
        BY <1>1, <1>2, <1>4, <2>1, <2>3, <3>1, <3>3
           DEF Linked, MovedLink, Late, Edges, Forward, Committing
      <4>2. Old'
        BY <1>5, <4>1 DEF Old
      <4> QED BY <1>4, <2>1, <2>3, <4>1, <4>2 DEF MovedLink, Late
    <3>4. CASE Now # "act" /\ Late
      <4>1. /\ link' = link /\ (Old \/ Put) /\ Now # "render" /\ doing.op # "port"
            /\ Now' \in {"unclient", "unkeys", "end"} /\ doing.committed
            /\ doing.op # "revoke" => Now = "verify"
            /\ Late' /\ Now' # "act"
        BY <1>1, <1>2, <1>4, <2>1, <2>3, <3>1, <3>4
           DEF Linked, MovedLink, Late, Edges, Forward, Committing, Committers
      <4>2. Old' \/ Put'
        BY <1>5, <2>1, <4>1 DEF Old, Put
      <4>3. doing.op # "revoke" => Put'
        <5> SUFFICES ASSUME doing.op # "revoke", ~Put PROVE FALSE
          BY <2>1, <4>1 DEF Put
        <5>1. doing.op \in {"add", "rotate"} /\ Verified /\ link # None /\ Old
          BY <2>1, <4>1 DEF Checked, Put
        <5>2. doing.active /\ doing.record.key \in LiveKeys
          BY <1>1, <5>1 DEF Verified, TypeInv, CallInv
        <5>3. PICK p \in link.peers : p.key = doing.record.key
          BY <5>1, <5>2 DEF LiveKeys
        <5>4. Keyed(b.meta, doing.record.key)
          BY <5>1, <5>3, ServingKeyed DEF Old
        <5> QED BY <1>1, <5>1, <5>4 DEF BeforeInv
      <4> QED BY <1>4, <2>1, <2>3, <4>1, <4>2, <4>3 DEF MovedLink
    <3> QED BY <3>2, <3>3, <3>4
  <2> QED BY <2>2, <2>3
<1>9. CASE Profiles
  <2>1. Still /\ Now = "profiles" /\ ~doing.back /\ doing.op = "port"
    BY <1>1, <1>9 DEF Profiles, Sourced
  <2>2. Old /\ ~Late
    BY <1>2, <2>1 DEF MovedLink, Late
  <2>3. Old'
    BY <1>5, <2>1, <2>2 DEF Old, Still
  <2>4. Now' = "profiles" /\ doing' = doing
    BY <2>1 DEF Still
  <2> QED BY <2>1, <2>3, <2>4 DEF MovedLink, Late, Committers
<1>10. ~(Marks \/ Checks)
  BY <1>1 DEF Marks, Checks, Sourced
<1> QED BY <1>1, <1>7, <1>8, <1>9, <1>10, GoingPasses

LEMMA GoingLinks ==
  ASSUME TypeInv, BeforeInv, ClientsInv, TextInv, LinkInv, ExpireFlow, Going, doing.op # "restore"
  PROVE  LinkInv'
<1>1. CASE wreck' = "damaged"
  BY <1>1 DEF LinkInv
<1>2. CASE wreck' # "damaged"
  <2>1. doing'.op = doing.op
    BY GoalFrame DEF Frame
  <2>2. KeptLink'
    BY <1>2, <2>1, KeptLinkGoes DEF KeptLink
  <2>3. MovedLink'
    <3>1. CASE doing.op \in {"add", "revoke", "rotate", "port"}
      BY <1>2, <3>1, MovedLinkGoes
    <3>2. CASE doing.op \notin {"add", "revoke", "rotate", "port"}
      BY <2>1, <3>2 DEF MovedLink, Committers
    <3> QED BY <3>1, <3>2
  <2>4. SetupLink'
    <3>1. CASE doing.op \in {"initialize", "migrate"}
      BY <1>2, <3>1, SetupLinkGoes
    <3>2. CASE doing.op \notin {"initialize", "migrate"}
      BY <2>1, <3>2 DEF SetupLink
    <3> QED BY <3>1, <3>2
  <2> QED BY <2>2, <2>3, <2>4 DEF LinkInv
<1> QED BY <1>1, <1>2

(* A restore is told apart by its swap; the conditions on the other commands    *)
(* say nothing about it.                                                        *)
LEMMA RestoringApart ==
  ASSUME TypeInv, Going, doing.op = "restore"
  PROVE  TextInv' /\ LinkInv' /\ ExpireFlow'
<1>1. doing'.op = "restore"
  BY GoingFrame DEF Frame
<1> QED BY <1>1 DEF TextInv, LinkInv, ExpireFlow, ForthTexts, BackTexts, SetupTexts, ExpiryTexts,
           KeptLink, MovedLink, SetupLink, Rendering, Committers

-----------------------------------------------------------------------------
(* The way back of the expiry *)

LEMMA GoingTail ==
  ASSUME Going
  PROVE  \/ todo' = Tail(todo)
         \/ StepFails \/ ActFails \/ CheckExpired
         \/ (WriteProfiles \/ MarkExpired) /\ todo' = todo /\ doing' = doing
  BY DEF Going, WriteConfig, CreateClient, DescribeClient, RemoveClient, RemoveKeys, CompareServer,
         WriteProfiles, MarkExpired, RenderServer, WriteGenerated, WriteRuntime, Act, ActUnapplied,
         Verify, Displace, Place, OldRuntime, OldGenerated, Again, AgainFails, Halt, HaltFails,
         ReturnClient, ReturnKeys, Reactivate, OldConfig, OldMetadata, Unconfigure, NoRuntime,
         Unplace, PutBack, Write, Forth, running

LEMMA ExpiryPath ==
  ASSUME NEW c, c.op = "expire"
  PROVE  /\ PathTo(Undo(c), ExpiryWay(c.committed), "end")
         /\ PathTo(<<"oldruntime", "oldgenerated", "again">> \o Undo(c), ExpiryWay(c.committed), "end")
<1> DEFINE E == ExpiryWay(c.committed)
           last == IF c.committed THEN "halt" ELSE "oldmetadata"
           u == <<last>>
           r == <<"oldruntime", "oldgenerated", "again">>
<1>1. Undo(c) = u
  BY DEF Undo, Cleanup
<1>2. /\ Retracting \cup {<<"again", last>>, <<last, "end">>} \subseteq E
  BY DEF ExpiryWay
<1>3. u \in Seq(Steps) /\ Len(u) = 1 /\ u[1] = last
  BY DEF Steps
<1>4. /\ r \in Seq(Steps) /\ Len(r) = 3
      /\ r[1] = "oldruntime" /\ r[2] = "oldgenerated" /\ r[3] = "again"
  BY DEF Steps
<1> HIDE DEF u, r, E, last
<1>5. PathTo(u, E, "end") /\ HeadOr(u, "end") = last
  BY <1>2, <1>3, PathOfOne
<1>6. PathTo(r, E, last)
  BY <1>2, <1>4, PathOfThree DEF Retracting
<1>7. PathTo(r \o u, E, "end")
  BY <1>3, <1>4, <1>5, <1>6, Joined
<1> QED BY <1>1, <1>5, <1>7 DEF r, E

LEMMA GoingExpiry ==
  ASSUME TypeInv, TextInv, ExpireFlow, Going
  PROVE  ExpireFlow'
<1> SUFFICES ASSUME wreck' # "damaged", doing.op = "expire", doing'.back
             PROVE  PathTo(todo', ExpiryWay(doing'.committed), "end")
  <2>1. doing'.op = doing.op
    BY GoingFrame DEF Frame
  <2> QED BY <2>1 DEF ExpireFlow
<1>1. /\ Frame /\ doing \in Calls /\ doing # None /\ wreck # "damaged" /\ todo # <<>>
      /\ doing.back \in BOOLEAN /\ doing.committed \in BOOLEAN
      /\ Sourced(doing.op, doing.back, Now, HeadOr(Tail(todo), "end"))
      /\ todo \in Seq(Steps) /\ Now = Head(todo)
  BY Ongoing, HeadFacts, TodoFacts DEF Frame, Calls, TypeInv
<1>2. CASE StepFails \/ ActFails
  <2>1. Fails
    BY <1>2, StepFailing
  <2>2. ~doing.back /\ doing'.committed = doing.committed
    BY <1>1, <2>1, FailsTurn DEF Fails
  <2>3. todo' \in {Undo(doing), <<"oldruntime", "oldgenerated", "again">> \o Undo(doing)}
    BY <1>2, <2>2 DEF StepFails, ActFails
  <2> QED BY <2>2, <2>3, ExpiryPath
<1>3. CASE CheckExpired
  <2>1. /\ Checks /\ ~doing.back
    BY <1>3, CheckChecks
  <2>2. Remaining # {} /\ Now = "recheck" /\ doing'.committed = doing.committed
    BY <2>1 DEF Checks
  <2>3. doing.committed
    BY <1>1, <2>1, <2>2 DEF TextInv, ExpiryTexts
  <2>4. ~At("check") /\ todo' = <<"halt">>
    BY <1>1, <1>3, <2>2 DEF CheckExpired, At
  <2>5. <<"halt">> \in Seq(Steps) /\ Len(<<"halt">>) = 1 /\ <<"halt">>[1] = "halt"
    BY DEF Steps
  <2>6. <<"halt", "end">> \in ExpiryWay(doing'.committed)
    BY <2>2, <2>3 DEF ExpiryWay
  <2>7. \A s \in Seq(Steps) : Len(s) = 1 /\ s[1] = "halt" => PathTo(s, ExpiryWay(doing'.committed), "end")
    BY <2>6, PathOfOne
  <2> QED BY <2>4, <2>5, <2>7
<1>4. CASE todo' = Tail(todo) /\ ~(StepFails \/ ActFails \/ CheckExpired)
  <2>1. Passes \/ Profiles \/ Marks
    <3>1. ~(StepFails \/ ActFails \/ CheckExpired)
      BY <1>4
    <3> QED BY <1>1, <3>1, ClientWrites, FileWrites, CommitPasses, ServicePasses, LoopPasses,
               HeadFacts DEF Going, Displace, Place, Unplace, PutBack, At, Sourced
  <2>2. Passes /\ doing.back
    BY <1>1, <2>1 DEF Passes, Profiles, Marks, Still, Sourced
  <2>3. doing'.committed = doing.committed
    BY <1>1, <2>2 DEF Passes, Told, Sourced
  <2>4. PathTo(todo, ExpiryWay(doing.committed), "end")
    BY <1>1, <2>2 DEF ExpireFlow
  <2> QED BY <1>1, <1>4, <2>3, <2>4, Continued
<1>5. CASE (WriteProfiles \/ MarkExpired) /\ todo' = todo /\ doing' = doing
  <2>1. Now \in {"profiles", "mark"}
    BY <1>1, <1>5 DEF WriteProfiles, MarkExpired, At
  <2> QED BY <1>1, <1>5, <2>1 DEF Sourced
<1> QED BY <1>2, <1>3, <1>4, <1>5, GoingTail

-----------------------------------------------------------------------------
(* The swap of a restore *)

LEMMA WithFields ==
  ASSUME NEW d \in Disks, NEW from, NEW i \in 1..4
  PROVE  LET e == With(d, Components[i], from)
         IN  /\ e.config = IF i = 1 THEN from.config ELSE d.config
             /\ e.keys = IF i = 2 THEN from.keys ELSE d.keys
             /\ e.identity = IF i = 2 THEN from.identity ELSE d.identity
             /\ e.meta = IF i = 3 THEN from.meta ELSE d.meta
             /\ e.generated = IF i = 4 THEN from.generated ELSE d.generated
<1>1. Components[1] = "config" /\ Components[2] = "keys" /\ Components[3] = "clients"
      /\ Components[4] = "generated"
  BY DEF Components
<1>2. i = 1 \/ i = 2 \/ i = 3 \/ i = 4
  OBVIOUS
<1>3. CASE i = 1
  BY <1>1, <1>3 DEF With, Disks
<1>4. CASE i = 2
  BY <1>1, <1>4 DEF With, Disks
<1>5. CASE i = 3
  BY <1>1, <1>5 DEF With, Disks
<1>6. CASE i = 4
  BY <1>1, <1>6 DEF With, Disks
<1> QED BY <1>2, <1>3, <1>4, <1>5, <1>6

(* What a restore does after the step at hand. *)
LEMMA RestoreNext ==
  ASSUME TypeInv, doing.op = "restore", todo # <<>>, todo' = Tail(todo)
  PROVE  /\ Head(todo) \in {"displace", "place"} => Now' \notin {"act", "verify", "end"}
         /\ Head(todo) = "runtime" => Now' = "act"
         /\ Head(todo) = "act" => Now' = "verify"
         /\ Head(todo) = "verify" => Now' = "end"
         /\ Head(todo) \in {"unplace", "putback"} => Now' \notin {"again", "end"}
         /\ Head(todo) = "oldruntime" => Now' = "again"
         /\ Head(todo) = "again" => Now' = "end"
<1>1. /\ doing \in Calls /\ doing # None
      /\ Len(todo) \in Nat \ {0} /\ Head(todo) = todo[1]
      /\ \A i \in 1..(Len(todo) - 1) : Tail(todo)[i] = todo[i + 1]
      /\ Tail(todo) = <<>> <=> Len(todo) = 1
  BY TodoFacts DEF TypeInv
<1>2. doing.back \in BOOLEAN /\ doing.placed \in 0..4 /\ doing.displaced \in 0..4
  BY <1>1 DEF Calls
<1>3. Now' = IF Len(todo) = 1 THEN "end" ELSE todo[2]
  <2>1. CASE Len(todo) = 1
    BY <1>1, <2>1 DEF Now, HeadOr
  <2>2. CASE Len(todo) # 1
    <3>1. 1 \in 1..(Len(todo) - 1) /\ 1 + 1 = 2
      BY <1>1, <2>2
    <3>2. Tail(todo)[1] = todo[2]
      BY <1>1, <3>1
    <3> QED BY <1>1, <2>2, <3>2 DEF Now, HeadOr
  <2> QED BY <2>1, <2>2
<1>4. CASE ~doing.back
  <2>1. RestoringForth
    BY <1>1, <1>4 DEF TypeInv, RestoreInv
  <2>2. /\ Len(todo) \in 1..11
        /\ \A i \in 1..Len(todo) : todo[i] = RestoreStep(11 - Len(todo) + i)
    BY <1>1, <2>1 DEF RestoringForth
  <2> DEFINE k == 12 - Len(todo)
  <2>3. k \in 1..11 /\ Len(todo) = 12 - k
    <3>1. \A n \in 1..11 : 12 - n \in 1..11 /\ n = 12 - (12 - n)
      OBVIOUS
    <3> QED BY <2>2, <3>1
  <2>4. Head(todo) = RestoreStep(k)
    <3>1. 1 \in 1..Len(todo) /\ 11 - Len(todo) + 1 = k
      BY <2>2
    <3> QED BY <1>1, <2>2, <3>1
  <2> HIDE DEF k
  <2>5. CASE k = 11
    <3>1. Len(todo) = 1
      BY <2>3, <2>5
    <3> QED BY <1>3, <2>4, <2>5, <3>1 DEF RestoreStep
  <2>6. CASE k # 11
    <3>1. 2 \in 1..Len(todo) /\ 11 - Len(todo) + 2 = k + 1 /\ Len(todo) # 1
      BY <2>3, <2>6
    <3>2. Now' = RestoreStep(k + 1)
      BY <1>3, <2>2, <3>1
    <3>3. k \in 1..10
      BY <2>3, <2>6
    <3> QED BY <2>4, <3>2, <3>3 DEF RestoreStep
  <2> QED BY <2>5, <2>6
<1>5. CASE doing.back
  <2>1. RestoringBack
    BY <1>1, <1>5 DEF TypeInv, RestoreInv
  <2> DEFINE p == doing.placed
             m == doing.placed + doing.displaced
             L == Len(todo)
  <2>2. p \in 0..4 /\ m \in Nat /\ p <= m /\ L \in Nat \ {0}
    BY <1>1, <1>2
  <2>3. CASE /\ L = m + 2
             /\ \A i \in 1..L : todo[i] = IF i <= p THEN "unplace"
                                         ELSE IF i <= m THEN "putback"
                                         ELSE IF i = m + 1 THEN "oldruntime" ELSE "again"
    <3>1. 1 \in 1..L /\ 2 \in 1..L /\ L # 1
      BY <2>2, <2>3
    <3>2. /\ todo[1] = IF 1 <= p THEN "unplace" ELSE IF 1 <= m THEN "putback"
                       ELSE IF 1 = m + 1 THEN "oldruntime" ELSE "again"
          /\ todo[2] = IF 2 <= p THEN "unplace" ELSE IF 2 <= m THEN "putback"
                       ELSE IF 2 = m + 1 THEN "oldruntime" ELSE "again"
      BY <2>3, <3>1
    <3> HIDE DEF p, m, L
    <3>3. todo[1] # "again" /\ todo[1] \in {"unplace", "putback", "oldruntime"}
      BY <2>2, <3>2
    <3>4. todo[1] \in {"unplace", "putback"} => todo[2] \notin {"again", "end"}
      BY <2>2, <3>2
    <3>5. todo[1] = "oldruntime" => todo[2] = "again"
      BY <2>2, <3>2
    <3>6. Now' = todo[2]
      BY <1>3, <3>1 DEF L
    <3> QED BY <1>1, <3>3, <3>4, <3>5, <3>6
  <2>4. CASE L = 1 /\ todo[1] = "again"
    BY <1>1, <1>3, <2>4
  <2>5. CASE todo = <<>>
    BY <2>5
  <2> QED BY <2>1, <2>3, <2>4, <2>5 DEF RestoringBack
<1> QED BY <1>4, <1>5

LEMMA RestoreActs ==
  ASSUME TypeInv, Going, doing.op = "restore"
  PROVE  \/ Displace \/ Place \/ Unplace \/ PutBack
         \/ WriteRuntime \/ Act \/ Verify \/ StepFails \/ ActFails \/ OldRuntime \/ Again \/ AgainFails
<1>1. todo # <<>>
  BY GoingFrame DEF Frame
<1>2. Head(todo) \in {"displace", "place", "runtime", "act", "verify", "unplace", "putback",
                      "oldruntime", "again"}
  BY <1>1, HeadFacts
<1> QED BY <1>2 DEF Going, At, WriteConfig, CreateClient, DescribeClient, RemoveClient, RemoveKeys,
           CompareServer, WriteProfiles, MarkExpired, RenderServer, WriteGenerated, ActUnapplied,
           Restarts, CheckExpired, OldGenerated, Halt, HaltFails, ReturnClient, ReturnKeys,
           Reactivate, OldConfig, OldMetadata, Unconfigure, NoRuntime

LEMMA SwapHolds ==
  ASSUME TypeInv, SwapInv, Displace \/ Place \/ Unplace \/ PutBack
  PROVE  doing'.placed <= doing'.displaced /\ Swapped'
<1>1. /\ todo # <<>>
      /\ Head(todo) \in {"displace", "place", "unplace", "putback"}
      /\ backup' = backup
  BY DEF Displace, Place, Unplace, PutBack, At, Stepping
<1>2. /\ doing \in Calls /\ doing # None /\ disk \in Disks /\ doing.op = "restore"
      /\ RestoreInv /\ TypeOK
  BY <1>1, HeadFacts DEF Sourced, TypeInv
<1>3. /\ doing.placed \in 0..4 /\ doing.displaced \in 0..4 /\ doing.placed <= doing.displaced
      /\ Swapped
  BY <1>2 DEF SwapInv, Calls
<1>4. Onward
  BY SwapSteps
<1>5. /\ doing'.before = doing.before
      /\ doing'.displaced = IF Head(todo) = "displace" THEN doing.displaced + 1
                            ELSE IF Head(todo) = "putback" THEN doing.displaced - 1
                            ELSE doing.displaced
      /\ doing'.placed = IF Head(todo) = "place" THEN doing.placed + 1
                         ELSE IF Head(todo) = "unplace" THEN doing.placed - 1
                         ELSE doing.placed
  BY <1>4 DEF Onward, SameCall, Moved
<1>6. /\ Head(todo) = "displace" => doing.displaced \in 0..3 /\ doing.placed = doing.displaced
      /\ Head(todo) = "place" => doing.placed \in 0..3 /\ doing.displaced = doing.placed + 1
      /\ Head(todo) = "unplace" => doing.placed \in 1..4
      /\ Head(todo) = "putback" => doing.placed = 0 /\ doing.displaced \in 1..4
  BY <1>1, <1>2, RestoreHead
<1>7. doing'.placed <= doing'.displaced
  BY <1>1, <1>3, <1>5, <1>6
<1>8. \E i \in 1..4, from \in {Nothing, backup, doing.before} :
        /\ disk' = With(disk, Components[i], from)
        /\ \A j \in 1..4 : Held(j)' = IF j = i THEN from ELSE Held(j)
  <2>1. CASE Displace
    <3>1. Head(todo) = "displace" /\ disk' = With(disk, Components[doing.displaced + 1], Nothing)
      BY <2>1 DEF Displace, At
    <3>2. doing.displaced + 1 \in 1..4
      BY <1>6, <3>1
    <3>3. \A j \in 1..4 : Held(j)' = IF j = doing.displaced + 1 THEN Nothing ELSE Held(j)
      BY <1>1, <1>3, <1>5, <1>6, <3>1 DEF Held
    <3> QED BY <3>1, <3>2, <3>3
  <2>2. CASE Place
    <3>1. Head(todo) = "place" /\ disk' = With(disk, Components[doing.placed + 1], backup)
      BY <2>2 DEF Place, At
    <3>2. doing.placed + 1 \in 1..4
      BY <1>6, <3>1
    <3>3. \A j \in 1..4 : Held(j)' = IF j = doing.placed + 1 THEN backup ELSE Held(j)
      BY <1>1, <1>3, <1>5, <1>6, <3>1 DEF Held
    <3> QED BY <3>1, <3>2, <3>3
  <2>3. CASE Unplace
    <3>1. Head(todo) = "unplace" /\ disk' = With(disk, Components[doing.placed], Nothing)
      BY <2>3 DEF Unplace, At
    <3>2. doing.placed \in 1..4
      BY <1>6, <3>1
    <3>3. \A j \in 1..4 : Held(j)' = IF j = doing.placed THEN Nothing ELSE Held(j)
      BY <1>1, <1>3, <1>5, <1>6, <3>1 DEF Held
    <3> QED BY <3>1, <3>2, <3>3
  <2>4. CASE PutBack
    <3>1. Head(todo) = "putback" /\ disk' = With(disk, Components[doing.displaced], doing.before)
      BY <2>4 DEF PutBack, At
    <3>2. doing.displaced \in 1..4
      BY <1>6, <3>1
    <3>3. \A j \in 1..4 : Held(j)' = IF j = doing.displaced THEN doing.before ELSE Held(j)
      BY <1>1, <1>3, <1>5, <1>6, <3>1 DEF Held
    <3> QED BY <3>1, <3>2, <3>3
  <2> QED BY <2>1, <2>2, <2>3, <2>4
<1>9. PICK i \in 1..4, from \in {Nothing, backup, doing.before} :
        /\ disk' = With(disk, Components[i], from)
        /\ \A j \in 1..4 : Held(j)' = IF j = i THEN from ELSE Held(j)
  BY <1>8
<1>10. /\ disk'.config = IF i = 1 THEN from.config ELSE disk.config
       /\ disk'.keys = IF i = 2 THEN from.keys ELSE disk.keys
       /\ disk'.identity = IF i = 2 THEN from.identity ELSE disk.identity
       /\ disk'.meta = IF i = 3 THEN from.meta ELSE disk.meta
       /\ disk'.generated = IF i = 4 THEN from.generated ELSE disk.generated
  BY <1>2, <1>9, WithFields
<1>11. /\ Held(1)' = IF 1 = i THEN from ELSE Held(1)
       /\ Held(2)' = IF 2 = i THEN from ELSE Held(2)
       /\ Held(3)' = IF 3 = i THEN from ELSE Held(3)
       /\ Held(4)' = IF 4 = i THEN from ELSE Held(4)
  BY <1>9
<1>12. Swapped'
  BY <1>3, <1>10, <1>11 DEF Swapped
<1> QED BY <1>7, <1>12

LEMMA SwapStays ==
  ASSUME SwapInv, doing # None, doing.op = "restore",
         UNCHANGED <<disk, backup>> \/ (UNCHANGED backup /\ disk \in Disks /\
           \E text : disk' = [disk EXCEPT !.runtime = text]),
         doing'.before = doing.before, doing'.placed = doing.placed, doing'.displaced = doing.displaced
  PROVE  doing'.placed <= doing'.displaced /\ Swapped'
<1>1. /\ disk'.config = disk.config /\ disk'.keys = disk.keys /\ disk'.identity = disk.identity
      /\ disk'.meta = disk.meta /\ disk'.generated = disk.generated /\ backup' = backup
  BY DEF Disks
<1>2. Held(1)' = Held(1) /\ Held(2)' = Held(2) /\ Held(3)' = Held(3) /\ Held(4)' = Held(4)
  BY <1>1 DEF Held
<1> QED BY <1>1, <1>2 DEF SwapInv, Swapped

LEMMA RestoreFails ==
  ASSUME TypeInv, doing.op = "restore", StepFails \/ ActFails
  PROVE  doing'.back /\ Now' \notin {"again", "end"}
<1>1. /\ todo # <<>> /\ doing' = [doing EXCEPT !.back = TRUE]
      /\ Head(todo) \in Fallible \cup {"act"}
      /\ todo' \in {Cleanup(doing), Undo(doing)}
  BY DEF StepFails, ActFails, At
<1>2. /\ doing \in Calls /\ doing'.back
      /\ doing.placed \in 0..4 /\ doing.displaced \in 0..4
  BY <1>1, HeadFacts DEF Calls
<1>3. todo' = Cleanup(doing)
  BY <1>1 DEF Undo
<1> DEFINE p == doing.placed
           m == doing.placed + doing.displaced
<1>4. p \in 0..4 /\ m \in Nat /\ p <= m
  BY <1>2
<1>5. /\ Cleanup(doing) \in Seq(Steps) /\ Len(Cleanup(doing)) = m + 2
      /\ \A i \in 1..(m + 2) :
           Cleanup(doing)[i] = IF i <= p THEN "unplace" ELSE IF i <= m THEN "putback"
                               ELSE IF i = m + 1 THEN "oldruntime" ELSE "again"
  BY <1>2, RestoreCleanup
<1> HIDE DEF p, m
<1>6. 1 \in 1..(m + 2) /\ Len(Cleanup(doing)) # 0
  BY <1>4, <1>5
<1>7. Cleanup(doing)[1] = IF 1 <= p THEN "unplace" ELSE IF 1 <= m THEN "putback"
                          ELSE IF 1 = m + 1 THEN "oldruntime" ELSE "again"
  BY <1>5, <1>6
<1>8. Cleanup(doing)[1] \in {"unplace", "putback", "oldruntime"}
  BY <1>4, <1>7
<1>9. Cleanup(doing) # <<>>
  BY <1>5, <1>6
<1> QED BY <1>2, <1>3, <1>8, <1>9 DEF Now, HeadOr

LEMMA GoingSwap ==
  ASSUME TypeInv, BeforeInv, SwapInv, Going
  PROVE  SwapInv'
<1> SUFFICES ASSUME doing.op = "restore"
             PROVE  SwapInv'
  BY GoingFrame DEF Frame, SwapInv
<1>1. /\ Frame /\ todo # <<>> /\ doing # None /\ doing \in Calls /\ doing.back \in BOOLEAN
      /\ disk \in Disks /\ doing'.op = "restore" /\ doing'.before = doing.before
      /\ backup' = backup /\ Now = Head(todo) /\ At(Now)
  BY GoingFrame, HeadFacts DEF Frame, At
<1>2. /\ RestoreInv /\ TypeOK
      /\ ~doing.active => link = None
      /\ doing.prior.runtime = doing.before.runtime
  BY <1>1 DEF TypeInv, CallInv, BeforeInv
<1>3. /\ ~doing.back => Now \in {"displace", "place", "runtime", "act", "verify"}
      /\ doing.back => Now \in {"unplace", "putback", "oldruntime", "again"}
  BY <1>1, <1>2, RestoreHead
<1>4. CASE Displace \/ Place \/ Unplace \/ PutBack
  <2>1. Onward /\ doing'.back = doing.back
    BY <1>4, SwapSteps DEF Onward, SameCall
  <2>2. Now \in {"displace", "place", "unplace", "putback"}
    BY <1>1, <1>4 DEF Displace, Place, Unplace, PutBack, At
  <2>3. /\ ~doing'.back => Now' \notin {"act", "verify", "end"}
        /\ doing'.back => Now' \notin {"again", "end"}
    BY <1>1, <1>3, <2>1, <2>2, RestoreNext DEF Onward
  <2> QED BY <1>4, <2>3, SwapHolds DEF SwapInv
<1>5. CASE StepFails \/ ActFails
  <2>1. disk' = disk /\ doing' = [doing EXCEPT !.back = TRUE]
    BY <1>5 DEF StepFails, ActFails
  <2>2. doing'.placed = doing.placed /\ doing'.displaced = doing.displaced
    BY <1>1, <2>1 DEF Calls
  <2>3. doing'.placed <= doing'.displaced /\ Swapped'
    BY <1>1, <2>1, <2>2, SwapStays
  <2> QED BY <1>5, <2>3, RestoreFails DEF SwapInv
<1>6. CASE WriteRuntime \/ Act \/ Verify \/ OldRuntime \/ Again \/ AgainFails
  <2>1. todo' = Tail(todo) /\ (doing' = doing \/ doing' = [doing EXCEPT !.committed = TRUE])
        /\ \/ disk' = disk
           \/ \E text : disk' = [disk EXCEPT !.runtime = text]
    BY <1>6 DEF WriteRuntime, Act, Verify, OldRuntime, Again, AgainFails, Write, Forth
  <2>2. /\ doing'.back = doing.back
        /\ doing'.placed = doing.placed /\ doing'.displaced = doing.displaced
    BY <1>1, <2>1 DEF Calls
  <2>3. doing'.placed <= doing'.displaced /\ Swapped'
    BY <1>1, <2>1, <2>2, SwapStays
  <2>4. CASE WriteRuntime
    <3>1. Now = "runtime" /\ disk' = [disk EXCEPT !.runtime = disk.generated]
      BY <1>1, <2>4 DEF WriteRuntime, At
    <3>2. Now' = "act" /\ disk'.runtime = disk'.generated /\ ~doing'.back
      BY <1>1, <1>3, <2>1, <2>2, <3>1, RestoreNext DEF Disks
    <3> QED BY <2>3, <3>2 DEF SwapInv
  <2>5. CASE Act
    <3>1. Now = "act" /\ disk' = disk /\ link' = Applied
      BY <1>1, <2>5 DEF Act, At, Applied
    <3>2. Now' = "verify" /\ link' \in {None, disk.runtime} /\ ~doing'.back
      BY <1>1, <1>2, <1>3, <2>1, <2>2, <3>1, RestoreNext DEF Applied
    <3> QED BY <1>1, <2>2, <2>3, <3>1, <3>2 DEF SwapInv
  <2>6. CASE Verify
    <3>1. Now = "verify" /\ disk' = disk /\ link' = link
      BY <1>1, <2>6 DEF Verify, At, Write
    <3>2. Now' = "end" /\ ~doing'.back
      BY <1>1, <1>3, <2>1, <2>2, <3>1, RestoreNext
    <3> QED BY <1>1, <2>2, <2>3, <3>1, <3>2 DEF SwapInv
  <2>7. CASE OldRuntime
    <3>1. Now = "oldruntime" /\ disk' = [disk EXCEPT !.runtime = doing.prior.runtime]
      BY <1>1, <2>7 DEF OldRuntime, At, Write
    <3>2. Now' = "again" /\ disk'.runtime = doing.before.runtime /\ doing'.back
      BY <1>1, <1>2, <1>3, <2>1, <2>2, <3>1, RestoreNext DEF Disks
    <3> QED BY <1>1, <2>3, <3>2 DEF SwapInv
  <2>8. CASE Again \/ AgainFails
    <3>1. Now = "again" /\ disk' = disk /\ (link' = Applied \/ wreck' = "damaged")
      BY <1>1, <2>8 DEF Again, AgainFails, Applied, At, Note
    <3>2. Now' = "end" /\ doing'.back
      BY <1>1, <1>3, <2>1, <2>2, <3>1, RestoreNext
    <3>3. link' \in {None, disk.runtime} \/ wreck' = "damaged"
      BY <1>2, <3>1 DEF Applied
    <3> QED BY <1>1, <2>2, <2>3, <3>1, <3>2, <3>3 DEF SwapInv
  <2> QED BY <1>6, <2>4, <2>5, <2>6, <2>7, <2>8
<1> QED BY <1>4, <1>5, <1>6, RestoreActs

-----------------------------------------------------------------------------
(* A command begins *)

LEMMA RestFacts ==
  ASSUME TypeInv, RestInv, doing = None, wreck # "damaged", disk.config # None
  PROVE  /\ Good(disk, wreck, day) /\ Fits(link, disk, wreck, day)
         /\ (Live(disk.meta, day) \subseteq disk.generated.peers /\ link # None) =>
              Serving(link, disk.config, disk.meta, day, wreck)
<1>1. Good(disk, wreck, day) /\ Fits(link, disk, wreck, day)
  BY DEF RestInv, Sane
<1> QED BY <1>1 DEF Fits, Serving

LEMMA BeginsFiles ==
  ASSUME TypeInv, RestInv, NEW c, Begun(c), Start(c), Counted, BeforeInv',
         c.prior = [generated |-> disk.generated, runtime |-> disk.runtime],
         c.op = "migrate" => link # None
  PROVE  RestInv' /\ ClientsInv' /\ TextInv' /\ LinkInv' /\ SwapInv' /\ ExpireFlow'
<1>1. /\ doing = None /\ doing' = c /\ todo' = Program(c.op)
      /\ UNCHANGED <<disk, link, day, backup, wreck>>
  BY DEF Start
<1>2. /\ c \in Calls /\ c # None /\ c.op \in Ops /\ ~c.back /\ ~c.committed
      /\ c.placed = 0 /\ c.displaced = 0 /\ c.before = disk /\ c.now = day
  BY NoneAssumption DEF Begun, Calls, NoneAssumption
<1>3. IF c.op = "restore" THEN Now' = "displace" ELSE Now' = Beginning[c.op]
  <2>1. CASE c.op = "restore"
    <3>1. todo' \in Seq(Steps) /\ Len(todo') = 11 /\ todo'[1] = RestoreStep(1)
      BY <1>1, <2>1, RestoreProgram
    <3>2. todo' # <<>>
      <4>1. Len(<<>>) = 0
        OBVIOUS
      <4>2. Len(todo') # 0
        BY <3>1
      <4> QED BY <4>1, <4>2
    <3> QED BY <2>1, <3>1, <3>2 DEF Now, HeadOr, RestoreStep
  <2>2. CASE c.op # "restore"
    BY <2>2, StartGoes
  <2> QED BY <2>1, <2>2
<1>4. /\ c.op \in {"initialize", "migrate", "endpoint", "port"} => Now' = "config"
      /\ c.op = "add" => Now' = "create"
      /\ c.op \in {"import", "rotate"} => Now' = "unclient"
      /\ c.op = "revoke" => Now' = "render"
      /\ c.op = "expire" => Now' = "mark"
      /\ c.op = "restore" => Now' = "displace"
  BY <1>3 DEF Beginning
<1>5. RestInv' /\ ExpireFlow'
  BY <1>1, <1>2 DEF RestInv, ExpireFlow
<1>6. SwapInv'
  <2> SUFFICES ASSUME c.op = "restore" PROVE SwapInv'
    BY <1>1 DEF SwapInv
  <2>1. Held(1)' = disk /\ Held(2)' = disk /\ Held(3)' = disk /\ Held(4)' = disk
    BY <1>1, <1>2 DEF Held
  <2> QED BY <1>1, <1>2, <1>4, <2>1 DEF SwapInv, Swapped
<1>7. disk.config = None /\ wreck # "damaged" => Bare(disk) /\ link \in {None, disk.runtime}
  BY <1>1 DEF RestInv, Sane
<1>8. /\ c.op \in {"initialize", "migrate"} => disk.config = None
      /\ c.op = "migrate" => disk.runtime = LegacyText
      /\ c.op = "add" => disk.meta[c.name] = None /\ disk.keys[c.name] = None
      /\ c.op \in Steady => /\ Ready(disk) /\ disk.runtime = disk.generated
                            /\ Live(disk.meta, day) \subseteq disk.generated.peers
  BY <1>1, <1>2 DEF BeforeInv
<1>9. ClientsInv'
  <2> SUFFICES ASSUME wreck # "damaged" PROVE ClientsInv'
    BY <1>1 DEF ClientsInv
  <2>1. CASE c.op \in {"initialize", "migrate"}
    <3>1. disk.meta[c.name] = None /\ disk.keys[c.name] = None
      BY <1>7, <1>8, <2>1 DEF Begun, Making, Bare
    <3> QED BY <1>1, <1>2, <1>4, <2>1, <3>1 DEF ClientsInv, MakingInv, Own, Making
  <2>2. CASE c.op \in {"add", "import", "rotate"}
    BY <1>1, <1>2, <1>4, <1>8, <2>2 DEF ClientsInv, MakingInv, Own, Making
  <2>3. CASE c.op \in {"revoke", "endpoint", "port", "expire", "restore"}
    BY <1>1, <1>2, <1>4, <2>3 DEF ClientsInv, Own, Making
  <2> QED BY <1>2, <2>1, <2>2, <2>3 DEF Ops
<1>10. TextInv'
  <2>1. ForthTexts'
    BY <1>1, <1>2, <1>4 DEF ForthTexts, Rendering, Late, Pair, Found
  <2>2. BackTexts'
    BY <1>1, <1>2 DEF BackTexts
  <2>3. SetupTexts'
    BY <1>1, <1>2 DEF SetupTexts, Pair
  <2>4. ExpiryTexts'
    BY <1>1, <1>2, <1>4, <1>8 DEF ExpiryTexts, Pair, Standing, Steady
  <2> QED BY <2>1, <2>2, <2>3, <2>4 DEF TextInv
<1>11. LinkInv'
  <2> SUFFICES ASSUME wreck # "damaged" PROVE LinkInv'
    BY <1>1 DEF LinkInv
  <2>1. c.op \in Steady => Old'
    <3> SUFFICES ASSUME c.op \in Steady PROVE Old'
      OBVIOUS
    <3>1. disk.config # None
      BY <1>8 DEF Ready
    <3>2. link # None => Serving(link, disk.config, disk.meta, day, wreck)
      BY <1>1, <1>8, <3>1, RestFacts
    <3> QED BY <1>1, <1>2, <3>2 DEF Old
  <2>2. KeptLink'
    BY <1>1, <1>2, <2>1 DEF KeptLink, Steady
  <2>3. MovedLink'
    BY <1>1, <1>2, <1>4, <2>1 DEF MovedLink, Steady, Late, Committers
  <2>4. SetupLink'
    BY <1>1, <1>2, <1>4, <1>7, <1>8 DEF SetupLink
  <2> QED BY <2>2, <2>3, <2>4 DEF LinkInv
<1> QED BY <1>5, <1>6, <1>9, <1>10, <1>11

LEMMA DriftServes ==
  ASSUME TypeInv, NoDrift
  PROVE  /\ Ready(disk) /\ disk.runtime = disk.generated /\ disk.generated # None
         /\ disk.generated = Render(disk.config, disk.meta, day)
         /\ Live(disk.meta, day) \subseteq disk.generated.peers
         /\ disk.config \in Configs /\ disk.meta \in Metas
<1>1. disk.config \in Configs /\ disk.meta \in Metas
  BY Settled
<1>2. Render(disk.config, disk.meta, day) \in Texts
  BY <1>1, RenderTyped
<1> QED BY <1>1, <1>2, RenderLists, NoneAssumption DEF NoDrift, NoneAssumption

(* What every command finds: the host at rest. *)
LEMMA FoundAtRest ==
  ASSUME RestInv, NEW c, Start(c), c.before = disk
  PROVE  /\ doing' = c /\ day' = day /\ backup' = backup /\ wreck' = wreck
         /\ wreck # "damaged" => Sane(c.before, wreck, day)
  BY DEF Start, RestInv

LEMMA SetupBefore ==
  ASSUME TypeInv, RestInv, NEW n \in Names, NEW c, Begun(c), Start(c),
         Initialize(n) \/ Migrate(n)
  PROVE  /\ BeforeInv' /\ c.prior = [generated |-> disk.generated, runtime |-> disk.runtime]
         /\ c.op = "migrate" => link # None
<1>1. /\ doing' = c /\ day' = day /\ backup' = backup /\ wreck' = wreck
      /\ wreck # "damaged" => Sane(c.before, wreck, day)
  BY FoundAtRest DEF Begun
<1>2. CASE Initialize(n)
  <2> DEFINE r == NewRecord(minted + 1, 1, None, FirstConfig)
  <2>1. /\ c = [Command("initialize", n, r) EXCEPT !.goal = FirstConfig, !.active = TRUE]
        /\ disk.config = None /\ disk.runtime = None
    BY <1>1, <1>2 DEF Initialize, Operator, Start
  <2>2. r.key = minted + 1
    BY DEF NewRecord
  <2> HIDE DEF r
  <2>3. /\ c.op = "initialize" /\ c.record = r /\ c.goal = FirstConfig /\ c.active /\ c.before = disk
        /\ c.prior = [generated |-> disk.generated, runtime |-> disk.runtime]
    BY <2>1 DEF Command
  <2>4. r = NewRecord(r.key, 1, None, FirstConfig)
    BY <2>2 DEF r
  <2> QED BY <1>1, <2>1, <2>3, <2>4 DEF BeforeInv, Steady
<1>3. CASE Migrate(n)
  <2> DEFINE r == NewRecord(1, 1, None, None)
  <2>1. /\ c = [Command("migrate", n, r) EXCEPT !.goal = FirstConfig]
        /\ disk.config = None /\ disk.runtime = LegacyText /\ 1 \in LiveKeys
    BY <1>1, <1>3 DEF Migrate, Operator, Start
  <2>2. link # None
    BY <2>1 DEF LiveKeys
  <2> HIDE DEF r
  <2>3. /\ c.op = "migrate" /\ c.record = r /\ c.goal = FirstConfig /\ c.before = disk
        /\ c.active = (link # None)
        /\ c.prior = [generated |-> disk.generated, runtime |-> disk.runtime]
    BY <2>1 DEF Command
  <2>4. r = NewRecord(1, 1, None, None)
    BY DEF r
  <2> QED BY <1>1, <2>1, <2>2, <2>3, <2>4 DEF BeforeInv, Steady
<1> QED BY <1>2, <1>3

LEMMA FreshlyKeyed ==
  ASSUME TypeInv, MintInv
  PROVE  ~Keyed(disk.meta, minted + 1)
<1>1. minted \in Nat /\ disk.meta \in Metas
  BY BoundAssumption DEF TypeInv, TypeOK, Disks, Metas
<1>2. \A m \in Described(disk.meta) : disk.meta[m].key \in Nat /\ disk.meta[m].key <= minted
  BY <1>1, KeysPositive DEF MintInv, Numbered
<1> QED BY <1>1, <1>2 DEF Keyed

LEMMA ClientBefore ==
  ASSUME TypeInv, MintInv, RestInv, NEW n \in Names, NEW c, Begun(c), Start(c),
         \/ Revoke(n) \/ Rotate(n)
         \/ \E date \in Dates(n) : Add(n, date)
         \/ \E profile \in {None, disk.config} : Import(n, profile)
  PROVE  /\ BeforeInv' /\ c.prior = [generated |-> disk.generated, runtime |-> disk.runtime]
         /\ c.op # "migrate"
<1>1. /\ doing' = c /\ day' = day /\ backup' = backup /\ wreck' = wreck
      /\ wreck # "damaged" => Sane(c.before, wreck, day)
  BY FoundAtRest DEF Begun
<1>2. NoDrift
  BY DEF Revoke, Rotate, Add, Import
<1>3. /\ Ready(disk) /\ disk.runtime = disk.generated /\ disk.generated # None
      /\ disk.generated = Render(disk.config, disk.meta, day)
      /\ Live(disk.meta, day) \subseteq disk.generated.peers
      /\ disk.config \in Configs /\ disk.meta \in Metas
  BY <1>2, DriftServes
<1>4. CASE Revoke(n)
  <2>1. c = Command("revoke", n, None)
    BY <1>1, <1>4 DEF Revoke, Operator, Start
  <2>2. /\ c.op = "revoke" /\ c.before = disk /\ c.now = day
        /\ c.prior = [generated |-> disk.generated, runtime |-> disk.runtime]
    BY <2>1 DEF Command
  <2> QED BY <1>1, <1>3, <2>2 DEF BeforeInv, Steady
<1>5. CASE Rotate(n)
  <2> DEFINE r == NewRecord(minted + 1, disk.meta[n].addr, disk.meta[n].expires, disk.config)
  <2>1. c = Command("rotate", n, r) /\ disk.meta[n].managed
    BY <1>1, <1>5 DEF Rotate, Operator, Start
  <2>2. r.key = minted + 1
    BY DEF NewRecord
  <2>3. r = NewRecord(r.key, disk.meta[n].addr, disk.meta[n].expires, disk.config)
    BY <2>2
  <2> HIDE DEF r
  <2>4. /\ c.op = "rotate" /\ c.before = disk /\ c.now = day /\ c.name = n /\ c.record = r
        /\ c.prior = [generated |-> disk.generated, runtime |-> disk.runtime]
    BY <2>1 DEF Command
  <2>5. ~Keyed(disk.meta, r.key)
    BY <2>2, FreshlyKeyed
  <2> QED BY <1>1, <1>3, <2>1, <2>3, <2>4, <2>5 DEF BeforeInv, Steady
<1>6. CASE \E date \in Dates(n) : Add(n, date)
  <2>1. PICK date \in Dates(n) : Add(n, date)
    BY <1>6
  <2> DEFINE r == NewRecord(minted + 1, FreeAddress, date, disk.config)
  <2>2. c = Command("add", n, r) /\ disk.meta[n] = None /\ disk.keys[n] = None
    BY <1>1, <2>1 DEF Add, Operator, Start
  <2>3. r.key = minted + 1 /\ r.addr = FreeAddress /\ r.expires = date
    BY DEF NewRecord
  <2>4. r = NewRecord(r.key, r.addr, r.expires, disk.config)
    BY <2>3
  <2> HIDE DEF r
  <2>5. /\ c.op = "add" /\ c.before = disk /\ c.now = day /\ c.name = n /\ c.record = r
        /\ c.prior = [generated |-> disk.generated, runtime |-> disk.runtime]
    BY <2>2 DEF Command
  <2>6. ~Keyed(disk.meta, r.key)
    BY <2>3, FreshlyKeyed
  <2>7. \A m \in Described(disk.meta) : disk.meta[m].addr # r.addr
    <3>1. n \notin Described(disk.meta)
      BY <2>2 DEF Described
    <3>2. r.addr \notin Taken
      BY <1>3, <2>3, <3>1, FreeAddressTyped
    <3> QED BY <3>2 DEF Taken
  <2> QED BY <1>1, <1>3, <2>2, <2>4, <2>5, <2>6, <2>7 DEF BeforeInv, Steady
<1>7. CASE \E profile \in {None, disk.config} : Import(n, profile)
  <2>1. PICK profile \in {None, disk.config} : Import(n, profile)
    BY <1>7
  <2> DEFINE r == NewRecord(disk.meta[n].key, disk.meta[n].addr, disk.meta[n].expires, profile)
  <2>2. /\ c = Command("import", n, r) /\ ~disk.meta[n].managed /\ n \in Described(disk.meta)
        /\ Peer(n) \in disk.generated.peers
    BY <1>1, <2>1 DEF Import, Operator, Start
  <2>3. r.profile = profile
    BY DEF NewRecord
  <2>4. r = NewRecord(disk.meta[n].key, disk.meta[n].addr, disk.meta[n].expires, r.profile)
    BY <2>3
  <2> HIDE DEF r
  <2>5. /\ c.op = "import" /\ c.before = disk /\ c.now = day /\ c.name = n /\ c.record = r
        /\ c.prior = [generated |-> disk.generated, runtime |-> disk.runtime]
    BY <2>2 DEF Command
  <2>6. disk.meta[n].state = "active"
    <3>1. PICK m \in Described(disk.meta) : Eligible(disk.meta[m], day) /\ Peer(n) = Listed(disk.meta, m)
      BY <1>3, <2>2, RenderLists DEF Live
    <3>2. disk.meta[m].key = disk.meta[n].key
      BY <3>1 DEF Peer, Listed
    <3>3. m = n
      BY <1>3, <2>2, <3>1, <3>2 DEF Ready, Loadable
    <3> QED BY <3>1, <3>3 DEF Eligible
  <2>7. /\ ~c.before.meta[c.name].managed /\ c.before.meta[c.name].state = "active"
        /\ c.record.profile \in {None, c.before.config}
    BY <2>1, <2>2, <2>3, <2>5, <2>6
  <2>8. c.record = NewRecord(c.before.meta[c.name].key, c.before.meta[c.name].addr,
                             c.before.meta[c.name].expires, c.record.profile)
    BY <2>4, <2>5
  <2> QED BY <1>1, <1>3, <2>5, <2>7, <2>8 DEF BeforeInv, Steady
<1> QED BY <1>4, <1>5, <1>6, <1>7

LEMMA ExpiryServes ==
  ASSUME TypeInv, Expire
  PROVE  /\ Ready(disk) /\ disk.runtime = disk.generated /\ disk.generated # None
         /\ Live(disk.meta, day) \subseteq disk.generated.peers
<1>1. /\ Ready(disk) /\ disk.generated # None /\ disk.runtime = disk.generated /\ Reconcilable
  BY DEF Expire
<1> DEFINE expected == Render(disk.config, disk.meta, day)
           others == {Peer(m) : m \in Selected}
<1>2. disk.config \in Configs /\ disk.meta \in Metas
  BY <1>1, Settled
<1>3. expected \in Texts /\ expected.peers = Live(disk.meta, day)
  BY <1>2, RenderTyped, RenderLists
<1>4. PICK peers \in {expected.peers, expected.peers \cup others} :
        disk.generated = [expected EXCEPT !.peers = peers]
  BY <1>1 DEF Reconcilable
<1> HIDE DEF expected, others
<1>5. disk.generated.peers = peers
  BY <1>3, <1>4 DEF Texts
<1> QED BY <1>1, <1>3, <1>4, <1>5

LEMMA OthersBefore ==
  ASSUME TypeInv, RestInv, NEW c, Begun(c), Start(c),
         (\E field \in {"endpoint", "port"} : Configure(field)) \/ Expire \/ Restore
  PROVE  /\ BeforeInv' /\ c.prior = [generated |-> disk.generated, runtime |-> disk.runtime]
         /\ c.op # "migrate"
<1>1. /\ doing' = c /\ day' = day /\ backup' = backup /\ wreck' = wreck
      /\ wreck # "damaged" => Sane(c.before, wreck, day)
  BY FoundAtRest DEF Begun
<1>2. CASE \E field \in {"endpoint", "port"} : Configure(field)
  <2>1. PICK field \in {"endpoint", "port"} : Configure(field)
    BY <1>2
  <2> DEFINE goal == [disk.config EXCEPT ![field] = 1 - @]
             t == Render(goal, disk.meta, day)
  <2>2. c = [Command(field, None, None) EXCEPT !.goal = goal, !.text = t] /\ NoDrift
    BY <1>1, <2>1 DEF Configure, Operator, Start
  <2>3. /\ Ready(disk) /\ disk.runtime = disk.generated /\ disk.generated # None
        /\ disk.generated = Render(disk.config, disk.meta, day)
        /\ Live(disk.meta, day) \subseteq disk.generated.peers
    BY <2>2, DriftServes
  <2>4. t = Render(goal, disk.meta, day)
    OBVIOUS
  <2> HIDE DEF t
  <2>5. goal = [disk.config EXCEPT ![field] = 1 - @]
    OBVIOUS
  <2> HIDE DEF goal
  <2>6. /\ c.op = field /\ c.before = disk /\ c.now = day /\ c.goal = goal /\ c.text = t
        /\ c.prior = [generated |-> disk.generated, runtime |-> disk.runtime]
    BY <2>2 DEF Command
  <2> QED BY <1>1, <2>3, <2>4, <2>5, <2>6 DEF BeforeInv, Steady
<1>3. CASE Expire
  <2>1. c = Command("expire", None, None)
    BY <1>1, <1>3 DEF Expire, Start
  <2>2. /\ c.op = "expire" /\ c.before = disk /\ c.now = day
        /\ c.prior = [generated |-> disk.generated, runtime |-> disk.runtime]
    BY <2>1 DEF Command
  <2> QED BY <1>1, <1>3, <2>2, ExpiryServes DEF BeforeInv, Steady
<1>4. CASE Restore
  <2>1. c = Command("restore", None, None) /\ Restorable(backup)
    BY <1>1, <1>4 DEF Restore, Operator, Start
  <2>2. /\ c.op = "restore" /\ c.before = disk /\ c.now = day
        /\ c.prior = [generated |-> disk.generated, runtime |-> disk.runtime]
    BY <2>1 DEF Command
  <2>3. backup \in Disks /\ Ready(backup) /\ Paired(backup) /\ Profiled(backup)
    BY <2>1 DEF Restorable, Paired, Profiled, TypeInv, TypeOK
  <2>4. backup.config \in Configs /\ backup.meta \in Metas /\ day \in Days /\ day <= day
    BY <2>3, BoundAssumption DEF Disks, Metas, Ready, TypeInv, TypeOK, Days
  <2>5. Serving(backup.generated, backup.config, backup.meta, day, "none")
    BY <2>1, <2>4, RenderServes DEF Restorable
  <2> QED BY <1>1, <2>2, <2>3, <2>5 DEF BeforeInv, Steady
<1> QED BY <1>2, <1>3, <1>4

LEMMA BeginFiles ==
  ASSUME Inv, RestInv,
         \/ \E n \in Names :
              \/ Initialize(n) \/ Migrate(n) \/ Revoke(n) \/ Rotate(n)
              \/ \E date \in Dates(n) : Add(n, date)
              \/ \E profile \in {None, disk.config} : Import(n, profile)
         \/ \E field \in {"endpoint", "port"} : Configure(field)
         \/ Expire \/ Restore
  PROVE  RestInv' /\ BeforeInv' /\ ClientsInv' /\ TextInv' /\ LinkInv' /\ SwapInv' /\ ExpireFlow'
<1>1. TypeInv /\ MintInv
  BY DEF Inv
<1>2. PICK c : Begun(c) /\ Start(c) /\ Counted
  BY <1>1, BeginTyped
<1>3. /\ BeforeInv' /\ c.prior = [generated |-> disk.generated, runtime |-> disk.runtime]
      /\ c.op = "migrate" => link # None
  <2>1. CASE \E n \in Names : Initialize(n) \/ Migrate(n)
    BY <1>1, <1>2, <2>1, SetupBefore
  <2>2. CASE \E n \in Names :
              \/ Revoke(n) \/ Rotate(n)
              \/ \E date \in Dates(n) : Add(n, date)
              \/ \E profile \in {None, disk.config} : Import(n, profile)
    BY <1>1, <1>2, <2>2, ClientBefore
  <2>3. CASE (\E field \in {"endpoint", "port"} : Configure(field)) \/ Expire \/ Restore
    BY <1>1, <1>2, <2>3, OthersBefore
  <2> QED BY <2>1, <2>2, <2>3
<1> QED BY <1>1, <1>2, <1>3, BeginsFiles

-----------------------------------------------------------------------------
(* A command ends *)

Restful(w) ==
  /\ disk.config # None /\ Ready(disk) /\ Paired(disk) /\ Profiled(disk)
  /\ disk.runtime = disk.generated
  /\ Serving(disk.generated, disk.config, disk.meta, day, w)
  /\ link # None => Serving(link, disk.config, disk.meta, day, w)

LEMMA AtRest ==
  ASSUME NEW w, doing' = None, disk' = disk, link' = link, day' = day, wreck' = w, Restful(w)
  PROVE  RestInv'
<1>1. Good(disk, w, day) /\ Fits(link, disk, w, day)
  BY DEF Restful, Good, Fits, Serving
<1>2. Sane(disk, w, day)
  BY <1>1 DEF Sane, Restful
<1> QED BY <1>1, <1>2 DEF RestInv, Restful

(* The files a client is known by, once one client has been made. *)
LEMMA OneMade ==
  ASSUME disk \in Disks, NEW b \in Disks, NEW n \in Names, NEW r \in Records,
         disk.meta[n] = r, disk.keys[n] = r.key,
         \A m \in Names \ {n} : disk.meta[m] = b.meta[m] /\ disk.keys[m] = b.keys[m],
         Loadable(b), Paired(b), disk.config # None, disk.identity,
         \A m \in Described(b.meta) : b.meta[m].managed => b.meta[m].profile \in {None, disk.config},
         r.state = "active", r.profile \in {None, disk.config},
         \A m \in Described(b.meta) \ {n} : b.meta[m].key # r.key /\ b.meta[m].addr # r.addr
  PROVE  /\ Ready(disk) /\ Paired(disk) /\ Profiled(disk)
         /\ disk.meta = [b.meta EXCEPT ![n] = r]
<1>1. r \notin {None, Partial} /\ r.key # None
  BY NoneAssumption DEF NoneAssumption, Records
<1>2. disk.meta \in Metas /\ b.meta \in Metas
  BY DEF Disks, Metas
<1>3. disk.meta = [b.meta EXCEPT ![n] = r]
  <2>1. [b.meta EXCEPT ![n] = r] \in Metas
    BY <1>2 DEF Metas
  <2>2. \A m \in Names : disk.meta[m] = [b.meta EXCEPT ![n] = r][m]
    BY <1>2 DEF Metas
  <2> QED BY <1>2, <2>1, <2>2, SameMetas
<1>4. Described(disk.meta) = Described(b.meta) \cup {n}
  BY <1>1 DEF Described
<1>5. Loadable(disk)
  <2>1. \A m \in Names : disk.meta[m] # Partial
    BY <1>1 DEF Loadable
  <2>2. \A m \in Described(disk.meta) :
          disk.meta[m].state \in {"active", "expired"} /\ disk.keys[m] = disk.meta[m].key
    BY <1>4, DescribedRecords, <1>2 DEF Loadable
  <2>3. \A m, x \in Described(disk.meta) :
          m # x => disk.meta[m].key # disk.meta[x].key /\ disk.meta[m].addr # disk.meta[x].addr
    <3> SUFFICES ASSUME NEW m \in Described(disk.meta), NEW x \in Described(disk.meta), m # x
                 PROVE  disk.meta[m].key # disk.meta[x].key /\ disk.meta[m].addr # disk.meta[x].addr
      OBVIOUS
    <3>1. m \in Names /\ x \in Names
      BY DEF Described
    <3>2. CASE m = n
      BY <1>4, <3>1, <3>2
    <3>3. CASE x = n
      BY <1>4, <3>1, <3>3
    <3>4. CASE m # n /\ x # n
      BY <1>4, <3>1, <3>4 DEF Loadable
    <3> QED BY <3>2, <3>3, <3>4
  <2> QED BY <2>1, <2>2, <2>3 DEF Loadable
<1>6. Paired(disk)
  BY <1>1 DEF Paired
<1>7. Profiled(disk)
  BY <1>2, <1>4, DescribedRecords DEF Profiled
<1> QED BY <1>3, <1>5, <1>6, <1>7 DEF Ready

LEMMA OneRemoved ==
  ASSUME disk \in Disks, NEW b \in Disks, NEW n \in Names,
         disk.meta[n] = None, disk.keys[n] = None,
         \A m \in Names \ {n} : disk.meta[m] = b.meta[m] /\ disk.keys[m] = b.keys[m],
         Ready(b), Paired(b), Profiled(b), disk.config = b.config, disk.identity = b.identity
  PROVE  /\ Ready(disk) /\ Paired(disk) /\ Profiled(disk)
         /\ disk.meta = [b.meta EXCEPT ![n] = None]
<1>1. disk.meta \in Metas /\ b.meta \in Metas
  BY DEF Disks, Metas
<1>2. disk.meta = [b.meta EXCEPT ![n] = None]
  <2>1. [b.meta EXCEPT ![n] = None] \in Metas
    BY <1>1 DEF Metas
  <2>2. \A m \in Names : disk.meta[m] = [b.meta EXCEPT ![n] = None][m]
    BY <1>1 DEF Metas
  <2> QED BY <1>1, <2>1, <2>2, SameMetas
<1>3. Described(disk.meta) = Described(b.meta) \ {n}
  BY DEF Described
<1>4. \A m \in Described(disk.meta) : m \in Names \ {n} /\ disk.meta[m] = b.meta[m] /\ disk.keys[m] = b.keys[m]
  BY <1>3 DEF Described
<1>5. Loadable(disk)
  BY <1>3, <1>4, NoneAssumption DEF Ready, Loadable, NoneAssumption
<1>6. Paired(disk)
  BY DEF Paired
<1>7. Profiled(disk)
  BY <1>3, <1>4 DEF Profiled
<1> QED BY <1>2, <1>5, <1>6, <1>7 DEF Ready

(* The command is taken back. *)
LEMMA FoundAgain ==
  ASSUME NEW b, Ready(b), Paired(b), Profiled(b),
         disk.config = b.config, disk.identity = b.identity, disk.meta = b.meta, disk.keys = b.keys
  PROVE  Ready(disk) /\ Paired(disk) /\ Profiled(disk)
  BY DEF Ready, Paired, Profiled, Loadable

LEMMA PeersAlike ==
  ASSUME NEW meta \in Metas, NEW other \in Metas, Described(other) = Described(meta),
         \A m \in Described(meta) :
           /\ other[m].key = meta[m].key /\ other[m].addr = meta[m].addr
           /\ other[m].state = meta[m].state /\ other[m].expires = meta[m].expires,
         NEW config, NEW goal, goal.port = config.port, NEW d, NEW w, NEW text,
         Serving(text, config, meta, d, w)
  PROVE  Serving(text, goal, other, d, w)
<1>1. Live(other, d) = Live(meta, d)
  BY DEF Live, Listed, Eligible, Expired
<1>2. Gone(other, d, w) = Gone(meta, d, w)
  BY DEF Gone, Listed, Expired
<1> QED BY <1>1, <1>2 DEF Serving, Inside

(* What every command but restore leaves, when it was not damaged. *)
LEMMA Ends ==
  ASSUME TypeInv, BeforeInv, doing # None, todo = <<>>, doing.op # "restore", wreck # "damaged"
  PROVE  /\ doing \in Calls /\ Now = "end" /\ Late /\ disk \in Disks /\ day \in Days
         /\ doing.before \in Disks /\ doing.before.meta \in Metas /\ disk.meta \in Metas
         /\ doing.back \in BOOLEAN /\ doing.committed \in BOOLEAN /\ doing.now \in Days /\ doing.now <= day
         /\ doing.op \in Steady =>
              /\ Ready(doing.before) /\ Paired(doing.before) /\ Profiled(doing.before)
              /\ doing.before.config \in Configs
         /\ doing.op \in {"initialize", "migrate"} => Bare(doing.before)
<1>1. doing \in Calls /\ Now = "end" /\ Late
  BY DEF TypeInv, TypeOK, Now, HeadOr, Late
<1>2. /\ disk \in Disks /\ day \in Days /\ doing.before \in Disks /\ doing.before.meta \in Metas
      /\ disk.meta \in Metas /\ doing.back \in BOOLEAN /\ doing.committed \in BOOLEAN /\ doing.now \in Days
      /\ doing.now <= day
  BY <1>1 DEF TypeInv, TypeOK, CallInv, Disks, Metas, Calls
<1>3. Sane(doing.before, wreck, day)
  BY DEF BeforeInv
<1>4. doing.op \in Steady =>
        /\ Ready(doing.before) /\ Paired(doing.before) /\ Profiled(doing.before)
        /\ doing.before.config \in Configs
  <2> SUFFICES ASSUME doing.op \in Steady
               PROVE  /\ Ready(doing.before) /\ Paired(doing.before) /\ Profiled(doing.before)
                      /\ doing.before.config \in Configs
    OBVIOUS
  <2>1. Ready(doing.before)
    BY DEF BeforeInv
  <2>2. doing.before.config # None
    BY <2>1 DEF Ready
  <2> QED BY <1>2, <1>3, <2>1, <2>2 DEF Sane, Good, Disks
<1>5. doing.op \in {"initialize", "migrate"} => Bare(doing.before)
  BY <1>3 DEF BeforeInv, Sane
<1> QED BY <1>1, <1>2, <1>4, <1>5

LEMMA SetupEnds ==
  ASSUME TypeInv, BeforeInv, ClientsInv, TextInv, LinkInv, doing # None, todo = <<>>,
         doing.op \in {"initialize", "migrate"}, wreck # "damaged"
  PROVE  /\ ~doing.back => Restful(wreck)
         /\ doing.back => disk.config = None /\ Bare(disk) /\ link \in {None, disk.runtime}
<1> DEFINE b == doing.before
           n == doing.name
           r == doing.record
<1>1. /\ doing \in Calls /\ Now = "end" /\ Late /\ disk \in Disks /\ day \in Days
      /\ b \in Disks /\ disk.meta \in Metas /\ doing.now \in Days /\ Bare(b)
  BY Ends
<1>2. r \in Records /\ n \in Names
  BY DEF TypeInv, CallInv, Making
<1>3. \A m \in Names \ {n} : disk.meta[m] = b.meta[m] /\ disk.keys[m] = b.keys[m]
  BY DEF ClientsInv
<1>4. ASSUME doing.back
      PROVE  disk.config = None /\ Bare(disk) /\ link \in {None, disk.runtime}
  <2>1. disk.config = None /\ Own(b.meta[n], b.keys[n])
    BY <1>1, <1>4 DEF ClientsInv, MakingInv, Making
  <2>2. Bare(disk)
    BY <1>1, <1>3, <2>1 DEF Bare, Own
  <2>3. CASE doing.op = "initialize"
    BY <1>1, <1>4, <2>1, <2>2, <2>3 DEF LinkInv, SetupLink
  <2>4. CASE doing.op = "migrate"
    <3>1. link \in {None, b.runtime}
      BY <1>1, <1>4, <2>4 DEF LinkInv, SetupLink
    <3>2. disk.runtime = b.runtime
      BY <1>1, <1>4, <2>4 DEF TextInv, SetupTexts
    <3> QED BY <2>1, <2>2, <3>1, <3>2
  <2> QED BY <2>3, <2>4
<1>5. ASSUME ~doing.back
      PROVE  Restful(wreck)
  <2>1. disk.config = FirstConfig /\ doing.goal = FirstConfig /\ disk.identity /\ Own(r, r.key)
    BY <1>1, <1>5 DEF ClientsInv, MakingInv, Making, BeforeInv
  <2>2. FirstConfig # None /\ FirstConfig \in Configs
    BY FirstValues, NoneAssumption DEF NoneAssumption
  <2>3. r.state = "active" /\ r.profile \in {None, disk.config}
    <3>1. \/ r = NewRecord(r.key, 1, None, FirstConfig)
          \/ r = NewRecord(1, 1, None, None)
      BY DEF BeforeInv
    <3> QED BY <2>1, <3>1 DEF NewRecord
  <2>4. Described(b.meta) = {} /\ Loadable(b) /\ Paired(b)
    BY <1>1, NoneAssumption DEF Bare, Described, Loadable, Paired, NoneAssumption
  <2>5. /\ Ready(disk) /\ Paired(disk) /\ Profiled(disk)
        /\ disk.meta = [b.meta EXCEPT ![n] = r]
    BY <1>1, <1>2, <1>3, <2>1, <2>2, <2>3, <2>4, OneMade DEF Own
  <2>6. disk.meta = Target(doing)
    <3>1. b.meta = [m \in Names |-> None]
      <4>1. [m \in Names |-> None] \in Metas /\ b.meta \in Metas
        BY <1>1 DEF Metas, Disks
      <4>2. \A m \in Names : b.meta[m] = [x \in Names |-> None][m]
        BY <1>1 DEF Bare
      <4> QED BY <4>1, <4>2, SameMetas
    <3>2. disk.meta = [m \in Names |-> IF m = n THEN r ELSE None]
      BY <2>5, <3>1
    <3> QED BY <3>2 DEF Target
  <2>7. /\ Pair(doing.text, doing.text) /\ Rendered(doing.text, FirstConfig, disk.meta)
    BY <1>1, <1>5, <2>1, <2>6 DEF TextInv, ForthTexts, Rendering, GoalConfig
  <2>8. PICK d \in doing.now..day : doing.text = Render(FirstConfig, disk.meta, d)
    BY <2>7 DEF Rendered
  <2>9. d \in Days /\ d <= day
    BY <1>1, <2>8, BoundAssumption DEF Days
  <2>10. Serving(doing.text, disk.config, disk.meta, day, wreck)
    BY <1>1, <2>1, <2>2, <2>8, <2>9, RenderServes
  <2>11. link = doing.text
    <3>1. CASE doing.op = "initialize"
      BY <1>1, <1>5, <3>1 DEF LinkInv, SetupLink
    <3>2. CASE doing.op = "migrate"
      <4>1. link = LegacyText /\ r = NewRecord(1, 1, None, None)
        BY <1>1, <1>5, <3>2 DEF LinkInv, SetupLink, BeforeInv
      <4>2. disk.meta = [m \in Names |-> IF m = n THEN NewRecord(1, 1, None, None) ELSE None]
        BY <2>6, <4>1 DEF Target
      <4>3. doing.text = LegacyText
        BY <1>2, <2>8, <4>2, RenderLegacy
      <4> QED BY <4>1, <4>3
    <3> QED BY <3>1, <3>2
  <2> QED BY <2>1, <2>2, <2>5, <2>7, <2>10, <2>11 DEF Restful, Pair
<1> QED BY <1>4, <1>5

(* add, rotate, revoke and config set serve what they rendered for the clients  *)
(* they leave. *)
LEMMA RenderedEnds ==
  ASSUME TypeInv, BeforeInv, TextInv, doing # None, todo = <<>>,
         doing.op \in {"add", "rotate", "revoke", "endpoint", "port"}, ~doing.back, wreck # "damaged",
         disk.meta = Target(doing), disk.config = GoalConfig(doing), disk.config \in Configs
  PROVE  /\ disk.runtime = disk.generated /\ disk.generated = doing.text
         /\ Serving(disk.generated, disk.config, disk.meta, day, wreck)
<1>1. /\ Now = "end" /\ Late /\ disk \in Disks /\ day \in Days /\ disk.meta \in Metas /\ doing.now \in Days
  BY Ends
<1>2. Pair(doing.text, doing.text) /\ Rendered(doing.text, disk.config, disk.meta)
  BY <1>1 DEF TextInv, ForthTexts, Rendering
<1>3. PICK d \in doing.now..day : doing.text = Render(disk.config, disk.meta, d)
  BY <1>2 DEF Rendered
<1>4. d \in Days /\ d <= day
  BY <1>1, <1>3, BoundAssumption DEF Days
<1>5. Serving(doing.text, disk.config, disk.meta, day, wreck)
  BY <1>1, <1>3, <1>4, RenderServes
<1> QED BY <1>2, <1>5 DEF Pair

(* A command that was taken back leaves the clients, and what is served, as it  *)
(* found them.                                                                  *)
LEMMA BackEnds ==
  ASSUME TypeInv, BeforeInv, ClientsInv, TextInv, LinkInv, doing # None, todo = <<>>,
         doing.op \in {"add", "import", "rotate", "revoke", "endpoint", "port"}, doing.back,
         wreck # "damaged"
  PROVE  Restful(wreck)
<1> DEFINE b == doing.before
           n == doing.name
<1>1. /\ doing \in Calls /\ Now = "end" /\ disk \in Disks /\ b \in Disks /\ disk.meta \in Metas
      /\ b.meta \in Metas
  BY Ends
<1>2. Ready(b) /\ Paired(b) /\ Profiled(b) /\ b.config \in Configs
  BY Ends DEF Steady
<1>3. /\ disk.config = b.config /\ disk.identity = b.identity
      /\ disk.meta = b.meta /\ disk.keys = b.keys
  <2>1. CASE doing.op \in {"endpoint", "port"}
    BY <1>1, <2>1 DEF ClientsInv
  <2>2. CASE doing.op \in {"add", "import", "rotate", "revoke"}
    <3>1. /\ disk.config = b.config /\ disk.identity = b.identity /\ Own(b.meta[n], b.keys[n])
          /\ \A m \in Names \ {n} : disk.meta[m] = b.meta[m] /\ disk.keys[m] = b.keys[m]
      BY <1>1, <2>2 DEF ClientsInv, MakingInv, Making
    <3>2. disk.meta = b.meta
      BY <1>1, <3>1, SameMetas DEF Own
    <3>3. disk.keys = b.keys
      BY <1>1, <3>1 DEF Own, Disks
    <3> QED BY <3>1, <3>2, <3>3
  <2> QED BY <2>1, <2>2
<1>4. Ready(disk) /\ Paired(disk) /\ Profiled(disk)
  BY <1>2, <1>3, FoundAgain
<1>5. disk.runtime = disk.generated /\ Serving(disk.generated, b.config, b.meta, day, wreck)
  <2>1. CASE doing.op = "import"
    BY <2>1, FoundServes DEF Steady, TextInv, SetupTexts, Pair
  <2>2. CASE doing.op # "import"
    BY <1>1, <2>2 DEF TextInv, BackTexts, Settling
  <2> QED BY <2>1, <2>2
<1>6. Old
  BY <1>1 DEF LinkInv, KeptLink, MovedLink, Settling
<1> QED BY <1>2, <1>3, <1>4, <1>5, <1>6, NoneAssumption DEF Restful, Old, NoneAssumption

LEMMA MakingEnds ==
  ASSUME TypeInv, BeforeInv, ClientsInv, TextInv, LinkInv, doing # None, todo = <<>>,
         doing.op \in {"add", "rotate"}, ~doing.back, wreck # "damaged"
  PROVE  Restful(wreck)
<1> DEFINE b == doing.before
           n == doing.name
           r == doing.record
<1>1. /\ doing \in Calls /\ Now = "end" /\ Late /\ disk \in Disks /\ b \in Disks
      /\ Ready(b) /\ Paired(b) /\ Profiled(b) /\ b.config \in Configs
  BY Ends DEF Steady
<1>2. r \in Records /\ n \in Names
  BY DEF TypeInv, CallInv, Making
<1>3. /\ disk.config = b.config /\ disk.identity = b.identity /\ Own(r, r.key)
      /\ \A m \in Names \ {n} : disk.meta[m] = b.meta[m] /\ disk.keys[m] = b.keys[m]
  BY <1>1 DEF ClientsInv, MakingInv, Making
<1>4. /\ r.state = "active" /\ r.profile \in {None, b.config}
      /\ \A m \in Described(b.meta) \ {n} : b.meta[m].key # r.key /\ b.meta[m].addr # r.addr
  <2>1. CASE doing.op = "add"
    <3>1. /\ ~Keyed(b.meta, r.key) /\ \A m \in Described(b.meta) : b.meta[m].addr # r.addr
          /\ r = NewRecord(r.key, r.addr, r.expires, b.config)
      BY <2>1 DEF BeforeInv
    <3> QED BY <3>1 DEF NewRecord, Keyed
  <2>2. CASE doing.op = "rotate"
    <3>1. ~Keyed(b.meta, r.key) /\ r = NewRecord(r.key, b.meta[n].addr, b.meta[n].expires, b.config)
      BY <2>2 DEF BeforeInv
    <3>2. r.state = "active" /\ r.profile = b.config /\ r.addr = b.meta[n].addr
      BY <3>1 DEF NewRecord
    <3>3. n \in Described(b.meta)
      BY <2>2 DEF TypeInv, CallInv
    <3> QED BY <1>1, <3>1, <3>2, <3>3 DEF Keyed, Ready, Loadable
  <2> QED BY <2>1, <2>2
<1>5. /\ b.config # None /\ disk.identity /\ Loadable(b)
      /\ \A m \in Described(b.meta) : b.meta[m].managed => b.meta[m].profile \in {None, disk.config}
  BY <1>1, <1>3 DEF Ready, Profiled
<1>6. /\ Ready(disk) /\ Paired(disk) /\ Profiled(disk)
      /\ disk.meta = [b.meta EXCEPT ![n] = r]
  BY <1>1, <1>2, <1>3, <1>4, <1>5, OneMade DEF Own
<1>7. disk.meta = Target(doing) /\ disk.config = GoalConfig(doing)
  BY <1>3, <1>6 DEF Target, GoalConfig
<1>8. /\ disk.runtime = disk.generated /\ disk.generated = doing.text
      /\ Serving(disk.generated, disk.config, disk.meta, day, wreck)
  BY <1>1, <1>3, <1>7, RenderedEnds
<1>9. link \in {None, doing.text}
  BY <1>1 DEF LinkInv, MovedLink, Put
<1> QED BY <1>3, <1>5, <1>6, <1>8, <1>9 DEF Restful

LEMMA ImportEnds ==
  ASSUME TypeInv, BeforeInv, ClientsInv, TextInv, LinkInv, doing # None, todo = <<>>,
         doing.op = "import", ~doing.back, wreck # "damaged"
  PROVE  Restful(wreck)
<1> DEFINE b == doing.before
           n == doing.name
           r == doing.record
<1>1. /\ doing \in Calls /\ Now = "end" /\ Late /\ disk \in Disks /\ b \in Disks
      /\ Ready(b) /\ Paired(b) /\ Profiled(b) /\ b.config \in Configs
      /\ b.meta \in Metas /\ disk.meta \in Metas
  BY Ends DEF Steady
<1>2. r \in Records /\ n \in Names /\ n \in Described(b.meta)
  BY DEF TypeInv, CallInv, Making
<1>3. /\ disk.config = b.config /\ disk.identity = b.identity /\ Own(r, r.key)
      /\ \A m \in Names \ {n} : disk.meta[m] = b.meta[m] /\ disk.keys[m] = b.keys[m]
  BY <1>1 DEF ClientsInv, MakingInv, Making
<1>4. /\ r.state = "active" /\ r.profile \in {None, b.config} /\ b.meta[n].state = "active"
      /\ r.key = b.meta[n].key /\ r.addr = b.meta[n].addr /\ r.expires = b.meta[n].expires
  <2>1. /\ b.meta[n].state = "active" /\ r.profile \in {None, b.config}
        /\ r = NewRecord(b.meta[n].key, b.meta[n].addr, b.meta[n].expires, r.profile)
    BY DEF BeforeInv
  <2> QED BY <2>1 DEF NewRecord
<1>5. /\ b.config # None /\ disk.identity /\ Loadable(b)
      /\ \A m \in Described(b.meta) : b.meta[m].managed => b.meta[m].profile \in {None, disk.config}
      /\ \A m \in Described(b.meta) \ {n} : b.meta[m].key # r.key /\ b.meta[m].addr # r.addr
  <2>1. b.config # None /\ Loadable(b) /\ disk.identity
    BY <1>1, <1>3 DEF Ready
  <2>2. \A m \in Described(b.meta) : b.meta[m].managed => b.meta[m].profile \in {None, disk.config}
    BY <1>1, <1>3 DEF Profiled
  <2>3. \A m \in Described(b.meta) \ {n} : b.meta[m].key # r.key /\ b.meta[m].addr # r.addr
    BY <1>2, <1>4, <2>1 DEF Loadable
  <2> QED BY <2>1, <2>2, <2>3
<1>6. Ready(disk) /\ Paired(disk) /\ Profiled(disk) /\ disk.meta = [b.meta EXCEPT ![n] = r]
  <2>1. disk.meta[n] = r /\ disk.keys[n] = r.key
    BY <1>3 DEF Own
  <2>2. Paired(b) /\ disk.config # None /\ r.profile \in {None, disk.config}
    BY <1>1, <1>3, <1>4, <1>5
  <2> HIDE DEF b, n, r
  <2> QED BY <1>1, <1>2, <1>3, <1>4, <1>5, <2>1, <2>2, OneMade
<1>7. Described(disk.meta) = Described(b.meta)
  <2>1. r \notin {None, Partial}
    BY <1>2, NoneAssumption DEF NoneAssumption
  <2> QED BY <1>2, <1>3, <2>1 DEF Described, Own
<1>8. \A m \in Described(b.meta) :
        /\ disk.meta[m].key = b.meta[m].key /\ disk.meta[m].addr = b.meta[m].addr
        /\ disk.meta[m].state = b.meta[m].state /\ disk.meta[m].expires = b.meta[m].expires
  BY <1>3, <1>4 DEF Own, Described
<1>9. /\ disk.runtime = disk.generated
      /\ Serving(disk.generated, b.config, b.meta, day, wreck)
      /\ link # None => Serving(link, b.config, b.meta, day, wreck)
  BY FoundServes DEF Steady, TextInv, SetupTexts, Pair, LinkInv, KeptLink, Old
<1>10. \A text : Serving(text, b.config, b.meta, day, wreck) =>
                   Serving(text, disk.config, disk.meta, day, wreck)
  BY <1>1, <1>3, <1>7, <1>8, PeersAlike
<1> QED BY <1>3, <1>5, <1>6, <1>9, <1>10 DEF Restful

LEMMA RevokeEnds ==
  ASSUME TypeInv, GoneInv, BeforeInv, ClientsInv, TextInv, LinkInv, doing # None, todo = <<>>,
         doing.op = "revoke", ~doing.back, wreck # "damaged"
  PROVE  Restful(wreck)
<1> DEFINE b == doing.before
           n == doing.name
<1>1. /\ doing \in Calls /\ Now = "end" /\ Late /\ disk \in Disks /\ b \in Disks
      /\ Ready(b) /\ Paired(b) /\ Profiled(b) /\ b.config \in Configs
      /\ b.meta \in Metas /\ disk.meta \in Metas
  BY Ends DEF Steady
<1>2. n \in Names
  BY DEF TypeInv, CallInv
<1>3. /\ disk.config = b.config /\ disk.identity = b.identity /\ Own(None, None)
      /\ \A m \in Names \ {n} : disk.meta[m] = b.meta[m] /\ disk.keys[m] = b.keys[m]
  BY <1>1 DEF ClientsInv
<1>4. Ready(disk) /\ Paired(disk) /\ Profiled(disk) /\ disk.meta = [b.meta EXCEPT ![n] = None]
  BY <1>1, <1>2, <1>3, OneRemoved DEF Own
<1>5. disk.meta = Target(doing) /\ disk.config = GoalConfig(doing)
  BY <1>3, <1>4 DEF Target, GoalConfig
<1>6. /\ disk.runtime = disk.generated /\ disk.generated = doing.text
      /\ Serving(disk.generated, disk.config, disk.meta, day, wreck)
  BY <1>1, <1>3, <1>5, RenderedEnds
<1>7. link # None => Serving(link, disk.config, disk.meta, day, wreck)
  <2>1. CASE Put
    BY <1>6, <2>1 DEF Put
  <2>2. CASE Old /\ link # None
    <3>1. Serving(link, b.config, b.meta, day, wreck)
      BY <2>2 DEF Old
    <3>2. \A p \in link.peers : p.key # b.meta[n].key
      BY <1>1, <2>2 DEF GoneInv, Without, Leaving
    <3>3. Described(disk.meta) = Described(b.meta) \ {n}
      BY <1>2, <1>3 DEF Described, Own
    <3>4. \A m \in Described(disk.meta) : disk.meta[m] = b.meta[m] /\ m # n
      BY <1>3, <3>3 DEF Described
    <3>5. Live(disk.meta, day) \subseteq Live(b.meta, day)
      BY <3>3, <3>4 DEF Live, Listed
    <3>6. \A p \in Live(b.meta, day) : p.key # b.meta[n].key => p \in Live(disk.meta, day)
      BY <3>3, <3>4 DEF Live, Listed
    <3>7. \A p \in Gone(b.meta, day, wreck) :
            p.key # b.meta[n].key => p \in Gone(disk.meta, day, wreck)
      BY <3>3, <3>4 DEF Gone, Listed
    <3> QED BY <1>3, <3>1, <3>2, <3>5, <3>6, <3>7 DEF Serving, Inside
  <2>3. Old \/ Put
    BY <1>1 DEF LinkInv, MovedLink
  <2> QED BY <2>1, <2>2, <2>3
<1> QED BY <1>1, <1>3, <1>4, <1>6, <1>7, NoneAssumption DEF Restful, NoneAssumption

LEMMA SettingEnds ==
  ASSUME TypeInv, BeforeInv, ClientsInv, TextInv, LinkInv, doing # None, todo = <<>>,
         doing.op \in {"endpoint", "port"}, ~doing.back, wreck # "damaged"
  PROVE  Restful(wreck)
<1> DEFINE b == doing.before
           goal == doing.goal
<1>1. /\ doing \in Calls /\ Now = "end" /\ Late /\ disk \in Disks /\ b \in Disks
      /\ Ready(b) /\ Paired(b) /\ Profiled(b) /\ b.config \in Configs
      /\ b.meta \in Metas /\ disk.meta \in Metas
  BY Ends DEF Steady
<1>2. goal \in Configs /\ goal # None /\ (doing.op = "endpoint" => goal.port = b.config.port)
  <2>1. goal \in Configs /\ goal = [b.config EXCEPT ![doing.op] = 1 - @]
    BY DEF TypeInv, CallInv, BeforeInv
  <2> QED BY <1>1, <2>1, NoneAssumption DEF Configs, NoneAssumption
<1>3. /\ disk.keys = b.keys /\ disk.identity = b.identity
      /\ disk.config = goal /\ disk.meta = Profiling(b.meta, goal)
  BY <1>1 DEF ClientsInv, Target
<1>4. /\ Described(disk.meta) = Described(b.meta)
      /\ \A m \in Names : m \notin Described(b.meta) => disk.meta[m] = b.meta[m]
      /\ \A m \in Described(b.meta) :
           /\ disk.meta[m].key = b.meta[m].key /\ disk.meta[m].addr = b.meta[m].addr
           /\ disk.meta[m].state = b.meta[m].state /\ disk.meta[m].expires = b.meta[m].expires
           /\ disk.meta[m].managed => disk.meta[m].profile = goal
  <2>1. \A m \in Names : m \notin Described(b.meta) => disk.meta[m] = b.meta[m]
    BY <1>3 DEF Profiling
  <2>2. ASSUME NEW m \in Described(b.meta)
        PROVE  /\ m \in Names /\ disk.meta[m] \notin {None, Partial}
               /\ disk.meta[m].key = b.meta[m].key /\ disk.meta[m].addr = b.meta[m].addr
               /\ disk.meta[m].state = b.meta[m].state /\ disk.meta[m].expires = b.meta[m].expires
               /\ disk.meta[m].managed => disk.meta[m].profile = goal
    <3>1. m \in Names /\ b.meta[m] \in Records
      BY <1>1, DescribedRecords
    <3>2. disk.meta[m] = IF b.meta[m].managed THEN [b.meta[m] EXCEPT !.profile = goal] ELSE b.meta[m]
      BY <1>3, <3>1 DEF Profiling
    <3>3. disk.meta[m] \in Records
      BY <1>2, <3>1, <3>2 DEF Records
    <3> QED BY <3>1, <3>2, <3>3, NoneAssumption DEF Records, NoneAssumption
  <2>3. Described(disk.meta) = Described(b.meta)
    BY <2>1, <2>2 DEF Described
  <2> QED BY <2>1, <2>2, <2>3
<1>5. /\ Ready(disk) /\ Profiled(disk)
  <2>1. \A m \in Names : disk.meta[m] # Partial
    BY <1>1, <1>4 DEF Ready, Loadable, Described
  <2>2. Loadable(disk)
    BY <1>1, <1>3, <1>4, <2>1 DEF Ready, Loadable
  <2> QED BY <1>1, <1>2, <1>3, <1>4, <2>2 DEF Ready, Profiled
<1>6. Paired(disk)
  <2>1. \A m \in Names : disk.meta[m] = None <=> b.meta[m] = None
    BY <1>4 DEF Described
  <2> QED BY <1>1, <1>3, <2>1 DEF Paired
<1>7. disk.meta = Target(doing) /\ disk.config = GoalConfig(doing)
  BY <1>3 DEF Target, GoalConfig
<1>8. /\ disk.runtime = disk.generated /\ disk.generated = doing.text
      /\ Serving(disk.generated, disk.config, disk.meta, day, wreck)
  BY <1>2, <1>3, <1>7, RenderedEnds
<1>9. link # None => Serving(link, disk.config, disk.meta, day, wreck)
  <2>1. CASE doing.op = "port"
    BY <1>1, <1>8, <2>1 DEF LinkInv, MovedLink, Put
  <2>2. CASE doing.op = "endpoint"
    <3>1. link # None => Serving(link, b.config, b.meta, day, wreck)
      BY <2>2 DEF LinkInv, KeptLink, Old
    <3> QED BY <1>1, <1>2, <1>3, <1>4, <2>2, <3>1, PeersAlike
  <2> QED BY <2>1, <2>2
<1> QED BY <1>2, <1>3, <1>5, <1>6, <1>8, <1>9 DEF Restful

(* Marking who has expired changes no key and no address, and no one who is      *)
(* served.                                                                       *)
LEMMA MarkingFields ==
  ASSUME NEW meta \in Metas, NEW now
  PROVE  LET other == Marking(meta, now)
         IN  /\ Described(other) = Described(meta)
             /\ \A m \in Names : other[m] = None <=> meta[m] = None
             /\ \A m \in Described(meta) :
                  /\ meta[m] \in Records
                  /\ Listed(other, m) = Listed(meta, m)
                  /\ other[m].key = meta[m].key /\ other[m].addr = meta[m].addr
                  /\ other[m].expires = meta[m].expires
                  /\ other[m].managed = meta[m].managed /\ other[m].profile = meta[m].profile
                  /\ other[m].state = IF meta[m].state = "active" /\ Expired(meta[m], now)
                                      THEN "expired" ELSE meta[m].state
<1> DEFINE other == Marking(meta, now)
<1>1. \A m \in Names : m \notin Described(meta) => other[m] = meta[m]
  BY DEF Marking
<1>2. ASSUME NEW m \in Described(meta)
      PROVE  /\ m \in Names /\ meta[m] \in Records /\ other[m] \notin {None, Partial}
             /\ Listed(other, m) = Listed(meta, m)
             /\ other[m].key = meta[m].key /\ other[m].addr = meta[m].addr
             /\ other[m].expires = meta[m].expires
             /\ other[m].managed = meta[m].managed /\ other[m].profile = meta[m].profile
             /\ other[m].state = IF meta[m].state = "active" /\ Expired(meta[m], now)
                                 THEN "expired" ELSE meta[m].state
  <2>1. m \in Names /\ meta[m] \in Records
    BY DescribedRecords
  <2>2. other[m] = IF meta[m].state = "active" /\ Expired(meta[m], now)
                   THEN [meta[m] EXCEPT !.state = "expired"] ELSE meta[m]
    BY <2>1 DEF Marking
  <2>3. other[m] \in Records
    BY <2>1, <2>2 DEF Records
  <2> HIDE DEF other
  <2>4. /\ other[m].key = meta[m].key /\ other[m].addr = meta[m].addr
        /\ other[m].expires = meta[m].expires
        /\ other[m].managed = meta[m].managed /\ other[m].profile = meta[m].profile
        /\ other[m].state = IF meta[m].state = "active" /\ Expired(meta[m], now)
                            THEN "expired" ELSE meta[m].state
    BY <2>1, <2>2 DEF Records
  <2> QED BY <2>1, <2>3, <2>4, NoneAssumption DEF Listed, NoneAssumption
<1> HIDE DEF other
<1>3. Described(other) = Described(meta)
  BY <1>1, <1>2 DEF Described
<1>4. \A m \in Names : other[m] = None <=> meta[m] = None
  BY <1>1, <1>2 DEF Described
<1> QED BY <1>2, <1>3, <1>4 DEF other

LEMMA MarkedPeers ==
  ASSUME NEW meta \in Metas, NEW now \in Days, NEW d \in Days, now <= d, NEW w, NEW v,
         \A m \in Described(meta) : meta[m].state \in {"active", "expired"}
  PROVE  LET other == Marking(meta, now)
         IN  /\ Live(other, d) = Live(meta, d)
             /\ \A p \in Gone(meta, d, w) :
                  (v # "none" \/ \A m \in Described(meta) : Expired(meta[m], now) => p.key # meta[m].key)
                    => p \in Gone(other, d, v)
<1> DEFINE other == Marking(meta, now)
<1>1. /\ Described(other) = Described(meta)
      /\ \A m \in Described(meta) :
           /\ meta[m] \in Records /\ Listed(other, m) = Listed(meta, m)
           /\ other[m].expires = meta[m].expires
           /\ other[m].state = IF meta[m].state = "active" /\ Expired(meta[m], now)
                               THEN "expired" ELSE meta[m].state
  BY MarkingFields
<1> HIDE DEF other
<1>2. ASSUME NEW m \in Described(meta)
      PROVE  /\ Expired(meta[m], now) => Expired(meta[m], d)
             /\ Eligible(other[m], d) <=> Eligible(meta[m], d)
             /\ Expired(meta[m], d) => Expired(other[m], d)
             /\ meta[m].state = "active" /\ ~Expired(meta[m], now) => other[m].state = "active"
  <2>1. now \in Nat /\ d \in Nat /\ (meta[m].expires # None => meta[m].expires \in Nat)
    BY <1>1, BoundAssumption DEF Days, Records
  <2>2. meta[m].state \in {"active", "expired"}
    OBVIOUS
  <2> QED BY <1>1, <2>1, <2>2 DEF Expired, Eligible
<1>3. Live(other, d) = Live(meta, d)
  BY <1>1, <1>2 DEF Live
<1>4. ASSUME NEW p \in Gone(meta, d, w),
             v # "none" \/ (\A m \in Described(meta) : Expired(meta[m], now) => p.key # meta[m].key)
      PROVE  p \in Gone(other, d, v)
  <2>1. PICK m \in Described(meta) : p = Listed(meta, m) /\ Expired(meta[m], d)
    BY DEF Gone
  <2>2. p = Listed(other, m) /\ m \in Described(other) /\ Expired(other[m], d)
    BY <1>1, <1>2, <2>1
  <2>3. CASE v # "none"
    BY <2>2, <2>3 DEF Gone
  <2>4. CASE \A x \in Described(meta) : Expired(meta[x], now) => p.key # meta[x].key
    <3>1. p.key = meta[m].key
      BY <2>1 DEF Listed
    <3>2. ~Expired(meta[m], now)
      BY <2>4, <3>1
    <3>3. meta[m].state = "active"
      BY <3>2 DEF Expired
    <3>4. other[m].state = "active"
      BY <1>2, <3>2, <3>3
    <3> QED BY <2>2, <3>4 DEF Gone
  <2> QED BY <1>4, <2>3, <2>4
<1> QED BY <1>3, <1>4 DEF other

(* expire: with the clients marked, or taken back. *)
LEMMA ExpiryEnds ==
  ASSUME TypeInv, GoneInv, BeforeInv, ClientsInv, TextInv, LinkInv, doing # None, todo = <<>>,
         doing.op = "expire", wreck # "damaged",
         NEW w, w = wreck \/ (~doing.back /\ wreck = "retry" /\ w = "none")
  PROVE  Restful(w)
<1> DEFINE b == doing.before
<1>1. /\ doing \in Calls /\ Now = "end" /\ Late /\ disk \in Disks /\ b \in Disks
      /\ Ready(b) /\ Paired(b) /\ Profiled(b) /\ b.config \in Configs
      /\ b.meta \in Metas /\ disk.meta \in Metas /\ day \in Days /\ doing.now \in Days
      /\ doing.now <= day /\ doing.back \in BOOLEAN /\ doing.committed \in BOOLEAN
  BY Ends DEF Steady
<1>2. /\ disk.keys = b.keys /\ disk.identity = b.identity /\ disk.config = b.config
      /\ disk.config # None
  BY <1>1, NoneAssumption DEF ClientsInv, NoneAssumption
<1>3. Old
  BY DEF LinkInv, KeptLink
<1>4. CASE doing.back /\ ~doing.committed
  <2>1. disk.meta = b.meta
    BY <1>1, <1>4 DEF ClientsInv
  <2>2. Pair(b.generated, b.generated)
    BY <1>1, <1>4 DEF TextInv, ExpiryTexts, Standing
  <2>3. Ready(disk) /\ Paired(disk) /\ Profiled(disk)
    BY <1>1, <1>2, <2>1, FoundAgain
  <2>4. Serving(b.generated, b.config, b.meta, day, wreck)
    BY FoundServes DEF Steady
  <2> QED BY <1>2, <1>3, <1>4, <2>1, <2>2, <2>3, <2>4 DEF Restful, Old, Pair
<1>5. CASE ~doing.back \/ doing.committed
  <2>1. disk.meta = Marking(b.meta, doing.now)
    BY <1>1, <1>5 DEF ClientsInv, Target
  <2>2. Pair(Newest, Newest)
    BY <1>1, <1>5 DEF TextInv, ExpiryTexts, Standing
  <2>3. /\ Described(disk.meta) = Described(b.meta)
        /\ \A m \in Names : disk.meta[m] = None <=> b.meta[m] = None
        /\ \A m \in Described(b.meta) :
             /\ disk.meta[m].key = b.meta[m].key /\ disk.meta[m].addr = b.meta[m].addr
             /\ disk.meta[m].managed = b.meta[m].managed /\ disk.meta[m].profile = b.meta[m].profile
             /\ disk.meta[m].state \in {"expired", b.meta[m].state}
    BY <1>1, <2>1, MarkingFields
  <2>4. \A m \in Names : disk.meta[m] # Partial
    BY <1>1, <2>3 DEF Ready, Loadable, Described
  <2>5. Loadable(disk)
    BY <1>1, <1>2, <2>3, <2>4 DEF Ready, Loadable
  <2>6. Ready(disk) /\ Paired(disk) /\ Profiled(disk)
    BY <1>1, <1>2, <2>3, <2>5 DEF Ready, Paired, Profiled
  <2>7. Serving(Newest, b.config, disk.meta, day, w)
    <3>1. Newest = Render(b.config, disk.meta, doing.now)
      BY <1>1, <2>1, RenderMarking DEF Newest
    <3> QED BY <1>1, <3>1, RenderServes
  <2>8. link # None => Serving(link, disk.config, disk.meta, day, w)
    <3> SUFFICES ASSUME link # None PROVE Serving(link, disk.config, disk.meta, day, w)
      OBVIOUS
    <3>1. Serving(link, b.config, b.meta, day, wreck)
      BY <1>3 DEF Old
    <3>2. w # "none" \/ \A p \in link.peers :
                         \A m \in Described(b.meta) : Expired(b.meta[m], doing.now) => p.key # b.meta[m].key
      <4>1. CASE doing.back
        BY <1>1, <1>5, <4>1 DEF LinkInv, KeptLink
      <4>2. CASE ~doing.back
        <5>1. Without(link)
          BY <1>1, <4>2 DEF GoneInv
        <5> QED BY <5>1 DEF Without, Leaving
      <4> QED BY <1>1, <4>1, <4>2
    <3>3. \A m \in Described(b.meta) : b.meta[m].state \in {"active", "expired"}
      BY <1>1 DEF Ready, Loadable
    <3>4. /\ Live(disk.meta, day) = Live(b.meta, day)
          /\ \A p \in Gone(b.meta, day, wreck) :
               (w # "none" \/ \A m \in Described(b.meta) :
                                Expired(b.meta[m], doing.now) => p.key # b.meta[m].key)
                 => p \in Gone(disk.meta, day, w)
      BY <1>1, <2>1, <3>3, MarkedPeers
    <3>5. link.peers \subseteq Live(disk.meta, day) \cup Gone(disk.meta, day, w)
      BY <3>1, <3>2, <3>4 DEF Serving, Inside
    <3> QED BY <1>2, <3>1, <3>4, <3>5 DEF Serving, Inside
  <2> QED BY <1>2, <2>2, <2>6, <2>7, <2>8 DEF Restful, Pair
<1> QED BY <1>1, <1>4, <1>5

LEMMA RestoreEnds ==
  ASSUME TypeInv, BeforeInv, SwapInv, doing # None, todo = <<>>, doing.op = "restore"
  PROVE  /\ ~doing.back => Restful("none")
         /\ doing.back => disk = doing.before /\ (wreck # "damaged" => link \in {None, disk.runtime})
<1>1. /\ doing \in Calls /\ doing.back \in BOOLEAN /\ disk \in Disks /\ doing.before \in Disks
      /\ Now = "end" /\ doing.placed \in 0..4 /\ doing.displaced \in 0..4 /\ Len(todo) = 0
  BY DEF TypeInv, TypeOK, Calls, Now, HeadOr
<1>2. CASE ~doing.back
  <2>1. doing.placed = 4
    BY <1>1, <1>2 DEF TypeInv, RestoreInv, RestoringForth
  <2>2. Held(1) = backup /\ Held(2) = backup /\ Held(3) = backup /\ Held(4) = backup
    BY <2>1 DEF Held
  <2>3. /\ disk.config = backup.config /\ disk.identity = backup.identity
        /\ disk.meta = backup.meta /\ disk.keys = backup.keys /\ disk.generated = backup.generated
    BY <2>2 DEF SwapInv, Swapped
  <2>4. disk.runtime = disk.generated /\ link \in {None, disk.runtime}
    BY <1>1, <1>2 DEF SwapInv
  <2>5. /\ Ready(backup) /\ Paired(backup) /\ Profiled(backup)
        /\ Serving(backup.generated, backup.config, backup.meta, day, "none")
    BY DEF BeforeInv
  <2>6. Ready(disk) /\ Paired(disk) /\ Profiled(disk)
    BY <2>3, <2>5, FoundAgain
  <2>7. disk.config # None
    BY <2>6 DEF Ready
  <2> QED BY <1>2, <2>3, <2>4, <2>5, <2>6, <2>7 DEF Restful
<1>3. CASE doing.back
  <2>1. doing.placed = 0 /\ doing.displaced = 0
    BY <1>1, <1>3 DEF TypeInv, RestoreInv, RestoringBack
  <2>2. Held(1) = doing.before /\ Held(2) = doing.before /\ Held(3) = doing.before /\ Held(4) = doing.before
    BY <2>1 DEF Held
  <2>3. disk.runtime = doing.before.runtime /\ (wreck # "damaged" => link \in {None, disk.runtime})
    BY <1>1, <1>3 DEF SwapInv
  <2>4. disk = doing.before
    BY <1>1, <2>2, <2>3 DEF SwapInv, Swapped, Disks
  <2> QED BY <1>3, <2>3, <2>4
<1> QED BY <1>1, <1>2, <1>3

(* The inductive invariant, together with Inv of ClientProofs. *)
FilesInv ==
  RestInv /\ BeforeInv /\ ClientsInv /\ TextInv /\ LinkInv /\ SwapInv /\ ExpireFlow

LEMMA NoCommandFiles ==
  ASSUME doing' = None, RestInv'
  PROVE  FilesInv'
  BY DEF FilesInv, BeforeInv, ClientsInv, TextInv, LinkInv, SwapInv, ExpireFlow

(* The files and the interface as a command found them. *)
LEMMA SaneRests ==
  ASSUME doing' = None, day' = day, Sane(disk', wreck', day), link' \in {None, disk'.runtime}
  PROVE  RestInv'
<1>1. CASE disk'.config = None
  BY <1>1 DEF RestInv
<1>2. CASE disk'.config # None
  <2>1. Good(disk', wreck', day)
    BY <1>2 DEF Sane
  <2>2. Fits(link', disk', wreck', day)
    BY <2>1 DEF Good, Fits
  <2> QED BY <1>2, <2>2 DEF RestInv
<1> QED BY <1>1, <1>2

LEMMA FinishFiles ==
  ASSUME Inv, FilesInv, Finish
  PROVE  FilesInv'
<1>1. /\ doing # None /\ todo = <<>> /\ doing' = None
      /\ wreck' = IF ~doing.back /\ (doing.op = "restore" \/ (doing.op = "expire" /\ wreck = "retry"))
                  THEN "none" ELSE wreck
      /\ disk' = disk /\ link' = link /\ day' = day
  BY DEF Finish, Ended
<1>2. /\ TypeInv /\ GoneInv /\ BeforeInv /\ ClientsInv /\ TextInv /\ LinkInv /\ SwapInv /\ ExpireFlow
      /\ doing.op \in Ops /\ doing.back \in BOOLEAN
  BY <1>1 DEF Inv, FilesInv, TypeInv, TypeOK, Calls
<1> SUFFICES ASSUME wreck' # "damaged" PROVE RestInv'
  BY <1>1, NoCommandFiles DEF RestInv
<1>3. CASE doing.op \in {"initialize", "migrate"}
  <2>1. wreck' = wreck
    BY <1>1, <1>3
  <2>2. /\ ~doing.back => Restful(wreck)
        /\ doing.back => disk.config = None /\ Bare(disk) /\ link \in {None, disk.runtime}
    BY <1>1, <1>2, <1>3, <2>1, SetupEnds
  <2>3. CASE doing.back
    BY <1>1, <2>2, <2>3 DEF RestInv, Sane
  <2>4. CASE ~doing.back
    BY <1>1, <2>1, <2>2, <2>4, AtRest
  <2> QED BY <2>3, <2>4
<1>4. CASE doing.op \in {"add", "import", "rotate", "revoke", "endpoint", "port"}
  <2>1. wreck' = wreck
    BY <1>1, <1>4
  <2>2. Restful(wreck)
    <3>1. CASE doing.back
      BY <1>1, <1>2, <1>4, <2>1, <3>1, BackEnds
    <3>2. CASE ~doing.back /\ doing.op \in {"add", "rotate"}
      BY <1>1, <1>2, <2>1, <3>2, MakingEnds
    <3>3. CASE ~doing.back /\ doing.op = "import"
      BY <1>1, <1>2, <2>1, <3>3, ImportEnds
    <3>4. CASE ~doing.back /\ doing.op = "revoke"
      BY <1>1, <1>2, <2>1, <3>4, RevokeEnds
    <3>5. CASE ~doing.back /\ doing.op \in {"endpoint", "port"}
      BY <1>1, <1>2, <2>1, <3>5, SettingEnds
    <3> QED BY <1>4, <3>1, <3>2, <3>3, <3>4, <3>5
  <2> QED BY <1>1, <2>1, <2>2, AtRest
<1>5. CASE doing.op = "expire"
  <2>1. wreck # "damaged" /\ (wreck' = wreck \/ (~doing.back /\ wreck = "retry" /\ wreck' = "none"))
    BY <1>1, <1>5
  <2>2. CASE wreck' = wreck
    <3>1. Restful(wreck)
      BY <1>1, <1>2, <1>5, <2>1, ExpiryEnds
    <3> QED BY <1>1, <2>2, <3>1, AtRest
  <2>3. CASE ~doing.back /\ wreck = "retry" /\ wreck' = "none"
    <3>1. Restful("none")
      BY <1>1, <1>2, <1>5, <2>3, ExpiryEnds
    <3> QED BY <1>1, <2>3, <3>1, AtRest
  <2> QED BY <2>1, <2>2, <2>3
<1>6. CASE doing.op = "restore"
  <2>1. /\ ~doing.back => Restful("none")
        /\ doing.back => disk = doing.before /\ (wreck # "damaged" => link \in {None, disk.runtime})
    BY <1>1, <1>2, <1>6, RestoreEnds
  <2>2. CASE ~doing.back
    <3>1. wreck' = "none"
      BY <1>1, <1>6, <2>2
    <3> QED BY <1>1, <2>1, <2>2, <3>1, AtRest
  <2>3. CASE doing.back
    <3>1. wreck' = wreck
      BY <1>1, <2>3
    <3>2. Sane(disk, wreck, day)
      BY <1>1, <1>2, <2>1, <2>3, <3>1 DEF BeforeInv
    <3> QED BY <1>1, <2>1, <2>3, <3>1, <3>2, SaneRests
  <2> QED BY <2>2, <2>3
<1> QED BY <1>2, <1>3, <1>4, <1>5, <1>6 DEF Ops

-----------------------------------------------------------------------------
(* Crashes, the operator's other doings and the calendar *)

LEMMA ExpiryNow ==
  ASSUME TypeInv, doing # None, doing.op = "expire"
  PROVE  /\ ~doing.back => Now \in {"mark", "render", "generated", "runtime", "act", "check", "recheck", "end"}
         /\ doing.back => Now \in {"oldruntime", "oldgenerated", "again", "halt", "oldmetadata", "end"}
<1>1. CASE todo = <<>>
  BY <1>1 DEF Now, HeadOr
<1>2. CASE todo # <<>>
  <2>1. <<Now, HeadOr(Tail(todo), "end")>> \in Edges("expire", doing.back)
    BY <1>2, NowEdge
  <2>2. CASE ~doing.back
    BY <2>1, <2>2 DEF Edges, Forward, Committing
  <2>3. CASE doing.back
    BY <2>1, <2>3 DEF Edges, Backward, Retracting
  <2> QED BY <2>2, <2>3
<1> QED BY <1>1, <1>2

(* Killed in the middle of its marks and its commit, an expiry leaves one of    *)
(* two configurations behind: both serve everyone who is still to be served.    *)
LEMMA CrashRests ==
  ASSUME TypeInv, BeforeInv, ClientsInv, TextInv, LinkInv, doing # None, doing.op = "expire",
         wreck # "damaged", ~Torn,
         doing' = None, disk' = disk, day' = day, wreck' = "retry", link' \in {link, None, disk.runtime}
  PROVE  RestInv'
<1> DEFINE b == doing.before
           marked == Marking(b.meta, doing.now)
<1>1. /\ doing \in Calls /\ disk \in Disks /\ b \in Disks /\ b.meta \in Metas /\ disk.meta \in Metas
      /\ day \in Days /\ doing.now \in Days /\ doing.now <= day /\ doing.back \in BOOLEAN
  BY DEF TypeInv, TypeOK, CallInv, Calls, Disks, Metas
<1>2. /\ Ready(b) /\ Paired(b) /\ Profiled(b) /\ b.config # None
  <2>1. Ready(b) /\ Sane(b, wreck, day)
    BY DEF BeforeInv, Steady
  <2>2. b.config # None
    BY <2>1 DEF Ready
  <2> QED BY <2>1, <2>2 DEF Sane, Good
<1>3. /\ disk.keys = b.keys /\ disk.identity = b.identity /\ disk.config = b.config
      /\ \A m \in Names : disk.meta[m] \in {b.meta[m], marked[m]}
  BY DEF ClientsInv, Target
<1>4. /\ Described(marked) = Described(b.meta)
      /\ \A m \in Names : marked[m] = None <=> b.meta[m] = None
      /\ \A m \in Described(b.meta) :
           /\ b.meta[m] \in Records
           /\ marked[m].key = b.meta[m].key /\ marked[m].addr = b.meta[m].addr
           /\ marked[m].expires = b.meta[m].expires
           /\ marked[m].managed = b.meta[m].managed /\ marked[m].profile = b.meta[m].profile
           /\ marked[m].state = IF b.meta[m].state = "active" /\ Expired(b.meta[m], doing.now)
                                THEN "expired" ELSE b.meta[m].state
  BY <1>1, MarkingFields
<1> HIDE DEF marked
<1>5. /\ Described(disk.meta) = Described(b.meta)
      /\ \A m \in Names : disk.meta[m] = None <=> b.meta[m] = None
  BY <1>3, <1>4 DEF Described
<1>6. \A m \in Described(b.meta) :
           /\ m \in Names
           /\ disk.meta[m].key = b.meta[m].key /\ disk.meta[m].addr = b.meta[m].addr
           /\ disk.meta[m].expires = b.meta[m].expires
           /\ disk.meta[m].managed = b.meta[m].managed /\ disk.meta[m].profile = b.meta[m].profile
           /\ \/ disk.meta[m].state = b.meta[m].state
              \/ disk.meta[m].state = "expired" /\ Expired(b.meta[m], doing.now)
  BY <1>3, <1>4 DEF Described
<1>7. Ready(disk) /\ Paired(disk) /\ Profiled(disk)
  <2>1. \A m \in Names : disk.meta[m] # Partial
    BY <1>2, <1>5 DEF Ready, Loadable, Described
  <2>2. Loadable(disk)
    BY <1>2, <1>3, <1>5, <1>6, <2>1 DEF Ready, Loadable
  <2> QED BY <1>2, <1>3, <1>5, <1>6, <2>2 DEF Ready, Paired, Profiled
<1>8. \A m \in Described(b.meta) :
        /\ Eligible(disk.meta[m], day) <=> Eligible(b.meta[m], day)
        /\ Expired(b.meta[m], day) => Expired(disk.meta[m], day)
        /\ Listed(disk.meta, m) = Listed(b.meta, m)
  <2> SUFFICES ASSUME NEW m \in Described(b.meta)
               PROVE  /\ Eligible(disk.meta[m], day) <=> Eligible(b.meta[m], day)
                      /\ Expired(b.meta[m], day) => Expired(disk.meta[m], day)
                      /\ Listed(disk.meta, m) = Listed(b.meta, m)
    OBVIOUS
  <2>1. /\ doing.now \in Nat /\ day \in Nat
        /\ b.meta[m].expires # None => b.meta[m].expires \in Nat
    BY <1>1, <1>4, BoundAssumption DEF Days, Records
  <2>2. Expired(b.meta[m], doing.now) => Expired(b.meta[m], day)
    BY <1>1, <2>1 DEF Expired
  <2>3. CASE disk.meta[m].state = b.meta[m].state
    BY <1>6, <2>3 DEF Expired, Eligible, Listed
  <2>4. CASE disk.meta[m].state = "expired" /\ Expired(b.meta[m], doing.now)
    BY <1>6, <2>2, <2>4 DEF Expired, Eligible, Listed
  <2> QED BY <1>6, <2>3, <2>4
<1>9. Live(disk.meta, day) = Live(b.meta, day)
  BY <1>5, <1>8 DEF Live
<1>10. Gone(b.meta, day, wreck) \subseteq Gone(disk.meta, day, "retry")
  BY <1>5, <1>8 DEF Gone
<1>11. ASSUME NEW text, Serving(text, b.config, b.meta, day, wreck)
       PROVE  Serving(text, disk.config, disk.meta, day, "retry")
  BY <1>3, <1>9, <1>10, <1>11 DEF Serving, Inside
<1>12. disk.generated \in {Standing, Newest}
  BY <1>1, ExpiryNow DEF TextInv, ExpiryTexts, Pair, Torn
<1>13. Serving(disk.generated, disk.config, disk.meta, day, "retry")
  BY <1>11, <1>12, NewestServes
<1>14. link # None => Serving(link, disk.config, disk.meta, day, "retry")
  BY <1>11 DEF LinkInv, KeptLink, Old
<1>15. disk.runtime = disk.generated
  BY DEF Torn
<1>16. Good(disk, "retry", day) /\ Fits(link', disk, "retry", day)
  BY <1>7, <1>13, <1>14, <1>15 DEF Good, Fits, Serving
<1> QED BY <1>2, <1>3, <1>16 DEF RestInv, Sane

LEMMA CrashFiles ==
  ASSUME Inv, FilesInv, Crash
  PROVE  FilesInv'
<1>1. /\ doing # None /\ doing' = None /\ disk' = disk /\ day' = day
      /\ link' \in {link, None, disk.runtime}
  BY DEF Crash, Ended, Boot
<1>2. TypeInv /\ BeforeInv /\ ClientsInv /\ TextInv /\ LinkInv
  BY DEF Inv, FilesInv
<1> SUFFICES ASSUME wreck' # "damaged" PROVE RestInv'
  BY <1>1, NoCommandFiles DEF RestInv
<1>3. CASE Harmless
  <2>1. wreck' = wreck /\ disk = doing.before /\ link' \in {None, disk.runtime}
    BY <1>3 DEF Crash, Harmless
  <2>2. Sane(disk, wreck, day)
    BY <1>1, <1>2, <2>1 DEF BeforeInv
  <2> QED BY <1>1, <2>1, <2>2, SaneRests
<1>4. CASE ~Harmless
  <2>1. wreck # "damaged" /\ doing.op = "expire" /\ ~Torn /\ wreck' = "retry"
    BY <1>4 DEF Crash, Note
  <2> QED BY <1>1, <1>2, <2>1, CrashRests
<1> QED BY <1>3, <1>4

LEMMA GoingFiles ==
  ASSUME Inv, FilesInv, Going
  PROVE  FilesInv'
<1>1. /\ TypeInv /\ BeforeInv /\ ClientsInv /\ TextInv /\ LinkInv /\ SwapInv /\ ExpireFlow
  BY DEF Inv, FilesInv
<1>2. RestInv'
  BY <1>1, GoingFrame DEF Frame, RestInv
<1>3. TextInv' /\ LinkInv' /\ ExpireFlow'
  <2>1. CASE doing.op = "restore"
    BY <1>1, <2>1, RestoringApart
  <2>2. CASE doing.op # "restore"
    BY <1>1, <2>2, GoingTexts, GoingLinks, GoingExpiry
  <2> QED BY <2>1, <2>2
<1> QED BY <1>1, <1>2, <1>3, GoingBefore, GoingClients, GoingSwap DEF FilesInv

(* A client whose date is edited is still listed for the peer it has; only one  *)
(* that becomes eligible again is not served yet.                               *)
LEMMA EditedLists ==
  ASSUME NEW meta \in Metas, NEW n \in Described(meta), NEW r \in Records, NEW d, NEW w, NEW v,
         r.key = meta[n].key, r.addr = meta[n].addr, r.state = meta[n].state,
         w # "none" => v # "none",
         Eligible(r, d) /\ ~Eligible(meta[n], d) => v = "renewed",
         NEW new \in Metas, new = [meta EXCEPT ![n] = r]
  PROVE  /\ Described(new) = Described(meta)
         /\ Live(meta, d) \cup Gone(meta, d, w) \subseteq Live(new, d) \cup Gone(new, d, v)
         /\ v # "renewed" => Live(new, d) \subseteq Live(meta, d)
<1>1. n \in Names /\ meta[n] \in Records
  BY DescribedRecords
<1>2. new[n] = r /\ \A m \in Names \ {n} : new[m] = meta[m]
  BY <1>1 DEF Metas
<1>3. /\ new[n].key = meta[n].key /\ new[n].addr = meta[n].addr /\ new[n].state = meta[n].state
      /\ new[n] \notin {None, Partial}
  BY <1>2, NoneAssumption DEF NoneAssumption
<1>4. Described(new) = Described(meta)
  BY <1>1, <1>2, <1>3 DEF Described
<1>5. \A m \in Described(meta) :
        /\ Listed(new, m) = Listed(meta, m)
        /\ Eligible(meta[m], d) \/ (Expired(meta[m], d) /\ (w = "none" => meta[m].state = "active"))
             => Eligible(new[m], d) \/ (Expired(new[m], d) /\ (v = "none" => new[m].state = "active"))
        /\ v # "renewed" /\ Eligible(new[m], d) => Eligible(meta[m], d)
  <2> SUFFICES ASSUME NEW m \in Described(meta)
               PROVE  /\ Listed(new, m) = Listed(meta, m)
                      /\ Eligible(meta[m], d) \/ (Expired(meta[m], d) /\ (w = "none" => meta[m].state = "active"))
                           => Eligible(new[m], d) \/ (Expired(new[m], d) /\ (v = "none" => new[m].state = "active"))
                      /\ v # "renewed" /\ Eligible(new[m], d) => Eligible(meta[m], d)
    OBVIOUS
  <2>1. CASE m = n
    <3>1. v # "renewed" /\ Eligible(new[n], d) => Eligible(meta[n], d)
      BY <1>2
    <3>2. Eligible(meta[n], d) \/ (Expired(meta[n], d) /\ (w = "none" => meta[n].state = "active"))
            => Eligible(new[n], d) \/ (Expired(new[n], d) /\ (v = "none" => new[n].state = "active"))
      BY <1>3 DEF Eligible, Expired
    <3> QED BY <1>3, <2>1, <3>1, <3>2 DEF Listed
  <2>2. CASE m # n
    <3>1. new[m] = meta[m]
      BY <1>2, <2>2 DEF Described
    <3> QED BY <3>1 DEF Listed
  <2> QED BY <2>1, <2>2
<1>6. Live(meta, d) \cup Gone(meta, d, w) \subseteq Live(new, d) \cup Gone(new, d, v)
  BY <1>4, <1>5 DEF Live, Gone
<1>7. v # "renewed" => Live(new, d) \subseteq Live(meta, d)
  BY <1>4, <1>5 DEF Live
<1> QED BY <1>4, <1>6, <1>7

LEMMA EditFiles ==
  ASSUME Inv, FilesInv, NEW n \in Names, NEW date \in Dates(n), Edit(n, date)
  PROVE  FilesInv'
<1> DEFINE r == [disk.meta[n] EXCEPT !.expires = date]
<1>1. /\ doing = None /\ doing' = None /\ NoDrift /\ n \in Described(disk.meta)
      /\ disk' = [disk EXCEPT !.meta[n].expires = date] /\ link' = link /\ day' = day
  BY DEF Edit, running
<1>2. TypeInv /\ RestInv
  BY DEF Inv, FilesInv
<1>3. /\ Ready(disk) /\ disk.runtime = disk.generated /\ disk.generated # None
      /\ disk.generated = Render(disk.config, disk.meta, day)
      /\ disk.config \in Configs /\ disk.meta \in Metas
  BY <1>1, <1>2, DriftServes
<1> SUFFICES ASSUME wreck' # "damaged" PROVE RestInv'
  BY <1>1, NoCommandFiles DEF RestInv
<1>4. /\ wreck # "damaged" /\ wreck' \in {wreck, "renewed"}
      /\ Eligible(r, day) /\ ~Eligible(disk.meta[n], day) => wreck' = "renewed"
  <2>1. disk'.meta[n] = r
    BY <1>1, <1>2 DEF TypeInv, TypeOK, Disks
  <2>2. IF Eligible([disk EXCEPT !.meta[n].expires = date].meta[n], day) /\ ~Eligible(disk.meta[n], day)
        THEN Note("renewed") ELSE wreck' = wreck
    BY DEF Edit
  <2> QED BY <1>1, <2>1, <2>2 DEF Note
<1>5. /\ disk'.meta = [disk.meta EXCEPT ![n] = r] /\ disk'.meta \in Metas
      /\ disk'.config = disk.config /\ disk'.identity = disk.identity /\ disk'.keys = disk.keys
      /\ disk'.generated = disk.generated /\ disk'.runtime = disk.runtime
      /\ r.managed = disk.meta[n].managed /\ r.profile = disk.meta[n].profile
      /\ r.key = disk.meta[n].key /\ r.addr = disk.meta[n].addr /\ r.state = disk.meta[n].state
      /\ r \in Records /\ r \notin {None, Partial}
  <2>1. disk.meta[n] \in Records
    BY <1>1, <1>3, DescribedRecords
  <2>2. date \in {None} \cup 1..MaxDay
    BY DEF Dates
  <2>3. r \in Records
    BY <2>1, <2>2 DEF Records
  <2> QED BY <1>1, <1>2, <1>3, <2>1, <2>3, NoneAssumption
      DEF Metas, Disks, TypeInv, TypeOK, Records, NoneAssumption
<1> HIDE DEF r
<1>6. /\ Described(disk'.meta) = Described(disk.meta)
      /\ Live(disk.meta, day) \cup Gone(disk.meta, day, wreck)
           \subseteq Live(disk'.meta, day) \cup Gone(disk'.meta, day, wreck')
      /\ wreck' # "renewed" => Live(disk'.meta, day) \subseteq Live(disk.meta, day)
  <2> DEFINE new == disk'.meta
             v == wreck'
  <2>1. /\ new \in Metas /\ disk.meta \in Metas /\ n \in Described(disk.meta)
        /\ new = [disk.meta EXCEPT ![n] = r] /\ (wreck # "none" => v # "none")
        /\ Eligible(r, day) /\ ~Eligible(disk.meta[n], day) => v = "renewed"
    BY <1>1, <1>3, <1>4, <1>5
  <2> HIDE DEF new, v
  <2>2. /\ Described(new) = Described(disk.meta)
        /\ Live(disk.meta, day) \cup Gone(disk.meta, day, wreck)
             \subseteq Live(new, day) \cup Gone(new, day, v)
        /\ v # "renewed" => Live(new, day) \subseteq Live(disk.meta, day)
    BY <1>5, <2>1, EditedLists
  <2> QED BY <2>2 DEF new, v
<1>7. disk.config # None
  BY <1>3 DEF Ready
<1>8. /\ Good(disk, wreck, day) /\ Fits(link, disk, wreck, day)
      /\ disk.generated.peers = Live(disk.meta, day)
  BY <1>1, <1>2, <1>3, <1>4, <1>7, RestFacts, RenderLists
<1>9. /\ \A m \in Names \ {n} : disk'.meta[m] = disk.meta[m]
      /\ disk'.meta[n] = r
  BY <1>1, <1>3, <1>5 DEF Metas
<1>10. \A m \in Described(disk.meta) :
         /\ m \in Names /\ disk'.meta[m].key = disk.meta[m].key /\ disk'.meta[m].addr = disk.meta[m].addr
         /\ disk'.meta[m].state = disk.meta[m].state /\ disk'.meta[m].managed = disk.meta[m].managed
         /\ disk'.meta[m].profile = disk.meta[m].profile
  BY <1>5, <1>9 DEF Described
<1>11. Ready(disk') /\ Paired(disk') /\ Profiled(disk')
  <2>1. \A m \in Names : disk'.meta[m] # Partial
    BY <1>3, <1>5, <1>9 DEF Ready, Loadable
  <2>2. Loadable(disk')
    BY <1>3, <1>5, <1>6, <1>10, <2>1 DEF Ready, Loadable
  <2>3. Paired(disk')
    BY <1>1, <1>5, <1>8, <1>9 DEF Good, Paired, Described
  <2> QED BY <1>3, <1>5, <1>6, <1>8, <1>10, <2>2, <2>3 DEF Ready, Profiled, Good
<1>12. Good(disk', wreck', day) /\ Fits(link, disk', wreck', day)
  BY <1>3, <1>5, <1>6, <1>8, <1>11 DEF Good, Fits, Inside
<1> QED BY <1>1, <1>5, <1>7, <1>12 DEF RestInv, Sane

LEMMA BeforeLater ==
  ASSUME Inv, BeforeInv, Midnight
  PROVE  BeforeInv'
<1> SUFFICES ASSUME doing # None PROVE BeforeInv'
  BY DEF Midnight, running, BeforeInv
<1> DEFINE b == doing.before
<1>1. /\ UNCHANGED <<disk, link, backup, doing, todo, wreck>> /\ day' = day + 1
  BY DEF Midnight, running
<1>2. /\ doing \in Calls /\ b \in Disks /\ b.meta \in Metas /\ day \in Days /\ day' \in Days /\ day <= day'
  BY <1>1, BoundAssumption DEF Inv, TypeInv, TypeOK, Calls, Disks, Metas, Days, Midnight
<1>3. wreck # "damaged" => Sane(b, wreck, day')
  BY <1>2, SaneLater DEF BeforeInv, Wider
<1>4. Live(b.meta, day') \subseteq Live(b.meta, day)
  BY <1>2, LaterClients DEF Wider
<1>5. doing.op = "restore" => Serving(backup.generated, backup.config, backup.meta, day', "none")
  <2> SUFFICES ASSUME doing.op = "restore"
               PROVE  Serving(backup.generated, backup.config, backup.meta, day', "none")
    OBVIOUS
  <2>1. backup.meta \in Metas
    BY DEF Inv, TypeInv, CallInv, Disks, Metas
  <2> QED BY <1>2, <2>1, InsideLater DEF BeforeInv, Wider
<1> HIDE DEF b
<1> QED BY <1>1, <1>3, <1>4, <1>5 DEF BeforeInv, b

LEMMA LinkLater ==
  ASSUME Inv, LinkInv, Midnight
  PROVE  LinkInv'
<1>1. /\ UNCHANGED <<disk, link, backup, doing, todo, wreck>> /\ day' = day + 1
  BY DEF Midnight, running
<1> SUFFICES ASSUME doing # None, wreck # "damaged" PROVE KeptLink' /\ MovedLink' /\ SetupLink'
  BY <1>1 DEF LinkInv
<1>2. Now' = Now /\ Late' = Late
  BY <1>1 DEF Now, Late
<1>3. Old => Old'
  <2>1. /\ doing.before.meta \in Metas /\ day \in Days /\ day' \in Days /\ day <= day'
    BY <1>1, BoundAssumption DEF Inv, TypeInv, TypeOK, Calls, Disks, Metas, Days, Midnight
  <2>2. /\ doing' = doing /\ link' = link /\ wreck' = wreck
    BY <1>1
  <2> QED BY <2>1, <2>2, InsideLater DEF Old, Wider
<1>4. Put' = Put
  BY <1>1 DEF Put
<1>5. KeptLink'
  BY <1>1, <1>2, <1>3 DEF LinkInv, KeptLink
<1>6. MovedLink'
  BY <1>1, <1>2, <1>3, <1>4 DEF LinkInv, MovedLink
<1>7. SetupLink'
  BY <1>1, <1>2 DEF LinkInv, SetupLink
<1> QED BY <1>5, <1>6, <1>7

LEMMA TextLater ==
  ASSUME Inv, TextInv, Midnight
  PROVE  TextInv'
<1>1. /\ UNCHANGED <<disk, link, backup, doing, todo, wreck>> /\ day' = day + 1
  BY DEF Midnight, running
<1> SUFFICES ASSUME doing # None, wreck # "damaged"
             PROVE  ForthTexts' /\ BackTexts' /\ SetupTexts' /\ ExpiryTexts'
  BY <1>1 DEF TextInv
<1>2. Now' = Now /\ Late' = Late /\ Found' = Found /\ Stood' = Stood
      /\ Standing' = Standing /\ Newest' = Newest /\ Target(doing)' = Target(doing)
      /\ GoalConfig(doing)' = GoalConfig(doing)
  BY <1>1 DEF Now, Late, Found, Stood, Standing, Newest, Target, GoalConfig
<1>3. /\ doing.before.meta \in Metas /\ day \in Days /\ day' \in Days /\ day <= day' /\ doing.now \in Days
  BY <1>1, BoundAssumption DEF Inv, TypeInv, TypeOK, Calls, Disks, Metas, Days, Midnight
<1>4. ASSUME NEW text, NEW config, NEW meta, Rendered(text, config, meta)
      PROVE  \E d \in doing.now..day' : text = Render(config, meta, d)
  <2>1. doing.now..day \subseteq doing.now..day'
    BY <1>1, <1>3, BoundAssumption DEF Days
  <2> QED BY <1>4, <2>1 DEF Rendered
<1>5. ForthTexts'
  <2>1. Rendered(doing.text, GoalConfig(doing), Target(doing))
          => \E d \in doing.now..day' : doing.text = Render(GoalConfig(doing), Target(doing), d)
    BY <1>4
  <2>2. doing' = doing /\ disk' = disk
    BY <1>1
  <2>3. ForthTexts
    BY DEF TextInv
  <2> QED BY <1>2, <2>1, <2>2, <2>3 DEF ForthTexts, Pair, Rendered
<1>6. BackTexts'
  <2>1. Serving(disk.generated, doing.before.config, doing.before.meta, day, wreck)
          => Serving(disk.generated, doing.before.config, doing.before.meta, day', wreck)
    BY <1>3, InsideLater DEF Wider
  <2> QED BY <1>1, <1>2, <1>4, <2>1 DEF TextInv, BackTexts, Pair, Rendered
<1>7. SetupTexts'
  BY <1>1, <1>2 DEF TextInv, SetupTexts, Pair
<1>8. ExpiryTexts'
  BY <1>1, <1>2 DEF TextInv, ExpiryTexts, Pair
<1> QED BY <1>5, <1>6, <1>7, <1>8

LEMMA MidnightFiles ==
  ASSUME Inv, FilesInv, Midnight
  PROVE  FilesInv'
<1>1. /\ UNCHANGED <<disk, link, backup, doing, todo, wreck>> /\ day' = day + 1
  BY DEF Midnight, running
<1>2. Now' = Now
  BY <1>1 DEF Now
<1>3. /\ disk \in Disks /\ disk.meta \in Metas /\ day \in Days /\ day' \in Days /\ day <= day'
  BY <1>1, BoundAssumption DEF Inv, TypeInv, TypeOK, Disks, Metas, Days, Midnight
<1>4. RestInv'
  <2> SUFFICES ASSUME doing = None, wreck # "damaged" PROVE RestInv'
    BY <1>1 DEF RestInv
  <2>1. Sane(disk, wreck, day')
    BY <1>3, SaneLater DEF FilesInv, RestInv, Wider
  <2>2. disk.config # None => Fits(link, disk, wreck, day')
    <3>1. Live(disk.meta, day') \subseteq Live(disk.meta, day)
      BY <1>3, LaterClients DEF Wider
    <3>2. Inside(link, disk.config, disk.meta, day, wreck) => Inside(link, disk.config, disk.meta, day', wreck)
      BY <1>3, InsideLater DEF Wider
    <3> QED BY <3>1, <3>2 DEF FilesInv, RestInv, Fits
  <2> QED BY <1>1, <2>1, <2>2 DEF FilesInv, RestInv
<1>5. ClientsInv'
  <2>1. Target(doing)' = Target(doing)
    BY <1>1 DEF Target
  <2>2. MakingInv' = MakingInv
    BY <1>1, <1>2 DEF MakingInv, Own
  <2> QED BY <1>1, <1>2, <2>1, <2>2 DEF FilesInv, ClientsInv, Own
<1>6. SwapInv'
  <2>1. Swapped' = Swapped
    BY <1>1 DEF Swapped, Held
  <2> QED BY <1>1, <1>2, <2>1 DEF FilesInv, SwapInv
<1>7. ExpireFlow'
  BY <1>1 DEF FilesInv, ExpireFlow
<1> QED BY <1>4, <1>5, <1>6, <1>7, BeforeLater, TextLater, LinkLater DEF FilesInv

LEMMA OutsideFiles ==
  ASSUME Inv, FilesInv, Backup \/ Reboot \/ ServiceStart \/ ServiceStop
  PROVE  FilesInv'
<1>1. /\ doing = None /\ doing' = None /\ UNCHANGED <<disk, day, wreck>>
      /\ link' = link \/ link' \in {None, disk.runtime}
  BY DEF Backup, Reboot, ServiceStart, ServiceStop, Idle, Boot, running
<1>2. RestInv
  BY DEF FilesInv
<1>3. RestInv'
  <2>1. CASE link' = link
    BY <1>1, <1>2, <2>1 DEF RestInv
  <2>2. CASE link' \in {None, disk.runtime}
    <3> SUFFICES ASSUME wreck # "damaged" PROVE RestInv'
      BY <1>1 DEF RestInv
    <3>1. Sane(disk', wreck', day)
      BY <1>1, <1>2 DEF RestInv
    <3> QED BY <1>1, <2>2, <3>1, SaneRests
  <2> QED BY <1>1, <2>1, <2>2
<1> QED BY <1>1, <1>3, NoCommandFiles

LEMMA StillFiles ==
  ASSUME FilesInv, UNCHANGED vars
  PROVE  FilesInv'
<1>1. /\ UNCHANGED <<disk, link, day, backup, doing, todo, wreck>> /\ Now' = Now
  BY DEF vars, running, Now
<1>2. RestInv' /\ BeforeInv' /\ ExpireFlow'
  BY <1>1 DEF FilesInv, RestInv, BeforeInv, ExpireFlow
<1>3. Target(doing)' = Target(doing) /\ MakingInv' = MakingInv
  BY <1>1 DEF Target, MakingInv, Own
<1>4. ClientsInv'
  BY <1>1, <1>3 DEF FilesInv, ClientsInv, Own
<1>5. /\ Late' = Late /\ Found' = Found /\ Stood' = Stood /\ Standing' = Standing /\ Newest' = Newest
      /\ GoalConfig(doing)' = GoalConfig(doing)
  BY <1>1 DEF Late, Found, Stood, Standing, Newest, GoalConfig
<1>6. ForthTexts' = ForthTexts /\ BackTexts' = BackTexts
  BY <1>1, <1>3, <1>5 DEF ForthTexts, BackTexts, Pair, Rendered
<1>7. SetupTexts' = SetupTexts /\ ExpiryTexts' = ExpiryTexts
  BY <1>1, <1>3, <1>5 DEF SetupTexts, ExpiryTexts, Pair
<1>8. KeptLink' = KeptLink /\ MovedLink' = MovedLink /\ SetupLink' = SetupLink
  BY <1>1, <1>5 DEF KeptLink, MovedLink, SetupLink, Old, Put
<1>9. Swapped' = Swapped
  BY <1>1 DEF Swapped, Held
<1>10. SwapInv'
  BY <1>1, <1>9 DEF FilesInv, SwapInv
<1> QED BY <1>1, <1>2, <1>4, <1>6, <1>7, <1>8, <1>10 DEF FilesInv, TextInv, LinkInv

LEMMA InitFiles == Init => FilesInv
<1> SUFFICES ASSUME Init PROVE FilesInv
  OBVIOUS
<1>1. doing = None /\ day = 0 /\ wreck = "none"
  BY DEF Init
<1>2. FirstConfig # None /\ LegacyText # None
  BY FirstValues, NoneAssumption DEF NoneAssumption
<1>3. Nothing.config = None /\ Bare(Nothing) /\ Nothing.runtime = None
  BY DEF Nothing, Bare
<1>4. CASE disk = Nothing /\ link = None
  BY <1>1, <1>3, <1>4 DEF RestInv, Sane, FilesInv, BeforeInv, ClientsInv, TextInv, LinkInv, SwapInv, ExpireFlow
<1>5. CASE disk = [Nothing EXCEPT !.runtime = LegacyText] /\ link = LegacyText
  <2>1. disk.config = None /\ Bare(disk) /\ disk.runtime = LegacyText
    BY <1>5 DEF Nothing, Bare
  <2> QED BY <1>1, <1>5, <2>1 DEF RestInv, Sane, FilesInv, BeforeInv, ClientsInv, TextInv, LinkInv, SwapInv, ExpireFlow
<1>6. ASSUME NEW n \in Names, NEW managed \in BOOLEAN,
             disk = [config |-> FirstConfig, identity |-> TRUE,
                     meta |-> [m \in Names |-> IF m = n THEN First(managed) ELSE None],
                     keys |-> [m \in Names |-> IF m = n THEN 1 ELSE None],
                     generated |-> LegacyText, runtime |-> LegacyText],
             link = LegacyText
      PROVE  FilesInv
  <2>1. /\ disk.config = FirstConfig /\ disk.identity /\ disk.generated = LegacyText
        /\ disk.runtime = LegacyText
        /\ \A m \in Names : disk.meta[m] = (IF m = n THEN First(managed) ELSE None)
                            /\ disk.keys[m] = (IF m = n THEN 1 ELSE None)
    BY <1>6
  <2>2. First(managed) \in Records /\ First(managed) \notin {None, Partial} /\ 1 # None /\ None # Partial
    BY FirstValues, NoneAssumption DEF NoneAssumption
  <2>3. Described(disk.meta) = {n}
    BY <2>1, <2>2 DEF Described
  <2>4. /\ First(managed).key = 1 /\ First(managed).addr = 1 /\ First(managed).state = "active"
        /\ First(managed).expires = None /\ First(managed).managed = managed
        /\ First(managed).profile = IF managed THEN FirstConfig ELSE None
    BY DEF First
  <2>5. Loadable(disk)
    BY <2>1, <2>2, <2>3, <2>4 DEF Loadable
  <2>6. Ready(disk) /\ Paired(disk) /\ Profiled(disk)
    BY <1>2, <2>1, <2>2, <2>3, <2>4, <2>5 DEF Ready, Paired, Profiled
  <2>7. Live(disk.meta, day) = LegacyText.peers
    <3>1. Eligible(disk.meta[n], day) /\ Listed(disk.meta, n) = [key |-> 1, addr |-> 1]
      BY <2>1, <2>4 DEF Eligible, Expired, Listed
    <3> QED BY <2>3, <3>1 DEF Live, LegacyText
  <2>8. Inside(LegacyText, disk.config, disk.meta, day, wreck)
    BY <1>2, <2>1, <2>7, FirstValues DEF Inside, LegacyText, FirstConfig
  <2>9. Good(disk, wreck, day) /\ Fits(link, disk, wreck, day)
    BY <1>6, <2>1, <2>6, <2>7, <2>8 DEF Good, Fits
  <2>10. RestInv
    BY <1>2, <2>1, <2>9 DEF RestInv, Sane
  <2> QED BY <1>1, <2>10 DEF FilesInv, BeforeInv, ClientsInv, TextInv, LinkInv, SwapInv, ExpireFlow
<1> QED BY <1>4, <1>5, <1>6 DEF Init

LEMMA NextFiles ==
  ASSUME Inv, FilesInv, [Next]_vars
  PROVE  FilesInv'
<1>1. CASE Step
  <2>1. CASE Going
    BY <2>1, GoingFiles
  <2>2. CASE Finish
    BY <2>2, FinishFiles
  <2> QED BY <1>1, <2>1, <2>2 DEF Step, Going
<1>2. CASE \/ \E n \in Names :
                \/ Initialize(n) \/ Migrate(n) \/ Revoke(n) \/ Rotate(n)
                \/ \E date \in Dates(n) : Add(n, date)
                \/ \E profile \in {None, disk.config} : Import(n, profile)
           \/ \E field \in {"endpoint", "port"} : Configure(field)
           \/ Expire \/ Restore
  <2>1. RestInv
    BY DEF FilesInv
  <2> QED BY <1>2, <2>1, BeginFiles DEF FilesInv
<1>3. CASE \E n \in Names : \E date \in Dates(n) : Edit(n, date)
  BY <1>3, EditFiles
<1>4. CASE Crash
  BY <1>4, CrashFiles
<1>5. CASE Backup \/ Reboot \/ ServiceStart \/ ServiceStop
  BY <1>5, OutsideFiles
<1>6. CASE Midnight
  BY <1>6, MidnightFiles
<1>7. CASE UNCHANGED vars
  BY <1>7, StillFiles
<1> QED BY <1>1, <1>2, <1>3, <1>4, <1>5, <1>6, <1>7 DEF Next

(* What the invariant says of a host at rest is what the property asks. *)
LEMMA ServesAtRest ==
  ASSUME TypeInv, NEW text, Serving(text, disk.config, disk.meta, day, "none")
  PROVE  Serves(text)
<1> DEFINE now == Render(disk.config, disk.meta, day).peers
           stale == {Peer(n) : n \in {m \in Selected : disk.meta[m].state = "active"}}
<1>1. now = Live(disk.meta, day)
  BY RenderLists
<1>2. Gone(disk.meta, day, "none") = stale
  BY DEF Gone, Listed, Peer, Selected
<1> QED BY <1>1, <1>2 DEF Serving, Inside, Serves

LEMMA FilesRest ==
  ASSUME TypeInv, FilesInv
  PROVE  IdleConsistent
<1> SUFFICES ASSUME doing = None, wreck = "none" PROVE IdleConsistent
  BY DEF IdleConsistent
<1>1. RestInv
  BY DEF FilesInv
<1>2. CASE disk.config = None
  BY <1>1, <1>2 DEF RestInv, Sane, Bare, IdleConsistent
<1>3. CASE disk.config # None
  <2>1. Good(disk, "none", day) /\ Fits(link, disk, "none", day)
    BY <1>1, <1>3 DEF RestInv, Sane
  <2>2. Serving(disk.generated, disk.config, disk.meta, day, "none")
    BY <2>1 DEF Good, Serving
  <2>3. link # None => Serving(link, disk.config, disk.meta, day, "none")
    BY <2>1 DEF Good, Fits, Serving
  <2>4. Serves(disk.generated) /\ (link # None => Serves(link))
    BY <2>2, <2>3, ServesAtRest
  <2> QED BY <1>3, <2>1, <2>4 DEF Good, Paired, Profiled, IdleConsistent
<1> QED BY <1>2, <1>3

(* Between commands, unless a crash or a failed compensation was reported, the  *)
(* metadata, the keys, the configuration, the profiles and the interface agree  *)
(* about who may connect, whatever number of clients, days, commands, failing   *)
(* steps and crashes came before.                                               *)
THEOREM RestIsConsistent == Spec => []IdleConsistent
<1>1. Init => FilesInv
  BY InitFiles
<1>2. Inv /\ FilesInv /\ [Next]_vars => FilesInv'
  BY NextFiles
<1>3. Inv /\ FilesInv => IdleConsistent
  BY FilesRest DEF Inv
<1> QED BY <1>1, <1>2, <1>3, SpecInv, PTL DEF Spec

-----------------------------------------------------------------------------
(* What the operator sees of the files: the registry every command leaves as it *)
(* was, or changes as it reports.                                               *)

Seen == IF wreck = "damaged" THEN Partial ELSE View(IF doing = None THEN disk ELSE doing.before)
Telling(op, n, ok) == report' = [op |-> op, name |-> n, ok |-> ok]

LEMMA SeenApart ==
  ASSUME NEW r \in Registries
  PROVE  r # Partial
  BY RegistryAssumption DEF RegistryAssumption

LEMMA ViewFields ==
  ASSUME NEW d \in Disks
  PROVE  /\ View(d) \in Registries /\ View(d) # Partial /\ View(d).config = d.config
         /\ \A n \in Names :
              /\ n \notin Described(d.meta) => View(d).clients[n] = None
              /\ n \in Described(d.meta) =>
                   /\ d.meta[n] \in Records
                   /\ View(d).clients[n] \in Registered /\ View(d).clients[n] # None
                   /\ View(d).clients[n].key = d.meta[n].key
                   /\ View(d).clients[n].addr = d.meta[n].addr
                   /\ View(d).clients[n].state = d.meta[n].state
                   /\ View(d).clients[n].expires = d.meta[n].expires
                   /\ View(d).clients[n].managed = d.meta[n].managed
<1> DEFINE seen(n) == [key |-> d.meta[n].key, addr |-> d.meta[n].addr, state |-> d.meta[n].state,
                       expires |-> d.meta[n].expires, managed |-> d.meta[n].managed]
<1>1. d.meta \in Metas /\ d.config \in Configs \cup {None}
  BY DEF Disks, Metas
<1>2. \A n \in Described(d.meta) : d.meta[n] \in Records
  BY <1>1, DescribedRecords
<1>3. \A n \in Described(d.meta) : seen(n) \in Registered
  BY <1>2 DEF Records, Registered
<1>4. View(d) = [config |-> d.config,
                 clients |-> [n \in Names |-> IF n \notin Described(d.meta) THEN None ELSE seen(n)]]
  BY DEF View
<1>5. \A n \in Described(d.meta) :
        /\ seen(n).key = d.meta[n].key /\ seen(n).addr = d.meta[n].addr /\ seen(n).state = d.meta[n].state
        /\ seen(n).expires = d.meta[n].expires /\ seen(n).managed = d.meta[n].managed
  OBVIOUS
<1> HIDE DEF seen
<1>6. View(d) \in Registries
  BY <1>1, <1>3, <1>4 DEF Registries
<1>7. \A n \in Names : View(d).clients[n] = IF n \notin Described(d.meta) THEN None ELSE seen(n)
  BY <1>4
<1>8. View(d).config = d.config
  BY <1>4
<1> QED BY <1>2, <1>3, <1>5, <1>6, <1>7, <1>8, SeenApart, RegistryAssumption DEF RegistryAssumption

LEMMA SameRegistered ==
  ASSUME NEW c \in Registered, NEW e \in Registered, c.key = e.key, c.addr = e.addr, c.state = e.state,
         c.expires = e.expires, c.managed = e.managed
  PROVE  c = e
  BY DEF Registered

LEMMA SameRegistries ==
  ASSUME NEW r \in Registries, NEW s \in Registries, r.config = s.config,
         \A n \in Names : r.clients[n] = s.clients[n]
  PROVE  r = s
  BY DEF Registries

(* The same settings and clients are seen the same, whatever else is in the files. *)
LEMMA SeenAlike ==
  ASSUME NEW d \in Disks, NEW e \in Disks, d.config = e.config,
         \A n \in Names : d.meta[n] = e.meta[n]
  PROVE  View(d) = View(e)
<1>1. Described(d.meta) = Described(e.meta)
  BY DEF Described
<1> QED BY <1>1 DEF View, Described

LEMMA SeenSound ==
  ASSUME NEW d \in Disks,
         \A m, n \in Described(d.meta) :
           m # n => d.meta[m].key # d.meta[n].key /\ d.meta[m].addr # d.meta[n].addr
  PROVE  Registry!Sound(View(d))
  BY ViewFields DEF Registry!Sound

LEMMA LoadedSound ==
  ASSUME NEW d \in Disks, Loadable(d)
  PROVE  Registry!Sound(View(d))
  BY SeenSound DEF Loadable

-----------------------------------------------------------------------------
(* The steps of the registry, from what is seen before and after *)

LEMMA StaysAsItIs ==
  ASSUME Seen' = Seen, report' = report
  PROVE  UNCHANGED Registry!vars
  BY DEF Seen, Registry!vars

LEMMA LosesSight ==
  ASSUME wreck' = "damaged", report' = report
  PROVE  Registry!Next
  BY DEF Registry!Next, Registry!Lose

LEMMA BeginsAnew ==
  ASSUME Seen' = Seen, report' = None
  PROVE  Registry!Next
  BY DEF Seen, Registry!Next, Registry!Begin

LEMMA ReportsBlindly ==
  ASSUME wreck = "damaged", wreck' = "damaged"
  PROVE  Registry!Next
  BY DEF Registry!Next, Registry!Blind, Registry!Known

LEMMA ReportsFailure ==
  ASSUME Seen' = Seen, NEW op \in Ops, NEW n \in Names \cup {None}, Telling(op, n, FALSE)
  PROVE  Registry!Next
  BY DEF Seen, Telling, Ops, Registry!Next, Registry!Fail, Registry!Said

LEMMA ReportsRestore ==
  ASSUME NEW s \in Registries, Seen' = s, Registry!Sound(s), Telling("restore", None, TRUE)
  PROVE  Registry!Next
<1>1. Registry!Restore
  BY SeenApart DEF Seen, Telling, Registry!Restore, Registry!Said
<1> QED BY <1>1 DEF Registry!Next

LEMMA OneChanged ==
  ASSUME NEW r \in Registries, NEW s \in Registries, NEW n \in Names, s.config = r.config,
         \A m \in Names \ {n} : s.clients[m] = r.clients[m]
  PROVE  s = [r EXCEPT !.clients[n] = s.clients[n]]
<1> DEFINE t == [r EXCEPT !.clients[n] = s.clients[n]]
<1>1. s.clients[n] \in Registered \cup {None}
  BY DEF Registries
<1>2. t \in Registries /\ t.config = r.config
  BY <1>1 DEF Registries
<1>3. \A m \in Names : t.clients[m] = IF m = n THEN s.clients[n] ELSE r.clients[m]
  BY DEF Registries
<1> HIDE DEF t
<1>4. s = t
  BY <1>2, <1>3, SameRegistries
<1> QED BY <1>4 DEF t

(* One command on one client, which is seen to change it and nothing else. *)
Changes(r, s, n) ==
  /\ r \in Registries /\ s \in Registries /\ n \in Names
  /\ Seen = r /\ Seen' = s /\ s.config = r.config
  /\ \A m \in Names \ {n} : s.clients[m] = r.clients[m]

LEMMA ChangesOne ==
  ASSUME NEW r, NEW s, NEW n, Changes(r, s, n)
  PROVE  Seen # Partial /\ Seen' # Partial /\ Seen' = [Seen EXCEPT !.clients[n] = s.clients[n]]
<1>1. s = [r EXCEPT !.clients[n] = s.clients[n]]
  BY OneChanged DEF Changes
<1> QED BY <1>1, SeenApart DEF Changes

LEMMA ReportsAdd ==
  ASSUME NEW r, NEW s, NEW n, Changes(r, s, n), Telling("add", n, TRUE),
         r.clients[n] = None, s.clients[n].state = "active", Registry!Sound(s)
  PROVE  Registry!Next
<1>1. Seen # Partial /\ Seen' # Partial /\ Seen' = [Seen EXCEPT !.clients[n] = s.clients[n]]
      /\ Seen = r /\ Seen' = s /\ n \in Names
  BY ChangesOne DEF Changes
<1>2. Registry!Add(n)
  BY <1>1 DEF Seen, Telling, Registry!Add, Registry!Known, Registry!Clients, Registry!Said, Registry!Becomes
<1> QED BY <1>1, <1>2 DEF Registry!Next

LEMMA ReportsRevoke ==
  ASSUME NEW r, NEW s, NEW n, Changes(r, s, n), Telling("revoke", n, TRUE), s.clients[n] = None
  PROVE  Registry!Next
<1>1. Seen # Partial /\ Seen' = [Seen EXCEPT !.clients[n] = None] /\ n \in Names
  BY ChangesOne DEF Changes
<1>2. Registry!Revoke(n)
  BY <1>1 DEF Seen, Telling, Registry!Revoke, Registry!Known, Registry!Said, Registry!Becomes
<1> QED BY <1>1, <1>2 DEF Registry!Next

LEMMA ReportsImport ==
  ASSUME NEW r, NEW s, NEW n, Changes(r, s, n), Telling("import", n, TRUE),
         r.clients[n] # None, s.clients[n] = [r.clients[n] EXCEPT !.managed = TRUE]
  PROVE  Registry!Next
<1>1. Seen # Partial /\ Seen' = [Seen EXCEPT !.clients[n] = s.clients[n]] /\ Seen = r /\ n \in Names
  BY ChangesOne DEF Changes
<1>2. Registry!Import(n)
  BY <1>1 DEF Seen, Telling, Registry!Import, Registry!Known, Registry!Clients, Registry!Said, Registry!Becomes
<1> QED BY <1>1, <1>2 DEF Registry!Next

LEMMA ReportsEdit ==
  ASSUME NEW r, NEW s, NEW n, Changes(r, s, n), Telling("edit", n, TRUE),
         r.clients[n] # None, s.clients[n] = [r.clients[n] EXCEPT !.expires = s.clients[n].expires]
  PROVE  Registry!Next
<1>1. Seen # Partial /\ Seen' # Partial /\ Seen' = [Seen EXCEPT !.clients[n] = s.clients[n]]
      /\ Seen = r /\ Seen' = s /\ n \in Names
  BY ChangesOne DEF Changes
<1>2. Registry!Edit(n)
  BY <1>1 DEF Seen, Telling, Registry!Edit, Registry!Known, Registry!Clients, Registry!Said, Registry!Becomes
<1> QED BY <1>1, <1>2 DEF Registry!Next

(* A client with another key than anybody had. *)
Rekeyed(r, s, n) ==
  /\ r.clients[n] # None /\ s.clients[n].key # r.clients[n].key
  /\ \A m \in Names \ {n} : r.clients[m] # None => r.clients[m].key # s.clients[n].key
  /\ s.clients[n] = [r.clients[n] EXCEPT !.key = s.clients[n].key, !.state = "active"]

LEMMA ReportsRotate ==
  ASSUME NEW r, NEW s, NEW n, Changes(r, s, n), Telling("rotate", n, TRUE), Rekeyed(r, s, n)
  PROVE  Registry!Next
<1>1. Seen # Partial /\ Seen' # Partial /\ Seen' = [Seen EXCEPT !.clients[n] = s.clients[n]]
      /\ Seen = r /\ Seen' = s /\ n \in Names
  BY ChangesOne DEF Changes
<1>2. Registry!Fresh(s.clients[n].key, n)
  BY <1>1 DEF Rekeyed, Seen, Registry!Fresh, Registry!Others, Registry!Clients
<1>3. Registry!Rotate(n)
  BY <1>1, <1>2 DEF Rekeyed, Seen, Telling, Registry!Rotate, Registry!Known, Registry!Clients, Registry!Said, Registry!Becomes
<1> QED BY <1>1, <1>3 DEF Registry!Next

LEMMA ReportsFirst ==
  ASSUME NEW r \in Registries, NEW s \in Registries, NEW n \in Names, Seen = r, Seen' = s,
         NEW op \in {"initialize", "migrate"}, Telling(op, n, TRUE),
         r.config = None, s.config # None, \A m \in Names : s.clients[m] # None <=> m = n
  PROVE  Registry!Next
<1>1. Seen # Partial
  BY SeenApart
<1>2. Registry!First(op, n)
  BY <1>1 DEF Seen, Telling, Registry!First, Registry!Known, Registry!Said
<1> QED BY <1>2 DEF Registry!Next

(* The settings with one field turned, and the same clients. *)
Configured(r, s, field) ==
  /\ s.config = [r.config EXCEPT ![field] = 1 - @]
  /\ \A m \in Names : s.clients[m] = r.clients[m]

LEMMA ReportsConfigure ==
  ASSUME NEW r \in Registries, NEW s \in Registries, Seen = r, Seen' = s,
         NEW field \in {"endpoint", "port"}, Telling(field, None, TRUE), Configured(r, s, field)
  PROVE  Registry!Next
<1>1. Seen # Partial
  BY SeenApart
<1>2. [r EXCEPT !.config[field] = 1 - @] = [r EXCEPT !.config = s.config]
  BY DEF Configured
<1> DEFINE t == [r EXCEPT !.config = s.config]
<1>3. t \in Registries /\ t.config = s.config /\ \A m \in Names : t.clients[m] = r.clients[m]
  BY DEF Registries, Configured
<1> HIDE DEF t
<1>4. s = t
  BY <1>3, SameRegistries DEF Configured
<1>5. Registry!Configure(field)
  BY <1>1, <1>2, <1>4 DEF t, Seen, Telling, Registry!Configure, Registry!Known, Registry!Said
<1> QED BY <1>5 DEF Registry!Next

(* Some clients with a date are seen to be marked. *)
LEMMA SeesMarks ==
  ASSUME NEW r \in Registries, NEW s \in Registries, Seen = r, Seen' = s, s.config = r.config,
         \A m \in Names : s.clients[m] # r.clients[m] =>
           /\ r.clients[m] # None /\ r.clients[m].expires # None
           /\ s.clients[m] = [r.clients[m] EXCEPT !.state = "expired"]
  PROVE  Registry!Marks
<1> DEFINE S == {m \in Names : s.clients[m] # r.clients[m]}
           t == [r EXCEPT !.clients =
                  [m \in Names |-> IF m \in S THEN [r.clients[m] EXCEPT !.state = "expired"] ELSE r.clients[m]]]
<1>1. Seen # Partial
  BY SeenApart
<1>2. \A m \in Names : s.clients[m] =
        IF m \in S THEN [r.clients[m] EXCEPT !.state = "expired"] ELSE r.clients[m]
  OBVIOUS
<1>3. s.clients = [m \in Names |-> s.clients[m]]
  BY DEF Registries
<1>4. s.clients =
        [m \in Names |-> IF m \in S THEN [r.clients[m] EXCEPT !.state = "expired"] ELSE r.clients[m]]
  BY <1>2, <1>3
<1>5. t = [r EXCEPT !.clients = s.clients]
  BY <1>4
<1> HIDE DEF t
<1>6. t \in Registries /\ t.config = s.config /\ t.clients = s.clients
  BY <1>5 DEF Registries
<1>7. s = t
  BY <1>6, SameRegistries
<1>8. S \in SUBSET {m \in Names : r.clients[m] # None} /\ \A m \in S : r.clients[m].expires # None
  OBVIOUS
<1> HIDE DEF S
<1>9. \E T \in SUBSET {m \in Names : Seen.clients[m] # None} :
        /\ \A m \in T : Seen.clients[m].expires # None
        /\ Seen' = [Seen EXCEPT !.clients =
             [m \in Names |-> IF m \in T THEN [Seen.clients[m] EXCEPT !.state = "expired"] ELSE Seen.clients[m]]]
  <2>1. S \in SUBSET {m \in Names : Seen.clients[m] # None}
    BY <1>8
  <2>2. Seen' = [Seen EXCEPT !.clients =
          [m \in Names |-> IF m \in S THEN [Seen.clients[m] EXCEPT !.state = "expired"] ELSE Seen.clients[m]]]
    BY <1>7 DEF t
  <2> QED BY <1>8, <2>1, <2>2
<1> QED BY <1>1, <1>9 DEF Seen, Registry!Marks, Registry!Known, Registry!Clients

-----------------------------------------------------------------------------
(* The steps of a command before its end, its beginning and its death *)

LEMMA FilesTyped ==
  ASSUME TypeInv
  PROVE  /\ disk \in Disks /\ disk.meta \in Metas
         /\ doing # None => /\ doing \in Calls /\ doing.before \in Disks /\ doing.before.meta \in Metas
                            /\ doing.op \in Ops /\ doing.name \in Names \cup {None} /\ doing.back \in BOOLEAN
  BY DEF TypeInv, TypeOK, Calls, Disks, Metas

LEMMA GoingUnsaid ==
  ASSUME Going
  PROVE  report' = report
<1>1. ASSUME WriteConfig \/ CreateClient \/ DescribeClient \/ RemoveClient \/ RemoveKeys
               \/ CompareServer \/ WriteProfiles \/ MarkExpired \/ RenderServer \/ WriteGenerated
               \/ WriteRuntime \/ Act \/ ActUnapplied \/ ActFails \/ Verify \/ CheckExpired
      PROVE  report' = report
  BY <1>1 DEF WriteConfig, CreateClient, DescribeClient, RemoveClient, RemoveKeys, CompareServer,
     WriteProfiles, MarkExpired, RenderServer, WriteGenerated, WriteRuntime, Act, ActUnapplied,
     ActFails, Verify, CheckExpired, Write, Stepping, history
<1>2. ASSUME Displace \/ Place \/ StepFails \/ OldRuntime \/ OldGenerated \/ Again \/ AgainFails
               \/ Halt \/ HaltFails \/ ReturnClient \/ ReturnKeys \/ Reactivate \/ OldConfig
               \/ OldMetadata \/ Unconfigure \/ NoRuntime \/ Unplace \/ PutBack
      PROVE  report' = report
  BY <1>2 DEF Displace, Place, StepFails, OldRuntime, OldGenerated, Again, AgainFails, Halt, HaltFails,
     ReturnClient, ReturnKeys, Reactivate, OldConfig, OldMetadata, Unconfigure, NoRuntime, Unplace,
     PutBack, Write, Stepping, history
<1> QED BY <1>1, <1>2 DEF Going

(* Until a command ends, the operator is shown what it found. *)
LEMMA GoingMaps ==
  ASSUME TypeInv, Going
  PROVE  [Registry!Next]_(Registry!vars)
<1>1. report' = report
  BY GoingUnsaid
<1>2. CASE wreck' = "damaged"
  BY <1>1, <1>2, LosesSight
<1>3. CASE wreck' # "damaged"
  <2>1. wreck # "damaged"
    BY <1>3, WreckGoes
  <2>2. doing # None /\ doing' # None /\ doing'.before = doing.before
    BY GoingFrame DEF Frame
  <2>3. Seen' = Seen
    BY <1>3, <2>1, <2>2 DEF Seen
  <2> QED BY <1>1, <2>3, StaysAsItIs
<1> QED BY <1>2, <1>3

(* The commands that are about no client in particular. *)
Nameless == doing # None /\ doing.op \in {"endpoint", "port", "expire", "restore"} => doing.name = None

LEMMA BeginMaps ==
  ASSUME TypeInv,
         \/ \E n \in Names :
              \/ Initialize(n) \/ Migrate(n) \/ Revoke(n) \/ Rotate(n)
              \/ \E date \in Dates(n) : Add(n, date)
              \/ \E profile \in {None, disk.config} : Import(n, profile)
         \/ \E field \in {"endpoint", "port"} : Configure(field)
         \/ Expire \/ Restore
  PROVE  Nameless' /\ [Registry!Next]_(Registry!vars)
<1>1. PICK c : Begun(c) /\ Start(c)
  BY BeginTyped
<1>2. /\ doing = None /\ doing' = c /\ report' = None /\ wreck' = wreck /\ disk' = disk
      /\ c.before = disk /\ c # None
  BY <1>1, NoneAssumption DEF Begun, Start, NoneAssumption
<1>3. Seen' = Seen
  BY <1>2 DEF Seen
<1>4. Nameless'
  <2>1. CASE \E n \in Names : Initialize(n) \/ Migrate(n)
    <3>1. ASSUME NEW n \in Names, Initialize(n) PROVE doing'.op = "initialize"
      BY <3>1, InitializeBegins DEF Start
    <3>2. ASSUME NEW n \in Names, Migrate(n) PROVE doing'.op = "migrate"
      BY <3>2, MigrateBegins DEF Start
    <3>3. doing'.op \in {"initialize", "migrate"}
      BY <2>1, <3>1, <3>2
    <3> QED BY <3>3 DEF Nameless
  <2>2. CASE \E n \in Names :
               \/ Revoke(n) \/ Rotate(n)
               \/ \E date \in Dates(n) : Add(n, date)
               \/ \E profile \in {None, disk.config} : Import(n, profile)
    <3>1. doing'.op \in {"revoke", "rotate", "add", "import"}
      BY <2>2 DEF Revoke, Rotate, Add, Import, Operator, Start, Command
    <3> QED BY <3>1 DEF Nameless
  <2>3. CASE (\E field \in {"endpoint", "port"} : Configure(field)) \/ Expire \/ Restore
    <3>1. ASSUME NEW field \in {"endpoint", "port"}, Configure(field) PROVE doing'.name = None
      BY <3>1 DEF Configure, Operator, Start, Command
    <3>2. Expire => doing'.name = None
      BY DEF Expire, Start, Command
    <3>3. Restore => doing'.name = None
      BY DEF Restore, Operator, Start, Command
    <3> QED BY <2>3, <3>1, <3>2, <3>3 DEF Nameless
  <2> QED BY <2>1, <2>2, <2>3
<1> QED BY <1>2, <1>3, <1>4, BeginsAnew

(* Between the clients an expiry found and what it makes of them. *)
LEMMA MarkingSeen ==
  ASSUME NEW b \in Disks, NEW d \in Disks, NEW now, d.config = b.config,
         \A m \in Names : d.meta[m] \in {b.meta[m], Marking(b.meta, now)[m]},
         Seen = View(b), Seen' = View(d)
  PROVE  Registry!Marks
<1> DEFINE r == View(b)
           s == View(d)
           marked == Marking(b.meta, now)
<1>1. b.meta \in Metas /\ d.meta \in Metas
  BY DEF Disks, Metas
<1>2. /\ Described(marked) = Described(b.meta)
      /\ \A m \in Described(b.meta) :
           /\ marked[m].key = b.meta[m].key /\ marked[m].addr = b.meta[m].addr
           /\ marked[m].expires = b.meta[m].expires /\ marked[m].managed = b.meta[m].managed
           /\ marked[m].state = IF b.meta[m].state = "active" /\ Expired(b.meta[m], now)
                                THEN "expired" ELSE b.meta[m].state
  BY <1>1, MarkingFields
<1> HIDE DEF marked
<1>3. Described(d.meta) = Described(b.meta)
  BY <1>2 DEF Described, marked
<1>4. ASSUME NEW m \in Described(b.meta)
      PROVE  /\ d.meta[m].key = b.meta[m].key /\ d.meta[m].addr = b.meta[m].addr
             /\ d.meta[m].expires = b.meta[m].expires /\ d.meta[m].managed = b.meta[m].managed
             /\ \/ d.meta[m].state = b.meta[m].state
                \/ d.meta[m].state = "expired" /\ b.meta[m].expires # None
  <2>1. m \in Names /\ d.meta[m] \in {b.meta[m], marked[m]}
    BY DEF Described, marked
  <2>2. b.meta[m].state = "active" /\ Expired(b.meta[m], now) => b.meta[m].expires # None
    BY DEF Expired
  <2> QED BY <1>2, <2>1, <2>2
<1>5. ASSUME NEW m \in Names, s.clients[m] # r.clients[m]
      PROVE  /\ r.clients[m] # None /\ r.clients[m].expires # None
             /\ s.clients[m] = [r.clients[m] EXCEPT !.state = "expired"]
  <2>1. m \in Described(b.meta)
    BY <1>3, <1>5, ViewFields
  <2> DEFINE c == r.clients[m]
             e == s.clients[m]
  <2>2. /\ c \in Registered /\ c # None /\ e \in Registered
        /\ e.key = c.key /\ e.addr = c.addr /\ e.expires = c.expires /\ e.managed = c.managed
        /\ e.state = c.state \/ (e.state = "expired" /\ c.expires # None)
    BY <1>3, <1>4, <2>1, ViewFields
  <2> HIDE DEF c, e
  <2>3. c # e
    BY <1>5 DEF c, e
  <2>4. e.state = "expired" /\ c.expires # None
    BY <2>2, <2>3, SameRegistered
  <2>5. e = [c EXCEPT !.state = "expired"]
    BY <2>2, <2>4 DEF Registered
  <2> QED BY <2>2, <2>4, <2>5 DEF c, e
<1>6. r \in Registries /\ s \in Registries /\ s.config = r.config
  BY ViewFields
<1> HIDE DEF r, s
<1> QED BY <1>5, <1>6, SeesMarks DEF r, s

LEMMA CrashMaps ==
  ASSUME TypeInv, ClientsInv, Crash
  PROVE  [Registry!Next]_(Registry!vars)
<1>1. doing # None /\ doing' = None /\ disk' = disk /\ report' = report
  BY DEF Crash, Ended, history
<1>2. CASE wreck' = "damaged"
  BY <1>1, <1>2, LosesSight
<1>3. CASE wreck' # "damaged" /\ Harmless
  <2>1. wreck' = wreck /\ disk = doing.before
    BY <1>3 DEF Crash, Harmless
  <2>2. Seen' = Seen
    BY <1>1, <2>1 DEF Seen
  <2> QED BY <1>1, <2>2, StaysAsItIs
<1>4. CASE wreck' # "damaged" /\ ~Harmless
  <2>1. doing.op = "expire" /\ wreck # "damaged"
    BY <1>4 DEF Crash, Note
  <2>2. /\ disk.config = doing.before.config
        /\ \A m \in Names : disk.meta[m] \in {doing.before.meta[m], Marking(doing.before.meta, doing.now)[m]}
    BY <1>1, <2>1 DEF ClientsInv, Target
  <2>3. Seen = View(doing.before) /\ Seen' = View(disk)
    BY <1>1, <1>4, <2>1 DEF Seen
  <2>4. Registry!Marks
    BY <1>1, <2>2, <2>3, FilesTyped, MarkingSeen
  <2> QED BY <1>1, <2>4 DEF Registry!Next, Registry!Interrupted
<1> QED BY <1>2, <1>3, <1>4

-----------------------------------------------------------------------------
(* A command ends: what it reports is what is seen to have changed *)

EndsInv == TypeInv /\ BeforeInv /\ ClientsInv /\ TextInv /\ LinkInv /\ SwapInv /\ GoneInv /\ Nameless
AtEnd(op) == doing # None /\ doing.op = op /\ todo = <<>> /\ doing' = None /\ disk' = disk

LEMMA EndNow ==
  ASSUME TypeInv, todo = <<>>
  PROVE  Now = "end"
  BY DEF Now, HeadOr

LEMMA EndSeen ==
  ASSUME EndsInv, NEW op, AtEnd(op), wreck # "damaged", wreck' # "damaged"
  PROVE  /\ Seen = View(doing.before) /\ Seen' = View(disk)
         /\ disk \in Disks /\ doing.before \in Disks /\ Now = "end"
         /\ View(doing.before) \in Registries /\ View(disk) \in Registries
         /\ View(doing.before).config = doing.before.config /\ View(disk).config = disk.config
<1>1. disk \in Disks /\ doing.before \in Disks
  BY FilesTyped DEF EndsInv, AtEnd
<1>2. Now = "end"
  BY EndNow DEF EndsInv, AtEnd
<1> QED BY <1>1, <1>2, ViewFields DEF Seen, AtEnd

LEMMA SetupSeen ==
  ASSUME EndsInv, NEW op \in {"initialize", "migrate"}, AtEnd(op), wreck # "damaged", wreck' # "damaged",
         Telling(op, doing.name, ~doing.back)
  PROVE  Registry!Next
<1> DEFINE b == doing.before
           n == doing.name
           r == doing.record
<1>1. /\ Seen = View(b) /\ Seen' = View(disk) /\ disk \in Disks /\ b \in Disks /\ Now = "end"
      /\ View(b) \in Registries /\ View(disk) \in Registries
      /\ View(b).config = b.config /\ View(disk).config = disk.config
  BY EndSeen
<1>2. n \in Names /\ r \in Records /\ doing.goal \in Configs /\ b.config = None /\ doing.back \in BOOLEAN
  BY FilesTyped DEF EndsInv, AtEnd, TypeInv, CallInv, Making, BeforeInv
<1>3. \A m \in Names : b.meta[m] = None /\ b.keys[m] = None
  BY <1>2 DEF EndsInv, AtEnd, BeforeInv, Sane, Bare
<1>4. CASE doing.back
  <2>1. disk.config = None /\ Bare(disk)
    BY <1>4, SetupEnds DEF EndsInv, AtEnd
  <2>2. View(b) = View(disk)
    BY <1>1, <1>2, <1>3, <2>1, SeenAlike DEF Bare
  <2>3. op \in Ops /\ Telling(op, n, FALSE)
    BY <1>4 DEF Telling, Ops
  <2> QED BY <1>1, <1>2, <2>2, <2>3, ReportsFailure
<1>5. CASE ~doing.back
  <2>1. disk.config = doing.goal /\ \A m \in Names \ {n} : disk.meta[m] = b.meta[m]
    BY <1>1, <1>5 DEF EndsInv, AtEnd, ClientsInv
  <2>2. disk.meta[n] = r
    BY <1>1, <1>5 DEF EndsInv, AtEnd, ClientsInv, Making, MakingInv, Own
  <2>3. \A m \in Names : m \in Described(disk.meta) <=> m = n
    BY <1>2, <1>3, <2>1, <2>2, NoneAssumption DEF Described, NoneAssumption
  <2>4. \A m \in Names : View(disk).clients[m] # None <=> m = n
    BY <1>1, <2>3, ViewFields
  <2>5. View(b).config = None /\ View(disk).config # None
    BY <1>1, <1>2, <2>1, NoneAssumption DEF NoneAssumption
  <2>6. Telling(op, n, TRUE)
    BY <1>5 DEF Telling
  <2> QED BY <1>1, <1>2, <2>4, <2>5, <2>6, ReportsFirst
<1> QED BY <1>2, <1>4, <1>5

(* The commands on one client that are already there or end with a failure. *)
LEMMA OneSeen ==
  ASSUME EndsInv, NEW op \in {"add", "import", "rotate", "revoke"}, AtEnd(op),
         wreck # "damaged", wreck' # "damaged"
  PROVE  /\ Changes(View(doing.before), View(disk), doing.name)
         /\ doing.back => Seen' = Seen
<1> DEFINE b == doing.before
           n == doing.name
<1>1. /\ Seen = View(b) /\ Seen' = View(disk) /\ disk \in Disks /\ b \in Disks /\ Now = "end"
      /\ View(b) \in Registries /\ View(disk) \in Registries
      /\ View(b).config = b.config /\ View(disk).config = disk.config
  BY EndSeen
<1>2. n \in Names /\ doing.back \in BOOLEAN
  BY FilesTyped DEF EndsInv, AtEnd, TypeInv, CallInv, Making
<1>3. disk.config = b.config /\ \A m \in Names \ {n} : disk.meta[m] = b.meta[m]
  BY DEF EndsInv, AtEnd, ClientsInv
<1>4. \A m \in Names \ {n} : View(disk).clients[m] = View(b).clients[m]
  BY <1>3 DEF View, Described
<1>5. ASSUME doing.back PROVE Seen' = Seen
  <2>1. CASE op = "revoke"
    <3>1. disk.meta[n] = b.meta[n]
      BY <1>5, <2>1 DEF EndsInv, AtEnd, ClientsInv, Own
    <3> QED BY <1>1, <1>3, <3>1, SeenAlike
  <2>2. CASE op \in {"add", "import", "rotate"}
    <3>1. disk.meta[n] = b.meta[n]
      BY <1>1, <1>5, <2>2 DEF EndsInv, AtEnd, ClientsInv, Making, MakingInv, Own
    <3> QED BY <1>1, <1>3, <3>1, SeenAlike
  <2> QED BY <2>1, <2>2
<1> QED BY <1>1, <1>2, <1>3, <1>4, <1>5 DEF Changes

LEMMA ClientSeen ==
  ASSUME EndsInv, NEW op \in {"add", "import", "rotate", "revoke"}, AtEnd(op),
         wreck # "damaged", wreck' # "damaged", Telling(op, doing.name, ~doing.back)
  PROVE  Registry!Next
<1> DEFINE b == doing.before
           n == doing.name
           r == doing.record
           c == View(b).clients[n]
           e == View(disk).clients[n]
<1>1. Changes(View(b), View(disk), n) /\ (doing.back => Seen' = Seen)
  BY OneSeen
<1>2. disk \in Disks /\ b \in Disks /\ Now = "end" /\ View(disk) \in Registries /\ doing.back \in BOOLEAN
      /\ doing.name \in Names
  BY EndSeen, FilesTyped, <1>1 DEF EndsInv, AtEnd, Changes
<1>3. CASE doing.back
  <2>1. op \in Ops /\ Telling(op, n, FALSE)
    BY <1>3 DEF Telling, Ops
  <2> QED BY <1>1, <1>2, <1>3, <2>1, ReportsFailure
<1>4. CASE ~doing.back /\ op = "revoke"
  <2>1. disk.meta[n] = None
    BY <1>2, <1>4 DEF EndsInv, AtEnd, ClientsInv, Own
  <2>2. e = None
    BY <1>2, <2>1, ViewFields DEF Described
  <2>3. Telling("revoke", n, TRUE)
    BY <1>4 DEF Telling
  <2> HIDE DEF n
  <2> QED BY <1>1, <2>2, <2>3, ReportsRevoke
<1>5. CASE ~doing.back /\ op \in {"add", "import", "rotate"}
  <2>1. disk.meta[n] = r /\ r \in Records
    BY <1>2, <1>5 DEF EndsInv, AtEnd, ClientsInv, Making, MakingInv, Own, TypeInv, CallInv
  <2>2. n \in Described(disk.meta)
    BY <1>2, <2>1, NoneAssumption DEF Described, NoneAssumption
  <2>3. /\ e \in Registered /\ e.key = r.key /\ e.addr = r.addr /\ e.state = r.state
        /\ e.expires = r.expires /\ e.managed = r.managed
    BY <1>2, <2>1, <2>2, ViewFields
  <2>4. CASE op = "add"
    <3>1. b.meta[n] = None /\ r.state = "active"
      BY <2>4 DEF EndsInv, AtEnd, BeforeInv, NewRecord
    <3>2. c = None
      BY <1>2, <3>1, ViewFields DEF Described
    <3>3. Loadable(disk)
      BY <1>5, <2>4, MakingEnds DEF EndsInv, AtEnd, Restful, Ready
    <3>4. Registry!Sound(View(disk)) /\ Telling("add", n, TRUE)
      BY <1>2, <1>5, <2>4, <3>3, LoadedSound DEF Telling
    <3> HIDE DEF n, b
    <3> QED BY <1>1, <2>3, <3>1, <3>2, <3>4, ReportsAdd
  <2>5. CASE op \in {"import", "rotate"}
    <3>1. n \in Described(b.meta)
      BY <2>5 DEF EndsInv, AtEnd, TypeInv, CallInv
    <3>2. /\ c \in Registered /\ c # None
          /\ c.key = b.meta[n].key /\ c.addr = b.meta[n].addr /\ c.state = b.meta[n].state
          /\ c.expires = b.meta[n].expires /\ c.managed = b.meta[n].managed
      BY <1>2, <3>1, ViewFields
    <3>3. CASE op = "import"
      <4>1. /\ r.key = b.meta[n].key /\ r.addr = b.meta[n].addr /\ r.expires = b.meta[n].expires
            /\ r.state = "active" /\ r.managed /\ b.meta[n].state = "active"
        BY <3>3 DEF EndsInv, AtEnd, BeforeInv, NewRecord
      <4>2. e = [c EXCEPT !.managed = TRUE]
        <5> HIDE DEF c, e, r, b
        <5>1. /\ e.key = c.key /\ e.addr = c.addr /\ e.expires = c.expires /\ e.state = c.state /\ e.managed = TRUE
          BY <2>3, <3>2, <4>1 DEF Registered
        <5> QED BY <2>3, <3>2, <5>1 DEF Registered
      <4>3. Telling("import", n, TRUE)
        BY <1>5, <3>3 DEF Telling
      <4> HIDE DEF n, b
      <4> QED BY <1>1, <3>2, <4>2, <4>3, ReportsImport
    <3>4. CASE op = "rotate"
      <4>1. /\ b.meta[n].managed /\ ~Keyed(b.meta, r.key)
            /\ r.addr = b.meta[n].addr /\ r.expires = b.meta[n].expires
            /\ r.state = "active" /\ r.managed
        BY <3>4 DEF EndsInv, AtEnd, BeforeInv, NewRecord
      <4>2. \A m \in Names : View(b).clients[m] # None => View(b).clients[m].key # r.key
        BY <1>2, <4>1, ViewFields DEF Keyed
      <4>3. e = [c EXCEPT !.key = e.key, !.state = "active"]
        <5> HIDE DEF c, e, r, b
        <5>1. /\ e.addr = c.addr /\ e.expires = c.expires /\ e.state = "active" /\ e.managed = c.managed
          BY <2>3, <3>2, <4>1 DEF Registered
        <5> QED BY <2>3, <3>2, <5>1 DEF Registered
      <4>4. Telling("rotate", n, TRUE)
        BY <1>5, <3>4 DEF Telling
      <4>5. e.key # c.key /\ \A m \in Names \ {n} : View(b).clients[m] # None => View(b).clients[m].key # e.key
        BY <1>2, <2>3, <3>2, <4>2
      <4>6. Rekeyed(View(b), View(disk), n)
        BY <3>2, <4>3, <4>5 DEF Rekeyed
      <4> HIDE DEF n, b
      <4> QED BY <1>1, <4>4, <4>6, ReportsRotate
    <3> QED BY <2>5, <3>3, <3>4
  <2> QED BY <1>5, <2>4, <2>5
<1> QED BY <1>2, <1>3, <1>4, <1>5

LEMMA SettingSeen ==
  ASSUME EndsInv, NEW op \in {"endpoint", "port"}, AtEnd(op), wreck # "damaged", wreck' # "damaged",
         Telling(op, doing.name, ~doing.back)
  PROVE  Registry!Next
<1> DEFINE b == doing.before
           goal == doing.goal
<1>1. /\ Seen = View(b) /\ Seen' = View(disk) /\ disk \in Disks /\ b \in Disks /\ Now = "end"
      /\ View(b) \in Registries /\ View(disk) \in Registries
      /\ View(b).config = b.config /\ View(disk).config = disk.config
  BY EndSeen
<1>2. /\ doing.name = None /\ doing.back \in BOOLEAN /\ goal \in Configs /\ b.meta \in Metas
      /\ goal = [b.config EXCEPT ![op] = 1 - @]
  BY FilesTyped DEF EndsInv, AtEnd, Nameless, TypeInv, CallInv, BeforeInv
<1>3. CASE doing.back
  <2>1. disk.config = b.config /\ disk.meta = b.meta
    BY <1>1, <1>3 DEF EndsInv, AtEnd, ClientsInv
  <2>2. View(b) = View(disk)
    BY <1>1, <2>1, SeenAlike
  <2>3. op \in Ops /\ Telling(op, None, FALSE)
    BY <1>2, <1>3 DEF Telling, Ops
  <2> QED BY <1>1, <2>2, <2>3, ReportsFailure
<1>4. CASE ~doing.back
  <2>1. disk.config = goal /\ disk.meta = Profiling(b.meta, goal)
    BY <1>1, <1>4 DEF EndsInv, AtEnd, ClientsInv, Target
  <2> DEFINE p == Profiling(b.meta, goal)
  <2>2. \A m \in Names : p[m] = IF m \in Described(b.meta) /\ b.meta[m].managed
                                THEN [b.meta[m] EXCEPT !.profile = goal] ELSE b.meta[m]
    BY DEF Profiling
  <2>3. p \in Metas
    BY <1>2, ProfilingTyped
  <2>4. \A m \in Described(b.meta) : b.meta[m] \in Records
    BY <1>2, DescribedRecords
  <2>5. disk.meta = p
    BY <2>1
  <2> HIDE DEF p
  <2>6. \A m \in Described(b.meta) :
          /\ m \in Names /\ p[m] \in Records /\ p[m] \notin {None, Partial}
          /\ p[m].key = b.meta[m].key /\ p[m].addr = b.meta[m].addr /\ p[m].state = b.meta[m].state
          /\ p[m].expires = b.meta[m].expires /\ p[m].managed = b.meta[m].managed
    <3> SUFFICES ASSUME NEW m \in Described(b.meta)
                 PROVE  /\ m \in Names /\ p[m] \in Records /\ p[m] \notin {None, Partial}
                        /\ p[m].key = b.meta[m].key /\ p[m].addr = b.meta[m].addr
                        /\ p[m].state = b.meta[m].state
                        /\ p[m].expires = b.meta[m].expires /\ p[m].managed = b.meta[m].managed
      OBVIOUS
    <3>1. m \in Names /\ b.meta[m] \in Records
      BY <2>4 DEF Described
    <3>2. p[m] = b.meta[m] \/ p[m] = [b.meta[m] EXCEPT !.profile = goal]
      BY <2>2, <3>1
    <3>3. p[m] \in Records
      BY <1>2, <3>1, <3>2 DEF Records
    <3>4. /\ p[m].key = b.meta[m].key /\ p[m].addr = b.meta[m].addr /\ p[m].state = b.meta[m].state
          /\ p[m].expires = b.meta[m].expires /\ p[m].managed = b.meta[m].managed
      BY <3>1, <3>2 DEF Records
    <3> QED BY <3>1, <3>3, <3>4, NoneAssumption DEF NoneAssumption
  <2>7. \A m \in Names : m \in Described(disk.meta) <=> m \in Described(b.meta)
    <3>1. \A m \in Names : m \notin Described(b.meta) => p[m] = b.meta[m]
      BY <2>2
    <3> QED BY <2>5, <2>6, <3>1 DEF Described
  <2>8. \A m \in Names : View(disk).clients[m] = View(b).clients[m]
    <3> SUFFICES ASSUME NEW m \in Names PROVE View(disk).clients[m] = View(b).clients[m]
      OBVIOUS
    <3>1. CASE m \notin Described(b.meta)
      BY <1>1, <2>7, <3>1, ViewFields
    <3>2. CASE m \in Described(b.meta)
      <4> DEFINE c == View(b).clients[m]
                 e == View(disk).clients[m]
      <4>1. /\ c \in Registered /\ c.key = b.meta[m].key /\ c.addr = b.meta[m].addr
            /\ c.state = b.meta[m].state /\ c.expires = b.meta[m].expires /\ c.managed = b.meta[m].managed
        BY <1>1, <3>2, ViewFields
      <4>2. /\ e \in Registered /\ e.key = p[m].key /\ e.addr = p[m].addr
            /\ e.state = p[m].state /\ e.expires = p[m].expires /\ e.managed = p[m].managed
        BY <1>1, <2>5, <2>7, <3>2, ViewFields
      <4>3. c = e
        BY <2>6, <3>2, <4>1, <4>2, SameRegistered
      <4> QED BY <4>3
    <3> QED BY <3>1, <3>2
  <2>9. View(disk).config = [View(b).config EXCEPT ![op] = 1 - @] /\ Telling(op, None, TRUE)
    BY <1>1, <1>2, <1>4, <2>1 DEF Telling
  <2>10. Configured(View(b), View(disk), op)
    BY <2>8, <2>9 DEF Configured
  <2> QED BY <1>1, <2>9, <2>10, ReportsConfigure
<1> QED BY <1>2, <1>3, <1>4

LEMMA ExpirySeen ==
  ASSUME EndsInv, AtEnd("expire"), wreck # "damaged", wreck' # "damaged",
         Telling("expire", doing.name, ~doing.back)
  PROVE  Registry!Next
<1>1. /\ Seen = View(doing.before) /\ Seen' = View(disk) /\ disk \in Disks /\ doing.before \in Disks
  BY EndSeen
<1>2. doing.name = None /\ doing.back \in BOOLEAN
  BY FilesTyped DEF EndsInv, AtEnd, Nameless
<1>3. /\ disk.config = doing.before.config
      /\ \A m \in Names : disk.meta[m] \in {doing.before.meta[m], Marking(doing.before.meta, doing.now)[m]}
  BY DEF EndsInv, AtEnd, ClientsInv, Target
<1>4. Registry!Marks
  BY <1>1, <1>3, MarkingSeen
<1>5. \E ok \in BOOLEAN : Telling("expire", None, ok)
  BY <1>2
<1>6. Registry!Expire
  BY <1>4, <1>5 DEF Telling, Registry!Expire, Registry!Said
<1> QED BY <1>6 DEF Registry!Next

(* A restore that reports success also ends the damage there may have been. *)
LEMMA RestoreSeen ==
  ASSUME EndsInv, AtEnd("restore"), Telling("restore", doing.name, ~doing.back),
         wreck' = IF ~doing.back THEN "none" ELSE wreck
  PROVE  Registry!Next
<1>1. /\ ~doing.back => Restful("none")
      /\ doing.back => disk = doing.before
  BY RestoreEnds DEF EndsInv, AtEnd
<1>2. doing.name = None /\ doing.back \in BOOLEAN /\ disk \in Disks
  BY FilesTyped DEF EndsInv, AtEnd, Nameless
<1>3. CASE ~doing.back
  <2>1. Seen' = View(disk) /\ View(disk) \in Registries
    BY <1>2, <1>3, ViewFields DEF AtEnd, Seen
  <2>2. Registry!Sound(View(disk))
    BY <1>1, <1>2, <1>3, LoadedSound DEF Restful, Ready
  <2>3. Telling("restore", None, TRUE)
    BY <1>2, <1>3 DEF Telling
  <2> QED BY <2>1, <2>2, <2>3, ReportsRestore
<1>4. CASE doing.back /\ wreck = "damaged"
  <2>1. wreck' = "damaged"
    BY <1>4
  <2> QED BY <1>4, <2>1, ReportsBlindly
<1>5. CASE doing.back /\ wreck # "damaged"
  <2>1. Seen' = Seen
    BY <1>1, <1>5 DEF AtEnd, Seen
  <2>2. "restore" \in Ops /\ Telling("restore", None, FALSE)
    BY <1>2, <1>5 DEF Telling, Ops
  <2> QED BY <2>1, <2>2, ReportsFailure
<1> QED BY <1>2, <1>3, <1>4, <1>5

LEMMA FinishMaps ==
  ASSUME EndsInv, Finish
  PROVE  [Registry!Next]_(Registry!vars)
<1>1. /\ doing # None /\ doing.op \in Ops /\ AtEnd(doing.op) /\ Telling(doing.op, doing.name, ~doing.back)
      /\ wreck' = IF ~doing.back /\ (doing.op = "restore" \/ (doing.op = "expire" /\ wreck = "retry"))
                  THEN "none" ELSE wreck
  BY FilesTyped DEF EndsInv, Finish, Ended, AtEnd, Telling
<1>2. CASE doing.op = "restore"
  BY <1>1, <1>2, RestoreSeen
<1>3. CASE doing.op # "restore" /\ wreck = "damaged"
  <2>1. wreck' = "damaged"
    BY <1>1, <1>3
  <2> QED BY <1>3, <2>1, ReportsBlindly
<1>4. CASE doing.op # "restore" /\ wreck # "damaged"
  <2>1. wreck' # "damaged"
    BY <1>1, <1>4
  <2>2. Registry!Next
    <3>1. CASE doing.op \in {"initialize", "migrate"}
      BY <1>1, <1>4, <2>1, <3>1, SetupSeen
    <3>2. CASE doing.op \in {"add", "import", "rotate", "revoke"}
      BY <1>1, <1>4, <2>1, <3>2, ClientSeen
    <3>3. CASE doing.op \in {"endpoint", "port"}
      BY <1>1, <1>4, <2>1, <3>3, SettingSeen
    <3>4. CASE doing.op = "expire"
      BY <1>1, <1>4, <2>1, <3>4, ExpirySeen
    <3> QED BY <1>1, <1>4, <3>1, <3>2, <3>3, <3>4 DEF Ops
  <2> QED BY <2>2
<1> QED BY <1>2, <1>3, <1>4

-----------------------------------------------------------------------------
(* The edit of a date, what happens outside the commands, and the beginning *)

LEMMA EditMaps ==
  ASSUME TypeInv, NEW n \in Names, NEW date \in Dates(n), Edit(n, date)
  PROVE  [Registry!Next]_(Registry!vars)
<1> DEFINE r == [disk.meta[n] EXCEPT !.expires = date]
<1>1. /\ doing = None /\ doing' = None /\ NoDrift /\ n \in Described(disk.meta)
      /\ disk' = [disk EXCEPT !.meta[n].expires = date] /\ Telling("edit", n, TRUE)
  BY DEF Edit, running, Telling
<1>2. CASE wreck = "damaged"
  <2>1. wreck' = "damaged"
    BY <1>2 DEF Edit, Note
  <2> QED BY <1>2, <2>1, ReportsBlindly
<1>3. CASE wreck # "damaged"
  <2>1. wreck' # "damaged"
    BY <1>3 DEF Edit, Note
  <2>2. disk \in Disks /\ disk.meta \in Metas /\ disk.meta[n] \in Records
    BY <1>1, FilesTyped, DescribedRecords
  <2>3. date \in {None} \cup 1..MaxDay
    BY DEF Dates
  <2>4. r \in Records /\ r \notin {None, Partial}
        /\ r.key = disk.meta[n].key /\ r.addr = disk.meta[n].addr /\ r.state = disk.meta[n].state
        /\ r.managed = disk.meta[n].managed
    BY <2>2, <2>3, NoneAssumption DEF Records, NoneAssumption
  <2>5. /\ disk' \in Disks /\ disk'.config = disk.config
        /\ disk'.meta[n] = r /\ \A m \in Names \ {n} : disk'.meta[m] = disk.meta[m]
    BY <1>1, <2>2, <2>4 DEF Disks, Metas
  <2> HIDE DEF r
  <2> DEFINE d == disk'
             c == View(disk).clients[n]
             e == View(d).clients[n]
  <2>6. d \in Disks /\ d.config = disk.config /\ d.meta[n] = r /\ \A m \in Names \ {n} : d.meta[m] = disk.meta[m]
    BY <2>5
  <2>7. Seen = View(disk) /\ Seen' = View(d)
    BY <1>1, <1>3, <2>1 DEF Seen
  <2> HIDE DEF d
  <2>8. n \in Described(d.meta)
    BY <2>4, <2>6 DEF Described
  <2>9. /\ View(disk) \in Registries /\ View(d) \in Registries /\ View(d).config = View(disk).config
    BY <2>2, <2>6, ViewFields
  <2>10. \A m \in Names \ {n} : View(d).clients[m] = View(disk).clients[m]
    BY <2>6 DEF View, Described
  <2>11. Changes(View(disk), View(d), n)
    BY <2>7, <2>9, <2>10 DEF Changes
  <2>12. /\ c \in Registered /\ c # None /\ e \in Registered
         /\ e.key = c.key /\ e.addr = c.addr /\ e.state = c.state /\ e.managed = c.managed
    BY <1>1, <2>2, <2>4, <2>6, <2>8, ViewFields
  <2> HIDE DEF c, e
  <2>13. e = [c EXCEPT !.expires = e.expires]
    BY <2>12 DEF Registered
  <2>14. Registry!Next
    BY <1>1, <2>11, <2>12, <2>13, ReportsEdit DEF c, e
  <2> QED BY <2>14
<1> QED BY <1>2, <1>3

LEMMA OutsideMaps ==
  ASSUME Backup \/ Reboot \/ ServiceStart \/ ServiceStop \/ Midnight \/ UNCHANGED vars
  PROVE  [Registry!Next]_(Registry!vars)
<1>1. UNCHANGED <<disk, doing, wreck, report>>
  BY DEF Backup, Reboot, ServiceStart, ServiceStop, Idle, Midnight, vars, running, history
<1>2. Seen' = Seen
  BY <1>1 DEF Seen
<1> QED BY <1>1, <1>2, StaysAsItIs

LEMMA NextNameless ==
  ASSUME TypeInv, Nameless, [Next]_vars
  PROVE  Nameless'
<1>1. CASE Going
  BY <1>1, GoingFrame DEF Frame, Nameless
<1>2. CASE Finish \/ Crash
  BY <1>2 DEF Finish, Crash, Ended, Nameless
<1>3. CASE \/ \E n \in Names :
                \/ Initialize(n) \/ Migrate(n) \/ Revoke(n) \/ Rotate(n)
                \/ \E date \in Dates(n) : Add(n, date)
                \/ \E profile \in {None, disk.config} : Import(n, profile)
           \/ \E field \in {"endpoint", "port"} : Configure(field)
           \/ Expire \/ Restore
  BY <1>3, BeginMaps
<1>4. CASE \/ \E n \in Names : \E date \in Dates(n) : Edit(n, date)
           \/ Backup \/ Reboot \/ ServiceStart \/ ServiceStop \/ Midnight \/ UNCHANGED vars
  <2>1. doing' = doing
    BY <1>4 DEF Edit, Backup, Reboot, ServiceStart, ServiceStop, Idle, Midnight, vars, running
  <2> QED BY <2>1 DEF Nameless
<1> QED BY <1>1, <1>2, <1>3, <1>4 DEF Next, Step, Going

LEMMA NextMaps ==
  ASSUME Inv, FilesInv, Nameless, [Next]_vars
  PROVE  [Registry!Next]_(Registry!vars)
<1>1. TypeInv /\ ClientsInv /\ EndsInv
  BY DEF Inv, FilesInv, EndsInv
<1>2. CASE Going
  BY <1>1, <1>2, GoingMaps
<1>3. CASE Finish
  BY <1>1, <1>3, FinishMaps
<1>4. CASE Crash
  BY <1>1, <1>4, CrashMaps
<1>5. CASE \/ \E n \in Names :
                \/ Initialize(n) \/ Migrate(n) \/ Revoke(n) \/ Rotate(n)
                \/ \E date \in Dates(n) : Add(n, date)
                \/ \E profile \in {None, disk.config} : Import(n, profile)
           \/ \E field \in {"endpoint", "port"} : Configure(field)
           \/ Expire \/ Restore
  BY <1>1, <1>5, BeginMaps
<1>6. CASE \E n \in Names : \E date \in Dates(n) : Edit(n, date)
  BY <1>1, <1>6, EditMaps
<1>7. CASE Backup \/ Reboot \/ ServiceStart \/ ServiceStop \/ Midnight \/ UNCHANGED vars
  BY <1>7, OutsideMaps
<1> QED BY <1>2, <1>3, <1>4, <1>5, <1>6, <1>7 DEF Next, Step, Going

LEMMA InitMaps ==
  ASSUME Init
  PROVE  Registry!Init
<1>1. doing = None /\ wreck = "none" /\ report = None
  BY DEF Init
<1>2. TypeInv
  BY InitInv DEF Inv
<1>3. disk \in Disks
  BY <1>2, FilesTyped
<1>4. \A m, n \in Described(disk.meta) : m = n
  BY NoneAssumption DEF Init, Nothing, Described, NoneAssumption
<1>5. Seen = View(disk) /\ Seen # Partial /\ Registry!Sound(View(disk))
  BY <1>1, <1>3, <1>4, ViewFields, SeenSound DEF Seen
<1> QED BY <1>1, <1>5 DEF Seen, Registry!Init

(* Every command on clients and settings is atomic as its exit status tells it: *)
(* success made exactly its own change, failure none, whatever failed on the    *)
(* way and however it was taken back; only a crash or a compensation that could *)
(* not be verified may leave files nothing is promised of, until a restore.     *)
THEOREM ImplementsRegistry == Spec => Implements
<1>1. Init => FilesInv /\ Nameless /\ Registry!Init
  <2>1. Init => Nameless
    BY DEF Init, Nameless
  <2> QED BY <2>1, InitFiles, InitMaps
<1>2. Inv /\ FilesInv /\ Nameless /\ [Next]_vars => FilesInv' /\ Nameless'
  BY NextFiles, NextNameless DEF Inv
<1>3. Inv /\ FilesInv /\ Nameless /\ [Next]_vars => [Registry!Next]_(Registry!vars)
  BY NextMaps
<1> QED BY <1>1, <1>2, <1>3, SpecInv, PTL DEF Spec, Implements, Registry!Spec
=============================================================================
