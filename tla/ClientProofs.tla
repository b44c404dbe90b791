----------------------------- MODULE ClientProofs -----------------------------
(***************************************************************************)
(* Two invariants of ClientState for any number of clients, commands, days *)
(* and troubles: every value keeps to its type (TypeCorrect), and a key    *)
(* that a command reported as revoked, rotated out or expired is never in  *)
(* the running interface again until a restore (RetiredKeysStayOut).       *)
(*                                                                         *)
(* Neither is inductive.  A command is a sequence of steps in todo, so the *)
(* types need to know which steps may follow which: FlowInv says that todo *)
(* is a path through the steps of its command, forwards (Forward) or back  *)
(* (Backward), and RestoreInv says the same of restore, whose way back has *)
(* the length of its way forth.  The second theorem also needs that keys   *)
(* are numbered as they are minted (MintInv); that no key already retired  *)
(* is in a text the command may still write or in a client it may still    *)
(* render (BarredInv); and that the key about to be retired has left the   *)
(* rendered text, then the runtime file, then the interface, by the time   *)
(* the command ends well (KeptInv, GoneInv).                               *)
(***************************************************************************)
EXTENDS ClientState, SequenceTheorems, FiniteSetTheorems, WellFoundedInduction, TLAPS

-----------------------------------------------------------------------------

(* The step a command takes next, "end" when none is left. *)
HeadOr(s, last) == IF s = <<>> THEN last ELSE s[1]
Now == HeadOr(todo, "end")

(* A sequence of steps is a path: each step and the one after it are an edge of E,
   and the last one leads to last. *)
PathTo(s, E, last) ==
  \A i \in 1..Len(s) : <<s[i], IF i = Len(s) THEN last ELSE s[i + 1]>> \in E

(* commit_server_config, and its compensation once the service acted. *)
Committing == {<<"render", "generated">>, <<"generated", "runtime">>, <<"runtime", "act">>}
Retracting == {<<"oldruntime", "oldgenerated">>, <<"oldgenerated", "again">>}

(* The steps that may follow each other while a command goes well. *)
Forward(op) ==
  CASE op \in {"initialize", "migrate"} ->
         Committing \cup {<<"config", "create">>, <<"create", "describe">>, <<"describe", "render">>,
                          <<"act", "verify">>, <<"verify", "end">>}
    [] op = "add" ->
         Committing \cup {<<"create", "describe">>, <<"describe", "render">>,
                          <<"act", "verify">>, <<"verify", "end">>}
    [] op = "import" ->
         {<<"unclient", "unkeys">>, <<"unkeys", "create">>, <<"create", "describe">>,
          <<"describe", "compare">>, <<"compare", "end">>}
    [] op = "revoke" ->
         Committing \cup {<<"act", "verify">>, <<"verify", "unclient">>, <<"unclient", "unkeys">>,
                          <<"unkeys", "end">>}
    [] op = "rotate" ->
         Committing \cup {<<"unclient", "unkeys">>, <<"unkeys", "create">>, <<"create", "describe">>,
                          <<"describe", "render">>, <<"act", "verify">>, <<"verify", "end">>}
    [] op = "endpoint" ->
         {<<"config", "profiles">>, <<"profiles", "generated">>, <<"generated", "runtime">>,
          <<"runtime", "end">>}
    [] op = "port" ->
         {<<"config", "profiles">>, <<"profiles", "generated">>, <<"generated", "runtime">>,
          <<"runtime", "act">>, <<"act", "end">>}
    [] op = "expire" ->
         Committing \cup {<<"mark", "render">>, <<"act", "check">>, <<"check", "end">>,
                          <<"act", "recheck">>, <<"recheck", "end">>}
    [] OTHER -> {}

(* ... and while it is taken back, from whichever step it failed at. *)
Backward(op) ==
  CASE op = "initialize" ->
         {<<"halt", "unconfigure">>, <<"unconfigure", "unclient">>, <<"unclient", "unkeys">>,
          <<"unkeys", "noruntime">>, <<"noruntime", "end">>}
    [] op = "migrate" ->
         {<<"oldruntime", "again">>, <<"again", "unconfigure">>, <<"unconfigure", "unclient">>,
          <<"unclient", "unkeys">>, <<"unkeys", "end">>}
    [] op = "add" ->
         Committing \cup Retracting \cup
         {<<"again", "render">>, <<"again", "unclient">>, <<"act", "unclient">>,
          <<"unclient", "unkeys">>, <<"unkeys", "end">>}
    [] op = "import" ->
         {<<"unclient", "unkeys">>, <<"unkeys", "reclient">>, <<"reclient", "rekeys">>,
          <<"rekeys", "end">>}
    [] op = "revoke" ->
         Committing \cup Retracting \cup {<<"again", "render">>, <<"again", "end">>, <<"act", "end">>}
    [] op = "rotate" ->
         Committing \cup Retracting \cup
         {<<"again", "render">>, <<"again", "unclient">>, <<"act", "unclient">>,
          <<"unclient", "unkeys">>, <<"unkeys", "reclient">>, <<"reclient", "rekeys">>,
          <<"rekeys", "reactivate">>, <<"reactivate", "end">>}
    [] op \in {"endpoint", "port"} ->
         Retracting \cup {<<"again", "oldconfig">>, <<"oldconfig", "oldmetadata">>,
                          <<"oldmetadata", "end">>}
    [] op = "expire" ->
         Retracting \cup {<<"again", "halt">>, <<"again", "oldmetadata">>, <<"halt", "end">>,
                          <<"oldmetadata", "end">>}
    [] OTHER -> {}

Edges(op, back) == IF back THEN Backward(op) ELSE Forward(op)

(* What is left of a command other than restore is a path to its end. *)
FlowInv == doing # None /\ doing.op # "restore" => PathTo(todo, Edges(doing.op, doing.back), "end")

(* restore_backup_transaction moves the components out and in one by one; what it
   has moved says which step comes next, and how many steps the way back takes. *)
RestoreStep(i) ==
  CASE i \in {1, 3, 5, 7} -> "displace" [] i \in {2, 4, 6, 8} -> "place"
    [] i = 9 -> "runtime" [] i = 10 -> "act" [] OTHER -> "verify"

RestoringForth ==
  /\ Len(todo) \in 0..11
  /\ \A i \in 1..Len(todo) : todo[i] = RestoreStep(11 - Len(todo) + i)
  /\ IF Len(todo) <= 3 THEN doing.displaced = 4 /\ doing.placed = 4
     ELSE /\ doing.displaced + doing.placed = 11 - Len(todo)
          /\ doing.displaced \in {doing.placed, doing.placed + 1}

RestoringBack ==
  LET moved == doing.placed + doing.displaced
  IN  \/ /\ Len(todo) = moved + 2
         /\ \A i \in 1..Len(todo) :
              todo[i] = IF i <= doing.placed THEN "unplace"
                        ELSE IF i <= moved THEN "putback"
                        ELSE IF i = moved + 1 THEN "oldruntime" ELSE "again"
      \/ moved = 0 /\ Len(todo) = 1 /\ todo[1] = "again"
      \/ moved = 0 /\ todo = <<>>

RestoreInv == doing # None /\ doing.op = "restore" =>
  IF doing.back THEN RestoringBack ELSE RestoringForth

(* The commands that write a client's record, and what a command carries. *)
Making == {"initialize", "migrate", "add", "import", "rotate"}

CallInv == doing # None =>
  /\ doing.op \in Making => doing.record \in Records
  /\ doing.op \in Making \cup {"revoke"} => doing.name \in Names
  /\ doing.op \in {"import", "rotate", "revoke"} => doing.name \in Described(doing.before.meta)
  /\ doing.op \in {"initialize", "migrate", "endpoint", "port"} => doing.goal \in Configs
  /\ doing.op = "restore" => backup \in Disks /\ backup # None
  /\ doing.now <= day
  /\ ~doing.active => link = None

(* What the files hold at the steps that read them. *)
PlaceInv == doing # None =>
  /\ doing.op \in {"add", "import", "revoke", "rotate", "expire"} => disk.config \in Configs
  /\ doing.op \in {"initialize", "migrate"} /\ ~doing.back /\ Now # "config" => disk.config \in Configs
  /\ doing.op # "restore" /\ Now \in {"rekeys", "reactivate"} => disk.meta[doing.name] \in Records

(* Keys are numbered in the order they are minted. *)
Numbered(meta) == \A n \in Described(meta) : meta[n].key <= minted

MintInv ==
  /\ retired \subseteq 1..minted
  /\ Numbered(disk.meta)
  /\ backup # None => Numbered(backup.meta)
  /\ doing # None => Numbered(doing.before.meta) /\ (doing.op \in Making => doing.record.key <= minted)
  /\ minted = 0 => disk.runtime = None /\ disk.config = None /\ backup = None /\ doing = None

(* No retired key is in a text, or in a client that day d's clock still serves. *)
Barred(text) == text # None => \A p \in text.peers : p.key \notin retired
Clean(meta, d) == \A n \in Described(meta) : Eligible(meta[n], d) => meta[n].key \notin retired

(* Nothing that may still be written to the runtime file or the interface serves a
   retired key.  The clients of a command are looked at again only while it has
   steps left: the last step of a rotation's way back makes its client active. *)
BarredInv ==
  /\ Barred(disk.runtime) /\ Barred(link)
  /\ doing # None =>
       /\ Barred(doing.text) /\ Barred(doing.prior.runtime)
       /\ doing.op \in Making => doing.record.key \notin retired
       /\ doing.op \notin {"initialize", "migrate", "restore"} /\ todo # <<>> =>
            Clean(disk.meta, doing.now) /\ Clean(doing.before.meta, doing.now)

(* No two clients share a key. *)
Distinct(meta) == \A m, n \in Described(meta) : m # n => meta[m].key # meta[n].key

(* The keys a command retires if it ends well. *)
Leaving ==
  IF doing.op \in {"revoke", "rotate"} THEN {doing.before.meta[doing.name].key}
  ELSE IF doing.op = "expire"
       THEN {doing.before.meta[n].key :
               n \in {m \in Described(doing.before.meta) : Expired(doing.before.meta[m], doing.now)}}
  ELSE {}
Without(text) == text # None => \A p \in text.peers : p.key \notin Leaving

(* Forwards, the clients a command renders are the ones it found, except its own. *)
KeptInv == doing # None /\ ~doing.back =>
  /\ doing.op \in {"revoke", "rotate", "expire"} => Distinct(doing.before.meta)
  /\ doing.op = "revoke" /\ Now = "render" => disk.meta = doing.before.meta
  /\ doing.op = "rotate" =>
       /\ doing.record.key \notin Leaving
       /\ \A m \in Names \ {doing.name} : disk.meta[m] = doing.before.meta[m]
       /\ Now = "render" => disk.meta[doing.name] = doing.record
  /\ doing.op = "expire" =>
       /\ Described(disk.meta) = Described(doing.before.meta)
       /\ \A n \in Described(disk.meta) :
            /\ disk.meta[n].key = doing.before.meta[n].key
            /\ Eligible(disk.meta[n], doing.now) => Eligible(doing.before.meta[n], doing.now)

(* Forwards, the keys leave the rendered text, the runtime file and the interface. *)
GoneInv == doing # None /\ ~doing.back =>
  LET revoking == doing.op = "revoke" /\ Now \in {"unclient", "unkeys"}
  IN  /\ Now \in {"generated", "runtime"} => Without(doing.text)
      /\ Now \in {"act", "verify", "check", "recheck", "end"} \/ revoking => Without(disk.runtime)
      /\ Now = "end" \/ revoking => Without(link)
-----------------------------------------------------------------------------
(* Sequences of steps *)

LEMMA Continued ==
  ASSUME NEW s \in Seq(Steps), s # <<>>, NEW E, NEW last, PathTo(s, E, last)
  PROVE  /\ Tail(s) \in Seq(Steps)
         /\ PathTo(Tail(s), E, last)
         /\ <<Head(s), HeadOr(Tail(s), last)>> \in E
<1> DEFINE t == Tail(s)
<1>1. /\ t \in Seq(Steps) /\ Len(t) = Len(s) - 1 /\ Len(s) \in Nat \ {0}
      /\ \A i \in 1..Len(t) : t[i] = s[i + 1]
  BY HeadTailProperties, EmptySeq, LenProperties
<1>2. /\ Head(s) = s[1] /\ (t = <<>> <=> Len(t) = 0)
  BY <1>1, EmptySeq
<1> HIDE DEF t
<1>3. PathTo(t, E, last)
  <2> SUFFICES ASSUME NEW i \in 1..Len(t)
               PROVE  <<t[i], IF i = Len(t) THEN last ELSE t[i + 1]>> \in E
    BY DEF PathTo
  <2>1. i + 1 \in 1..Len(s)
    BY <1>1
  <2>2. <<s[i + 1], IF i + 1 = Len(s) THEN last ELSE s[i + 1 + 1]>> \in E
    BY <2>1 DEF PathTo
  <2>3. i # Len(t) => t[i + 1] = s[i + 1 + 1]
    BY <1>1
  <2>4. t[i] = s[i + 1] /\ (i + 1 = Len(s) <=> i = Len(t))
    BY <1>1
  <2> QED BY <2>2, <2>3, <2>4
<1>4. <<s[1], IF 1 = Len(s) THEN last ELSE s[1 + 1]>> \in E
  BY <1>1 DEF PathTo
<1>5. HeadOr(t, last) = IF 1 = Len(s) THEN last ELSE s[1 + 1]
  BY <1>1, <1>2 DEF HeadOr
<1> QED BY <1>1, <1>2, <1>3, <1>4, <1>5 DEF t

(* Two paths that meet make one. *)
LEMMA Joined ==
  ASSUME NEW s \in Seq(Steps), NEW t \in Seq(Steps), NEW E, NEW last,
         PathTo(s, E, HeadOr(t, last)), PathTo(t, E, last)
  PROVE  /\ s \o t \in Seq(Steps)
         /\ PathTo(s \o t, E, last)
         /\ HeadOr(s \o t, last) = HeadOr(s, HeadOr(t, last))
<1> DEFINE u == s \o t
<1>1. /\ u \in Seq(Steps) /\ Len(u) = Len(s) + Len(t)
      /\ Len(s) \in Nat /\ Len(t) \in Nat
      /\ \A i \in 1..Len(u) : u[i] = IF i <= Len(s) THEN s[i] ELSE t[i - Len(s)]
  BY ConcatProperties, LenProperties
<1>2. /\ (u = <<>> <=> Len(u) = 0) /\ (s = <<>> <=> Len(s) = 0) /\ (t = <<>> <=> Len(t) = 0)
  BY <1>1, EmptySeq
<1> HIDE DEF u
<1>3. HeadOr(u, last) = HeadOr(s, HeadOr(t, last))
  BY <1>1, <1>2 DEF HeadOr
<1>4. PathTo(u, E, last)
  <2> SUFFICES ASSUME NEW i \in 1..Len(u)
               PROVE  <<u[i], IF i = Len(u) THEN last ELSE u[i + 1]>> \in E
    BY DEF PathTo
  <2>1. CASE i < Len(s)
    <3>1. <<s[i], s[i + 1]>> \in E
      BY <2>1, <1>1 DEF PathTo
    <3> QED BY <2>1, <3>1, <1>1
  <2>2. CASE i = Len(s)
    <3>1. <<s[i], HeadOr(t, last)>> \in E
      BY <2>2, <1>1 DEF PathTo
    <3>2. u[i] = s[i]
      BY <2>2, <1>1
    <3>3. CASE t = <<>>
      BY <2>2, <3>1, <3>2, <3>3, <1>1, <1>2 DEF HeadOr
    <3>4. CASE t # <<>>
      <4>1. u[i + 1] = t[1]
        <5>1. i + 1 \in 1..Len(u) /\ ~(i + 1 <= Len(s)) /\ i + 1 - Len(s) = 1
          BY <2>2, <3>4, <1>1, <1>2
        <5> QED BY <5>1, <1>1
      <4>2. i # Len(u) /\ HeadOr(t, last) = t[1]
        BY <2>2, <3>4, <1>1, <1>2 DEF HeadOr
      <4> QED BY <4>1, <4>2, <3>1, <3>2
    <3> QED BY <3>3, <3>4
  <2>3. CASE i > Len(s)
    <3> DEFINE j == i - Len(s)
    <3>1. j \in 1..Len(t)
      BY <2>3, <1>1
    <3>2. <<t[j], IF j = Len(t) THEN last ELSE t[j + 1]>> \in E
      BY <3>1 DEF PathTo
    <3>3. u[i] = t[j] /\ (i = Len(u) <=> j = Len(t))
      BY <2>3, <1>1
    <3>4. i # Len(u) => u[i + 1] = t[j + 1]
      <4>1. i # Len(u) =>
              i + 1 \in 1..Len(u) /\ ~(i + 1 <= Len(s)) /\ i + 1 - Len(s) = j + 1
        BY <2>3, <1>1
      <4> QED BY <4>1, <1>1
    <3> QED BY <3>2, <3>3, <3>4
  <2> QED BY <2>1, <2>2, <2>3, <1>1
<1> QED BY <1>1, <1>3, <1>4 DEF u

(* The server configuration commit is a path wherever its last step may lead to last. *)
LEMMA CommitPath ==
  ASSUME NEW E, Committing \subseteq E, NEW last, <<"act", last>> \in E
  PROVE  /\ Commit \in Seq(Steps)
         /\ PathTo(Commit, E, last)
         /\ HeadOr(Commit, last) = "render"
<1>1. Commit \in Seq(Steps)
  BY DEF Commit, Steps
<1>2. Commit # <<>> /\ Len(Commit) = 4
  BY DEF Commit
<1>3. Commit[1] = "render" /\ Commit[2] = "generated" /\ Commit[3] = "runtime" /\ Commit[4] = "act"
  BY DEF Commit
<1>4. PathTo(Commit, E, last)
  <2> SUFFICES ASSUME NEW i \in 1..4
               PROVE  <<Commit[i], IF i = 4 THEN last ELSE Commit[i + 1]>> \in E
    BY <1>2 DEF PathTo
  <2>1. i = 1 \/ i = 2 \/ i = 3 \/ i = 4
    OBVIOUS
  <2> QED BY <2>1, <1>3 DEF Committing
<1> QED BY <1>1, <1>2, <1>3, <1>4 DEF HeadOr

(* Short sequences are paths when their edges are there. *)
LEMMA PathOfOne ==
  ASSUME NEW s \in Seq(Steps), NEW E, NEW last, Len(s) = 1,
         <<s[1], last>> \in E
  PROVE  PathTo(s, E, last) /\ HeadOr(s, last) = s[1]
<1>1. s # <<>>
  BY EmptySeq
<1>2. \A i \in 1..1 : i = 1
  OBVIOUS
<1>3. \A i \in 1..1 : <<s[i], IF i = 1 THEN last ELSE s[i + 1]>> \in E
  BY <1>2
<1> QED BY <1>1, <1>3 DEF PathTo, HeadOr

LEMMA PathOfTwo ==
  ASSUME NEW s \in Seq(Steps), NEW E, NEW last, Len(s) = 2,
         <<s[1], s[2]>> \in E, <<s[2], last>> \in E
  PROVE  PathTo(s, E, last) /\ HeadOr(s, last) = s[1]
<1>1. s # <<>>
  BY EmptySeq
<1>2. \A i \in 1..2 : i = 1 \/ i = 2
  OBVIOUS
<1>3. \A i \in 1..2 : <<s[i], IF i = 2 THEN last ELSE s[i + 1]>> \in E
  BY <1>2
<1> QED BY <1>1, <1>3 DEF PathTo, HeadOr

LEMMA PathOfThree ==
  ASSUME NEW s \in Seq(Steps), NEW E, NEW last, Len(s) = 3,
         <<s[1], s[2]>> \in E, <<s[2], s[3]>> \in E, <<s[3], last>> \in E
  PROVE  PathTo(s, E, last) /\ HeadOr(s, last) = s[1]
<1>1. s # <<>>
  <2>1. Len(<<>>) = 0
    BY EmptySeq
  <2> QED BY <2>1
<1>2. ASSUME NEW i \in 1..3
      PROVE  <<s[i], IF i = 3 THEN last ELSE s[i + 1]>> \in E
  <2>1. i = 1 \/ i = 2 \/ i = 3
    OBVIOUS
  <2>2. CASE i = 1
    BY <2>2
  <2>3. CASE i = 2
    BY <2>3
  <2>4. CASE i = 3
    BY <2>4
  <2> QED BY <2>1, <2>2, <2>3, <2>4
<1>3. \A i \in 1..3 : <<s[i], IF i = 3 THEN last ELSE s[i + 1]>> \in E
  BY <1>2
<1> QED BY <1>1, <1>3 DEF PathTo, HeadOr

LEMMA PathOfFour ==
  ASSUME NEW s \in Seq(Steps), NEW E, NEW last, Len(s) = 4,
         <<s[1], s[2]>> \in E, <<s[2], s[3]>> \in E, <<s[3], s[4]>> \in E, <<s[4], last>> \in E
  PROVE  PathTo(s, E, last) /\ HeadOr(s, last) = s[1]
<1>1. s # <<>>
  BY EmptySeq
<1>2. \A i \in 1..4 : i = 1 \/ i = 2 \/ i = 3 \/ i = 4
  OBVIOUS
<1>3. \A i \in 1..4 : <<s[i], IF i = 4 THEN last ELSE s[i + 1]>> \in E
  BY <1>2
<1> QED BY <1>1, <1>3 DEF PathTo, HeadOr

LEMMA PathOfFive ==
  ASSUME NEW s \in Seq(Steps), NEW E, NEW last, Len(s) = 5,
         <<s[1], s[2]>> \in E, <<s[2], s[3]>> \in E, <<s[3], s[4]>> \in E, <<s[4], s[5]>> \in E, <<s[5], last>> \in E
  PROVE  PathTo(s, E, last) /\ HeadOr(s, last) = s[1]
<1>1. s # <<>>
  BY EmptySeq
<1>2. \A i \in 1..5 : i = 1 \/ i = 2 \/ i = 3 \/ i = 4 \/ i = 5
  OBVIOUS
<1>3. \A i \in 1..5 : <<s[i], IF i = 5 THEN last ELSE s[i + 1]>> \in E
  <2> TAKE i \in 1..5
  <2>1. CASE i = 1
    BY <2>1
  <2>2. CASE i = 2
    BY <2>2
  <2>3. CASE i = 3
    BY <2>3
  <2>4. CASE i = 4
    BY <2>4
  <2>5. CASE i = 5
    BY <2>5
  <2> QED BY <1>2, <2>1, <2>2, <2>3, <2>4, <2>5
<1> QED BY <1>1, <1>3 DEF PathTo, HeadOr

(* The step each command begins with. *)
Beginning ==
  [initialize |-> "config", migrate |-> "config", add |-> "create", import |-> "unclient",
   revoke |-> "render", rotate |-> "unclient", endpoint |-> "config", port |-> "config",
   expire |-> "mark"]

(* The program of every command is a path forwards. *)
LEMMA ProgramPath ==
  ASSUME NEW op \in Ops \ {"restore"}
  PROVE  /\ Program(op) \in Seq(Steps)
         /\ PathTo(Program(op), Forward(op), "end")
         /\ HeadOr(Program(op), "end") = Beginning[op]
<1> DEFINE E == Forward(op)
<1>1. CASE op \in {"initialize", "migrate"}
  <2>0. Committing \cup {<<"config", "create">>, <<"create", "describe">>, <<"describe", "render">>, <<"act", "verify">>, <<"verify", "end">>} \subseteq E
    BY <1>1 DEF Forward
  <2> HIDE DEF E
  <2> DEFINE r == <<"config", "create", "describe">>
  <2>1a. /\ r \in Seq(Steps) /\ r # <<>> /\ Len(r) = 3
         /\ r[1] = "config" /\ r[2] = "create" /\ r[3] = "describe"
    BY DEF Steps
  <2> HIDE DEF r
  <2>1. r \in Seq(Steps) /\ PathTo(r, E, "render") /\ HeadOr(r, "render") = "config"
    BY <2>0, <2>1a, PathOfThree
  <2>2. Commit \in Seq(Steps) /\ PathTo(Commit, E, "verify") /\ HeadOr(Commit, "verify") = "render"
    BY <2>0, CommitPath
  <2> DEFINE t == <<"verify">>
  <2>3a. /\ t \in Seq(Steps) /\ t # <<>> /\ Len(t) = 1
         /\ t[1] = "verify"
    BY DEF Steps
  <2> HIDE DEF t
  <2>3. t \in Seq(Steps) /\ PathTo(t, E, "end") /\ HeadOr(t, "end") = "verify"
    BY <2>0, <2>3a, PathOfOne
  <2>4. /\ r \o Commit \in Seq(Steps) /\ PathTo(r \o Commit, E, "verify")
        /\ HeadOr(r \o Commit, "verify") = "config"
    BY <2>1, <2>2, Joined
  <2> DEFINE w == r \o Commit
  <2>5. w \in Seq(Steps) /\ PathTo(w, E, "verify") /\ HeadOr(w, "verify") = "config"
    BY <2>4
  <2> HIDE DEF w
  <2>6. /\ w \o t \in Seq(Steps) /\ PathTo(w \o t, E, "end")
        /\ HeadOr(w \o t, "end") = "config"
    BY <2>5, <2>3, Joined
  <2>7. Program(op) = w \o t
    BY <1>1 DEF Program, r, t, w
  <2> QED BY <1>1, <2>6, <2>7 DEF Beginning, E
<1>2. CASE op = "add"
  <2>0. Committing \cup {<<"create", "describe">>, <<"describe", "render">>, <<"act", "verify">>, <<"verify", "end">>} \subseteq E
    BY <1>2 DEF Forward
  <2> HIDE DEF E
  <2> DEFINE r == <<"create", "describe">>
  <2>1a. /\ r \in Seq(Steps) /\ r # <<>> /\ Len(r) = 2
         /\ r[1] = "create" /\ r[2] = "describe"
    BY DEF Steps
  <2> HIDE DEF r
  <2>1. r \in Seq(Steps) /\ PathTo(r, E, "render") /\ HeadOr(r, "render") = "create"
    BY <2>0, <2>1a, PathOfTwo
  <2>2. Commit \in Seq(Steps) /\ PathTo(Commit, E, "verify") /\ HeadOr(Commit, "verify") = "render"
    BY <2>0, CommitPath
  <2> DEFINE t == <<"verify">>
  <2>3a. /\ t \in Seq(Steps) /\ t # <<>> /\ Len(t) = 1
         /\ t[1] = "verify"
    BY DEF Steps
  <2> HIDE DEF t
  <2>3. t \in Seq(Steps) /\ PathTo(t, E, "end") /\ HeadOr(t, "end") = "verify"
    BY <2>0, <2>3a, PathOfOne
  <2>4. /\ r \o Commit \in Seq(Steps) /\ PathTo(r \o Commit, E, "verify")
        /\ HeadOr(r \o Commit, "verify") = "create"
    BY <2>1, <2>2, Joined
  <2> DEFINE w == r \o Commit
  <2>5. w \in Seq(Steps) /\ PathTo(w, E, "verify") /\ HeadOr(w, "verify") = "create"
    BY <2>4
  <2> HIDE DEF w
  <2>6. /\ w \o t \in Seq(Steps) /\ PathTo(w \o t, E, "end")
        /\ HeadOr(w \o t, "end") = "create"
    BY <2>5, <2>3, Joined
  <2>7. Program(op) = w \o t
    BY <1>2 DEF Program, r, t, w
  <2> QED BY <1>2, <2>6, <2>7 DEF Beginning, E
<1>3. CASE op = "import"
  <2>0. {<<"unclient", "unkeys">>, <<"unkeys", "create">>, <<"create", "describe">>, <<"describe", "compare">>, <<"compare", "end">>} \subseteq E
    BY <1>3 DEF Forward
  <2> HIDE DEF E
  <2> DEFINE r == <<"unclient", "unkeys", "create", "describe", "compare">>
  <2>1a. /\ r \in Seq(Steps) /\ r # <<>> /\ Len(r) = 5
         /\ r[1] = "unclient" /\ r[2] = "unkeys" /\ r[3] = "create" /\ r[4] = "describe" /\ r[5] = "compare"
    BY DEF Steps
  <2> HIDE DEF r
  <2>1. r \in Seq(Steps) /\ PathTo(r, E, "end") /\ HeadOr(r, "end") = "unclient"
    BY <2>0, <2>1a, PathOfFive
  <2>2. Program(op) = r
    BY <1>3 DEF Program, r
  <2> QED BY <1>3, <2>1, <2>2 DEF Beginning, E
<1>4. CASE op = "revoke"
  <2>0. Committing \cup {<<"act", "verify">>, <<"verify", "unclient">>, <<"unclient", "unkeys">>, <<"unkeys", "end">>} \subseteq E
    BY <1>4 DEF Forward
  <2> HIDE DEF E
  <2>1. Commit \in Seq(Steps) /\ PathTo(Commit, E, "verify") /\ HeadOr(Commit, "verify") = "render"
    BY <2>0, CommitPath
  <2> DEFINE s == <<"verify", "unclient", "unkeys">>
  <2>2a. /\ s \in Seq(Steps) /\ s # <<>> /\ Len(s) = 3
         /\ s[1] = "verify" /\ s[2] = "unclient" /\ s[3] = "unkeys"
    BY DEF Steps
  <2> HIDE DEF s
  <2>2. s \in Seq(Steps) /\ PathTo(s, E, "end") /\ HeadOr(s, "end") = "verify"
    BY <2>0, <2>2a, PathOfThree
  <2>3. /\ Commit \o s \in Seq(Steps) /\ PathTo(Commit \o s, E, "end")
        /\ HeadOr(Commit \o s, "end") = "render"
    BY <2>1, <2>2, Joined
  <2>4. Program(op) = Commit \o s
    BY <1>4 DEF Program, s
  <2> QED BY <1>4, <2>3, <2>4 DEF Beginning, E
<1>5. CASE op = "rotate"
  <2>0. Committing \cup {<<"unclient", "unkeys">>, <<"unkeys", "create">>, <<"create", "describe">>, <<"describe", "render">>, <<"act", "verify">>, <<"verify", "end">>} \subseteq E
    BY <1>5 DEF Forward
  <2> HIDE DEF E
  <2> DEFINE r == <<"unclient", "unkeys", "create", "describe">>
  <2>1a. /\ r \in Seq(Steps) /\ r # <<>> /\ Len(r) = 4
         /\ r[1] = "unclient" /\ r[2] = "unkeys" /\ r[3] = "create" /\ r[4] = "describe"
    BY DEF Steps
  <2> HIDE DEF r
  <2>1. r \in Seq(Steps) /\ PathTo(r, E, "render") /\ HeadOr(r, "render") = "unclient"
    BY <2>0, <2>1a, PathOfFour
  <2>2. Commit \in Seq(Steps) /\ PathTo(Commit, E, "verify") /\ HeadOr(Commit, "verify") = "render"
    BY <2>0, CommitPath
  <2> DEFINE t == <<"verify">>
  <2>3a. /\ t \in Seq(Steps) /\ t # <<>> /\ Len(t) = 1
         /\ t[1] = "verify"
    BY DEF Steps
  <2> HIDE DEF t
  <2>3. t \in Seq(Steps) /\ PathTo(t, E, "end") /\ HeadOr(t, "end") = "verify"
    BY <2>0, <2>3a, PathOfOne
  <2>4. /\ r \o Commit \in Seq(Steps) /\ PathTo(r \o Commit, E, "verify")
        /\ HeadOr(r \o Commit, "verify") = "unclient"
    BY <2>1, <2>2, Joined
  <2> DEFINE w == r \o Commit
  <2>5. w \in Seq(Steps) /\ PathTo(w, E, "verify") /\ HeadOr(w, "verify") = "unclient"
    BY <2>4
  <2> HIDE DEF w
  <2>6. /\ w \o t \in Seq(Steps) /\ PathTo(w \o t, E, "end")
        /\ HeadOr(w \o t, "end") = "unclient"
    BY <2>5, <2>3, Joined
  <2>7. Program(op) = w \o t
    BY <1>5 DEF Program, r, t, w
  <2> QED BY <1>5, <2>6, <2>7 DEF Beginning, E
<1>6. CASE op = "endpoint"
  <2>0. {<<"config", "profiles">>, <<"profiles", "generated">>, <<"generated", "runtime">>, <<"runtime", "end">>} \subseteq E
    BY <1>6 DEF Forward
  <2> HIDE DEF E
  <2> DEFINE r == <<"config", "profiles", "generated", "runtime">>
  <2>1a. /\ r \in Seq(Steps) /\ r # <<>> /\ Len(r) = 4
         /\ r[1] = "config" /\ r[2] = "profiles" /\ r[3] = "generated" /\ r[4] = "runtime"
    BY DEF Steps
  <2> HIDE DEF r
  <2>1. r \in Seq(Steps) /\ PathTo(r, E, "end") /\ HeadOr(r, "end") = "config"
    BY <2>0, <2>1a, PathOfFour
  <2>2. Program(op) = r
    BY <1>6 DEF Program, r
  <2> QED BY <1>6, <2>1, <2>2 DEF Beginning, E
<1>7. CASE op = "port"
  <2>0. {<<"config", "profiles">>, <<"profiles", "generated">>, <<"generated", "runtime">>, <<"runtime", "act">>, <<"act", "end">>} \subseteq E
    BY <1>7 DEF Forward
  <2> HIDE DEF E
  <2> DEFINE r == <<"config", "profiles", "generated", "runtime", "act">>
  <2>1a. /\ r \in Seq(Steps) /\ r # <<>> /\ Len(r) = 5
         /\ r[1] = "config" /\ r[2] = "profiles" /\ r[3] = "generated" /\ r[4] = "runtime" /\ r[5] = "act"
    BY DEF Steps
  <2> HIDE DEF r
  <2>1. r \in Seq(Steps) /\ PathTo(r, E, "end") /\ HeadOr(r, "end") = "config"
    BY <2>0, <2>1a, PathOfFive
  <2>2. Program(op) = r
    BY <1>7 DEF Program, r
  <2> QED BY <1>7, <2>1, <2>2 DEF Beginning, E
<1>8. CASE op = "expire"
  <2>0. Committing \cup {<<"mark", "render">>, <<"act", "check">>, <<"check", "end">>} \subseteq E
    BY <1>8 DEF Forward
  <2> HIDE DEF E
  <2> DEFINE r == <<"mark">>
  <2>1a. /\ r \in Seq(Steps) /\ r # <<>> /\ Len(r) = 1
         /\ r[1] = "mark"
    BY DEF Steps
  <2> HIDE DEF r
  <2>1. r \in Seq(Steps) /\ PathTo(r, E, "render") /\ HeadOr(r, "render") = "mark"
    BY <2>0, <2>1a, PathOfOne
  <2>2. Commit \in Seq(Steps) /\ PathTo(Commit, E, "check") /\ HeadOr(Commit, "check") = "render"
    BY <2>0, CommitPath
  <2> DEFINE t == <<"check">>
  <2>3a. /\ t \in Seq(Steps) /\ t # <<>> /\ Len(t) = 1
         /\ t[1] = "check"
    BY DEF Steps
  <2> HIDE DEF t
  <2>3. t \in Seq(Steps) /\ PathTo(t, E, "end") /\ HeadOr(t, "end") = "check"
    BY <2>0, <2>3a, PathOfOne
  <2>4. /\ r \o Commit \in Seq(Steps) /\ PathTo(r \o Commit, E, "check")
        /\ HeadOr(r \o Commit, "check") = "mark"
    BY <2>1, <2>2, Joined
  <2> DEFINE w == r \o Commit
  <2>5. w \in Seq(Steps) /\ PathTo(w, E, "check") /\ HeadOr(w, "check") = "mark"
    BY <2>4
  <2> HIDE DEF w
  <2>6. /\ w \o t \in Seq(Steps) /\ PathTo(w \o t, E, "end")
        /\ HeadOr(w \o t, "end") = "mark"
    BY <2>5, <2>3, Joined
  <2>7. Program(op) = w \o t
    BY <1>8 DEF Program, r, t, w
  <2> QED BY <1>8, <2>6, <2>7 DEF Beginning, E
<1> QED BY <1>1, <1>2, <1>3, <1>4, <1>5, <1>6, <1>7, <1>8 DEF Ops

(* The step a compensation begins with. *)
Mending(c) ==
  CASE c.op = "initialize" -> "halt"
    [] c.op = "migrate" -> "oldruntime"
    [] c.op \in {"add", "import", "rotate"} -> "unclient"
    [] c.op \in {"endpoint", "port"} -> "oldconfig"
    [] c.op = "expire" -> IF c.committed THEN "halt" ELSE "oldmetadata"
    [] OTHER -> "end"

(* Every compensation is a path backwards, *)
LEMMA CleanupPath ==
  ASSUME NEW c, c.op \in Ops \ {"restore"}
  PROVE  /\ Cleanup(c) \in Seq(Steps)
         /\ PathTo(Cleanup(c), Backward(c.op), "end")
         /\ HeadOr(Cleanup(c), "end") = Mending(c)
<1> DEFINE E == Backward(c.op)
<1>1. CASE c.op = "initialize"
  <2>0. {<<"halt", "unconfigure">>, <<"unconfigure", "unclient">>, <<"unclient", "unkeys">>, <<"unkeys", "noruntime">>, <<"noruntime", "end">>} \subseteq E
    BY <1>1 DEF Backward
  <2> HIDE DEF E
  <2> DEFINE r == <<"halt", "unconfigure", "unclient", "unkeys", "noruntime">>
  <2>1a. /\ r \in Seq(Steps) /\ r # <<>> /\ Len(r) = 5
         /\ r[1] = "halt" /\ r[2] = "unconfigure" /\ r[3] = "unclient" /\ r[4] = "unkeys" /\ r[5] = "noruntime"
    BY DEF Steps
  <2> HIDE DEF r
  <2>1. r \in Seq(Steps) /\ PathTo(r, E, "end") /\ HeadOr(r, "end") = "halt"
    BY <2>0, <2>1a, PathOfFive
  <2>2. Cleanup(c) = r
    BY <1>1 DEF Cleanup, r
  <2> QED BY <1>1, <2>1, <2>2 DEF Mending, E
<1>2. CASE c.op = "migrate"
  <2>0. {<<"oldruntime", "again">>, <<"again", "unconfigure">>, <<"unconfigure", "unclient">>, <<"unclient", "unkeys">>, <<"unkeys", "end">>} \subseteq E
    BY <1>2 DEF Backward
  <2> HIDE DEF E
  <2> DEFINE r == <<"oldruntime", "again", "unconfigure", "unclient", "unkeys">>
  <2>1a. /\ r \in Seq(Steps) /\ r # <<>> /\ Len(r) = 5
         /\ r[1] = "oldruntime" /\ r[2] = "again" /\ r[3] = "unconfigure" /\ r[4] = "unclient" /\ r[5] = "unkeys"
    BY DEF Steps
  <2> HIDE DEF r
  <2>1. r \in Seq(Steps) /\ PathTo(r, E, "end") /\ HeadOr(r, "end") = "oldruntime"
    BY <2>0, <2>1a, PathOfFive
  <2>2. Cleanup(c) = r
    BY <1>2 DEF Cleanup, r
  <2> QED BY <1>2, <2>1, <2>2 DEF Mending, E
<1>3. CASE c.op = "add"
  <2>0. {<<"unclient", "unkeys">>, <<"unkeys", "end">>} \subseteq E
    BY <1>3 DEF Backward
  <2> HIDE DEF E
  <2> DEFINE r == <<"unclient", "unkeys">>
  <2>1a. /\ r \in Seq(Steps) /\ r # <<>> /\ Len(r) = 2
         /\ r[1] = "unclient" /\ r[2] = "unkeys"
    BY DEF Steps
  <2> HIDE DEF r
  <2>1. r \in Seq(Steps) /\ PathTo(r, E, "end") /\ HeadOr(r, "end") = "unclient"
    BY <2>0, <2>1a, PathOfTwo
  <2>2. Cleanup(c) = r
    BY <1>3 DEF Cleanup, r
  <2> QED BY <1>3, <2>1, <2>2 DEF Mending, E
<1>4. CASE c.op = "import"
  <2>0. {<<"unclient", "unkeys">>, <<"unkeys", "reclient">>, <<"reclient", "rekeys">>, <<"rekeys", "end">>} \subseteq E
    BY <1>4 DEF Backward
  <2> HIDE DEF E
  <2> DEFINE r == <<"unclient", "unkeys", "reclient", "rekeys">>
  <2>1a. /\ r \in Seq(Steps) /\ r # <<>> /\ Len(r) = 4
         /\ r[1] = "unclient" /\ r[2] = "unkeys" /\ r[3] = "reclient" /\ r[4] = "rekeys"
    BY DEF Steps
  <2> HIDE DEF r
  <2>1. r \in Seq(Steps) /\ PathTo(r, E, "end") /\ HeadOr(r, "end") = "unclient"
    BY <2>0, <2>1a, PathOfFour
  <2>2. Cleanup(c) = r
    BY <1>4 DEF Cleanup, r
  <2> QED BY <1>4, <2>1, <2>2 DEF Mending, E
<1>5. CASE c.op = "rotate"
  <2>0. {<<"unclient", "unkeys">>, <<"unkeys", "reclient">>, <<"reclient", "rekeys">>, <<"rekeys", "reactivate">>, <<"reactivate", "end">>} \subseteq E
    BY <1>5 DEF Backward
  <2> HIDE DEF E
  <2> DEFINE r == <<"unclient", "unkeys", "reclient", "rekeys", "reactivate">>
  <2>1a. /\ r \in Seq(Steps) /\ r # <<>> /\ Len(r) = 5
         /\ r[1] = "unclient" /\ r[2] = "unkeys" /\ r[3] = "reclient" /\ r[4] = "rekeys" /\ r[5] = "reactivate"
    BY DEF Steps
  <2> HIDE DEF r
  <2>1. r \in Seq(Steps) /\ PathTo(r, E, "end") /\ HeadOr(r, "end") = "unclient"
    BY <2>0, <2>1a, PathOfFive
  <2>2. Cleanup(c) = r
    BY <1>5 DEF Cleanup, r
  <2> QED BY <1>5, <2>1, <2>2 DEF Mending, E
<1>6. CASE c.op \in {"endpoint", "port"}
  <2>0. {<<"oldconfig", "oldmetadata">>, <<"oldmetadata", "end">>} \subseteq E
    BY <1>6 DEF Backward
  <2> HIDE DEF E
  <2> DEFINE r == <<"oldconfig", "oldmetadata">>
  <2>1a. /\ r \in Seq(Steps) /\ r # <<>> /\ Len(r) = 2
         /\ r[1] = "oldconfig" /\ r[2] = "oldmetadata"
    BY DEF Steps
  <2> HIDE DEF r
  <2>1. r \in Seq(Steps) /\ PathTo(r, E, "end") /\ HeadOr(r, "end") = "oldconfig"
    BY <2>0, <2>1a, PathOfTwo
  <2>2. Cleanup(c) = r
    BY <1>6 DEF Cleanup, r
  <2> QED BY <1>6, <2>1, <2>2 DEF Mending, E
<1>7. CASE c.op = "expire" /\ c.committed
  <2>0. {<<"halt", "end">>} \subseteq E
    BY <1>7 DEF Backward
  <2> HIDE DEF E
  <2> DEFINE r == <<"halt">>
  <2>1a. /\ r \in Seq(Steps) /\ r # <<>> /\ Len(r) = 1
         /\ r[1] = "halt"
    BY DEF Steps
  <2> HIDE DEF r
  <2>1. r \in Seq(Steps) /\ PathTo(r, E, "end") /\ HeadOr(r, "end") = "halt"
    BY <2>0, <2>1a, PathOfOne
  <2>2. Cleanup(c) = r
    BY <1>7 DEF Cleanup, r
  <2> QED BY <1>7, <2>1, <2>2 DEF Mending, E
<1>8. CASE c.op = "expire" /\ ~c.committed
  <2>0. {<<"oldmetadata", "end">>} \subseteq E
    BY <1>8 DEF Backward
  <2> HIDE DEF E
  <2> DEFINE r == <<"oldmetadata">>
  <2>1a. /\ r \in Seq(Steps) /\ r # <<>> /\ Len(r) = 1
         /\ r[1] = "oldmetadata"
    BY DEF Steps
  <2> HIDE DEF r
  <2>1. r \in Seq(Steps) /\ PathTo(r, E, "end") /\ HeadOr(r, "end") = "oldmetadata"
    BY <2>0, <2>1a, PathOfOne
  <2>2. Cleanup(c) = r
    BY <1>8 DEF Cleanup, r
  <2> QED BY <1>8, <2>1, <2>2 DEF Mending, E
<1>9. CASE c.op = "revoke"
  <2>1. Cleanup(c) = <<>> /\ Mending(c) = "end"
    BY <1>9 DEF Cleanup, Mending
  <2>2. <<>> \in Seq(Steps) /\ Len(<<>>) = 0
    BY EmptySeq
  <2>3. PathTo(<<>>, E, "end") /\ HeadOr(<<>>, "end") = "end"
    BY <2>2 DEF PathTo, HeadOr
  <2> QED BY <2>1, <2>2, <2>3
<1> QED BY <1>1, <1>2, <1>3, <1>4, <1>5, <1>6, <1>7, <1>8, <1>9 DEF Ops

(* with or without taking the commit back first, *)
LEMMA UndoPath ==
  ASSUME NEW c, c.op \in Ops \ {"restore"}
  PROVE  /\ Undo(c) \in Seq(Steps)
         /\ PathTo(Undo(c), Backward(c.op), "end")
         /\ HeadOr(Undo(c), "end") \in {"render", Mending(c)}
         /\ HeadOr(Undo(c), "end") = "render" => c.op \in {"add", "revoke", "rotate"}
<1> DEFINE E == Backward(c.op)
<1>1. CASE c.committed /\ c.op \in {"add", "revoke", "rotate"}
  <2>1. Committing \cup {<<"act", Mending(c)>>} \subseteq E
    BY <1>1 DEF Backward, Mending
  <2>2. Cleanup(c) \in Seq(Steps) /\ PathTo(Cleanup(c), E, "end") /\ HeadOr(Cleanup(c), "end") = Mending(c)
    BY CleanupPath
  <2> HIDE DEF E
  <2>3. Commit \in Seq(Steps) /\ PathTo(Commit, E, Mending(c)) /\ HeadOr(Commit, Mending(c)) = "render"
    BY <2>1, CommitPath
  <2>4. /\ Commit \o Cleanup(c) \in Seq(Steps) /\ PathTo(Commit \o Cleanup(c), E, "end")
        /\ HeadOr(Commit \o Cleanup(c), "end") = "render"
    BY <2>2, <2>3, Joined
  <2>5. Undo(c) = Commit \o Cleanup(c)
    BY <1>1 DEF Undo
  <2> QED BY <1>1, <2>4, <2>5 DEF E
<1>2. CASE ~(c.committed /\ c.op \in {"add", "revoke", "rotate"})
  <2>1. Undo(c) = Cleanup(c)
    BY <1>2 DEF Undo
  <2>2. Mending(c) # "render"
    BY DEF Mending, Ops
  <2> QED BY <2>1, <2>2, CleanupPath
<1> QED BY <1>1, <1>2

(* and after a reload that failed. *)
LEMMA RetractPath ==
  ASSUME NEW c, c.op \in {"add", "revoke", "rotate", "port", "expire"},
         NEW u \in {Cleanup(c), Undo(c)}
  PROVE  LET t == <<"oldruntime", "oldgenerated", "again">> \o u
         IN  /\ t \in Seq(Steps)
             /\ PathTo(t, Backward(c.op), "end")
             /\ HeadOr(t, "end") = "oldruntime"
<1> DEFINE E == Backward(c.op)
           m == HeadOr(u, "end")
<1>1. c.op \in Ops \ {"restore"}
  BY DEF Ops
<1>2. /\ u \in Seq(Steps) /\ PathTo(u, E, "end") /\ m \in {"render", Mending(c)}
      /\ m = "render" => c.op \in {"add", "revoke", "rotate"}
  <2>1. CASE u = Cleanup(c)
    <3>1. m = "render" => c.op \in {"add", "revoke", "rotate"}
      BY <1>1, <2>1, CleanupPath DEF Mending
    <3> QED BY <1>1, <2>1, <3>1, CleanupPath
  <2>2. CASE u = Undo(c)
    BY <1>1, <2>2, UndoPath
  <2> QED BY <2>1, <2>2
<1>3. Retracting \cup {<<"again", m>>} \subseteq E
  <2>1. CASE m = "render"
    BY <2>1, <1>2 DEF Backward
  <2>2. CASE m = Mending(c)
    BY <2>2 DEF Backward, Mending
  <2> QED BY <1>2, <2>1, <2>2
<1> DEFINE r == <<"oldruntime", "oldgenerated", "again">>
<1>4. /\ r \in Seq(Steps) /\ r # <<>> /\ Len(r) = 3
      /\ r[1] = "oldruntime" /\ r[2] = "oldgenerated" /\ r[3] = "again"
  BY DEF Steps
<1> HIDE DEF r, E
<1>5. PathTo(r, E, m) /\ HeadOr(r, m) = "oldruntime"
  <2>1. <<r[1], r[2]>> \in E /\ <<r[2], r[3]>> \in E /\ <<r[3], m>> \in E
    BY <1>3, <1>4 DEF Retracting
  <2> QED BY <1>4, <2>1, PathOfThree
<1>6. r \o u \in Seq(Steps) /\ PathTo(r \o u, E, "end") /\ HeadOr(r \o u, "end") = "oldruntime"
  BY <1>2, <1>4, <1>5, Joined
<1> QED BY <1>6 DEF r, E

(* The program of restore, step by step. *)
LEMMA RestoreProgram ==
  /\ Program("restore") \in Seq(Steps)
  /\ Len(Program("restore")) = 11
  /\ \A i \in 1..11 : Program("restore")[i] = RestoreStep(i)
<1> DEFINE t == <<"runtime", "act", "verify">>
<1>1. /\ Swap \in Seq(Steps) /\ Len(Swap) = 8
      /\ Swap[1] = "displace" /\ Swap[2] = "place" /\ Swap[3] = "displace" /\ Swap[4] = "place"
      /\ Swap[5] = "displace" /\ Swap[6] = "place" /\ Swap[7] = "displace" /\ Swap[8] = "place"
  BY DEF Swap, Steps
<1>2. /\ t \in Seq(Steps) /\ Len(t) = 3
      /\ t[1] = "runtime" /\ t[2] = "act" /\ t[3] = "verify"
  BY DEF Steps
<1>3. Program("restore") = Swap \o t
  BY DEF Program
<1> HIDE DEF t
<1>4. /\ Swap \o t \in Seq(Steps) /\ Len(Swap \o t) = 11
      /\ \A i \in 1..11 : (Swap \o t)[i] = IF i <= 8 THEN Swap[i] ELSE t[i - 8]
  <2>1. /\ Swap \o t \in Seq(Steps) /\ Len(Swap \o t) = Len(Swap) + Len(t)
        /\ \A i \in 1..(Len(Swap) + Len(t)) :
             (Swap \o t)[i] = IF i <= Len(Swap) THEN Swap[i] ELSE t[i - Len(Swap)]
    BY <1>1, <1>2, ConcatProperties
  <2>2. Len(Swap) = 8 /\ Len(Swap) + Len(t) = 11
    BY <1>1, <1>2
  <2> QED BY <2>1, <2>2
<1> DEFINE w == Swap \o t
<1> HIDE DEF w
<1>5. ASSUME NEW i \in 1..11
      PROVE  w[i] = RestoreStep(i)
  <2>0. w[i] = IF i <= 8 THEN Swap[i] ELSE t[i - 8]
    BY <1>4 DEF w
  <2>1. CASE i = 1 BY <2>0, <2>1, <1>1 DEF RestoreStep
  <2>2. CASE i = 2 BY <2>0, <2>2, <1>1 DEF RestoreStep
  <2>3. CASE i = 3 BY <2>0, <2>3, <1>1 DEF RestoreStep
  <2>4. CASE i = 4 BY <2>0, <2>4, <1>1 DEF RestoreStep
  <2>5. CASE i = 5 BY <2>0, <2>5, <1>1 DEF RestoreStep
  <2>6. CASE i = 6 BY <2>0, <2>6, <1>1 DEF RestoreStep
  <2>7. CASE i = 7 BY <2>0, <2>7, <1>1 DEF RestoreStep
  <2>8. CASE i = 8 BY <2>0, <2>8, <1>1 DEF RestoreStep
  <2>9. CASE i = 9 BY <2>0, <2>9, <1>2 DEF RestoreStep
  <2>10. CASE i = 10 BY <2>0, <2>10, <1>2 DEF RestoreStep
  <2>11. CASE i = 11 BY <2>0, <2>11, <1>2 DEF RestoreStep
  <2>12. \/ i = 1 \/ i = 2 \/ i = 3 \/ i = 4 \/ i = 5 \/ i = 6
         \/ i = 7 \/ i = 8 \/ i = 9 \/ i = 10 \/ i = 11
    OBVIOUS
  <2> QED BY <2>1, <2>2, <2>3, <2>4, <2>5, <2>6, <2>7, <2>8, <2>9, <2>10, <2>11, <2>12
<1> QED BY <1>3, <1>4, <1>5 DEF w

LEMMA Repeated ==
  ASSUME NEW n \in Nat, NEW a \in Steps
  PROVE  LET s == [i \in 1..n |-> a]
         IN  s \in Seq(Steps) /\ Len(s) = n /\ \A i \in 1..n : s[i] = a
  OBVIOUS

(* The way back of restore takes one step for each component it moved. *)
LEMMA RestoreCleanup ==
  ASSUME NEW c, c.op = "restore", c.placed \in 0..4, c.displaced \in 0..4
  PROVE  LET moved == c.placed + c.displaced
         IN  /\ Cleanup(c) \in Seq(Steps)
             /\ Len(Cleanup(c)) = moved + 2
             /\ \A i \in 1..(moved + 2) :
                  Cleanup(c)[i] = IF i <= c.placed THEN "unplace"
                                  ELSE IF i <= moved THEN "putback"
                                  ELSE IF i = moved + 1 THEN "oldruntime" ELSE "again"
<1> DEFINE p == c.placed
           d == c.displaced
           r == [i \in 1..p |-> "unplace"]
           s == [i \in 1..d |-> "putback"]
           t == <<"oldruntime", "again">>
           u == r \o s
<1>1. p \in Nat /\ d \in Nat
  OBVIOUS
<1>2. r \in Seq(Steps) /\ Len(r) = p /\ \A i \in 1..p : r[i] = "unplace"
  BY <1>1, Repeated DEF Steps
<1>3. s \in Seq(Steps) /\ Len(s) = d /\ \A i \in 1..d : s[i] = "putback"
  BY <1>1, Repeated DEF Steps
<1>4. t \in Seq(Steps) /\ Len(t) = 2 /\ t[1] = "oldruntime" /\ t[2] = "again"
  BY DEF Steps
<1>5. Cleanup(c) = u \o t
  BY DEF Cleanup
<1> HIDE DEF p, d, r, s, t
<1>6. /\ u \in Seq(Steps) /\ Len(u) = p + d
      /\ \A i \in 1..(p + d) : u[i] = IF i <= p THEN r[i] ELSE s[i - p]
  <2>1. /\ u \in Seq(Steps) /\ Len(u) = Len(r) + Len(s)
        /\ \A i \in 1..(Len(r) + Len(s)) :
             u[i] = IF i <= Len(r) THEN r[i] ELSE s[i - Len(r)]
    BY <1>2, <1>3, ConcatProperties
  <2>2. Len(r) = p /\ Len(s) = d
    BY <1>2, <1>3
  <2> QED BY <2>1, <2>2
<1>7. ASSUME NEW i \in 1..(p + d)
      PROVE  u[i] = IF i <= p THEN "unplace" ELSE "putback"
  <2>1. CASE i <= p
    <3>1. i \in 1..p
      BY <2>1, <1>1
    <3> QED BY <2>1, <3>1, <1>2, <1>6
  <2>2. CASE ~(i <= p)
    <3>1. i - p \in 1..d
      BY <2>2, <1>1
    <3> QED BY <2>2, <3>1, <1>3, <1>6
  <2> QED BY <2>1, <2>2
<1> HIDE DEF u
<1>8. /\ u \o t \in Seq(Steps) /\ Len(u \o t) = p + d + 2
      /\ \A i \in 1..(p + d + 2) : (u \o t)[i] = IF i <= p + d THEN u[i] ELSE t[i - (p + d)]
  <2>1. /\ u \o t \in Seq(Steps) /\ Len(u \o t) = Len(u) + Len(t)
        /\ \A i \in 1..(Len(u) + Len(t)) :
             (u \o t)[i] = IF i <= Len(u) THEN u[i] ELSE t[i - Len(u)]
    BY <1>4, <1>6, ConcatProperties
  <2>2. Len(u) = p + d /\ Len(u) + Len(t) = p + d + 2
    BY <1>1, <1>4, <1>6
  <2> QED BY <2>1, <2>2
<1>9. \A i \in 1..(p + d + 2) :
        (u \o t)[i] = IF i <= p THEN "unplace" ELSE IF i <= p + d THEN "putback"
                      ELSE IF i = p + d + 1 THEN "oldruntime" ELSE "again"
  <2> TAKE i \in 1..(p + d + 2)
  <2>1. CASE i <= p + d
    BY <2>1, <1>1, <1>7, <1>8
  <2>2. CASE i = p + d + 1
    <3>1. i - (p + d) = 1
      BY <2>2, <1>1
    <3> QED BY <2>2, <3>1, <1>1, <1>4, <1>8
  <2>3. CASE i = p + d + 2
    <3>1. i - (p + d) = 2
      BY <2>3, <1>1
    <3> QED BY <2>3, <3>1, <1>1, <1>4, <1>8
  <2>4. i <= p + d \/ i = p + d + 1 \/ i = p + d + 2
    BY <1>1
  <2> QED BY <2>1, <2>2, <2>3, <2>4
<1> QED BY <1>5, <1>8, <1>9 DEF p, d

-----------------------------------------------------------------------------
(* Values *)

Metas == [Names -> Records \cup {None, Partial}]

LEMMA NamesCounted == Cardinality(Names) \in Nat \ {0} /\ IsFiniteSet(Names)
  BY NamesAssumption, FS_CardinalityType, FS_EmptySet DEF NamesAssumption

LEMMA FirstValues ==
  /\ 1 \in Keys /\ 1 \in Address
  /\ FirstConfig \in Configs
  /\ LegacyText \in Texts
  /\ \A managed \in BOOLEAN : First(managed) \in Records
<1>1. 1 \in Keys /\ 1 \in Address
  BY NamesCounted, BoundAssumption DEF Keys, Address
<1>2. FirstConfig \in Configs
  BY DEF FirstConfig, Configs
<1>3. [key |-> 1, addr |-> 1] \in Peers
  BY <1>1 DEF Peers
<1>4. LegacyText \in Texts
  BY <1>3 DEF LegacyText, Texts
<1>5. \A managed \in BOOLEAN : First(managed) \in Records
  BY <1>1, <1>2 DEF First, Records
<1> QED BY <1>1, <1>2, <1>4, <1>5

(* A rendered configuration is a text. *)
LEMMA RenderTyped ==
  ASSUME NEW config \in Configs, NEW meta \in Metas, NEW d
  PROVE  Render(config, meta, d) \in Texts
<1>1. \A n \in Described(meta) : [key |-> meta[n].key, addr |-> meta[n].addr] \in Peers
  <2> TAKE n \in Described(meta)
  <2>1. meta[n] \in Records
    BY DEF Described, Metas
  <2> QED BY <2>1 DEF Records, Peers
<1>2. config.port \in {0, 1}
  BY DEF Configs
<1> QED BY <1>1, <1>2 DEF Render, Texts

LEMMA DescribedRecords ==
  ASSUME NEW meta \in Metas, NEW n \in Described(meta)
  PROVE  n \in Names /\ meta[n] \in Records
  BY DEF Described, Metas

(* There is a free address as long as one client may still be added.  *)
LEMMA FreeAddressTyped ==
  ASSUME disk.meta \in Metas, NEW n \in Names, n \notin Described(disk.meta)
  PROVE  FreeAddress \in Address \ Taken
<1> DEFINE D == Described(disk.meta)
           addr == [m \in D |-> disk.meta[m].addr]
<1>1. D \subseteq Names \ {n} /\ IsFiniteSet(Names \ {n}) /\ IsFiniteSet(Names)
      /\ Cardinality(Names \ {n}) = Cardinality(Names) - 1 /\ Cardinality(Names) \in Nat
  BY NamesCounted, FS_RemoveElement DEF Described
<1>2. IsFiniteSet(D) /\ Cardinality(D) <= Cardinality(Names \ {n})
  BY <1>1, FS_Subset
<1>3. addr \in Surjection(D, Taken)
  BY DEF Surjection, Taken
<1>4. IsFiniteSet(Taken) /\ Cardinality(Taken) <= Cardinality(D)
  BY <1>2, <1>3, FS_Surjection
<1>5. Cardinality(D) \in Nat /\ Cardinality(Taken) \in Nat
  BY <1>2, <1>4, FS_CardinalityType
<1>6. IsFiniteSet(Address) /\ Cardinality(Address) = Cardinality(Names)
  BY NamesCounted, FS_Interval DEF Address
<1>7. Cardinality(Taken) < Cardinality(Address)
  BY <1>1, <1>2, <1>4, <1>5, <1>6
<1>8. ~(Address \subseteq Taken)
  <2> SUFFICES ASSUME Address \subseteq Taken PROVE FALSE
    OBVIOUS
  <2>1. Cardinality(Address) <= Cardinality(Taken)
    BY <1>4, FS_Subset
  <2> QED BY <2>1, <1>1, <1>5, <1>6, <1>7
<1>9. PICK a \in Address \ Taken : \A b \in Address \ Taken : a <= b
  <2> DEFINE S == Address \ Taken
  <2>1. S \subseteq Nat /\ S # {}
    <3>1. Address \subseteq Nat
      BY DEF Address
    <3> QED BY <1>8, <3>1
  <2>2. IsWellFoundedOn(OpToRel(<, Nat), Nat)
    BY NatLessThanWellFounded
  <2> HIDE DEF S
  <2>3. PICK a \in S : \A b \in S : <<b, a>> \notin OpToRel(<, Nat)
    BY <2>1, <2>2, WFMin
  <2>4. \A b \in S : a <= b
    <3> TAKE b \in S
    <3>1. a \in Nat /\ b \in Nat
      BY <2>1
    <3>2. ~(b < a)
      BY <2>3, <3>1 DEF OpToRel
    <3> QED BY <3>1, <3>2
  <2> QED BY <2>3, <2>4 DEF S
<1> QED BY <1>9 DEF FreeAddress, Lowest

LEMMA WithTyped ==
  ASSUME NEW d \in Disks, NEW from \in Disks, NEW i \in 1..4
  PROVE  With(d, Components[i], from) \in Disks
<1>1. i = 1 \/ i = 2 \/ i = 3 \/ i = 4
  OBVIOUS
<1>2. Components[1] = "config" /\ Components[2] = "keys" /\ Components[3] = "clients"
      /\ Components[4] = "generated"
  BY DEF Components
<1>3. CASE i = 1
  BY <1>2, <1>3 DEF With, Disks
<1>4. CASE i = 2
  BY <1>2, <1>4 DEF With, Disks
<1>5. CASE i = 3
  BY <1>2, <1>5 DEF With, Disks
<1>6. CASE i = 4
  BY <1>2, <1>6 DEF With, Disks
<1> QED BY <1>1, <1>3, <1>4, <1>5, <1>6

LEMMA WithRuntime ==
  ASSUME NEW d \in Disks, NEW from \in Disks, NEW i \in 1..4
  PROVE  With(d, Components[i], from).runtime = d.runtime
<1>1. Components[1] = "config" /\ Components[2] = "keys" /\ Components[3] = "clients"
      /\ Components[4] = "generated"
  BY DEF Components
<1>2. i = 1 \/ i = 2 \/ i = 3 \/ i = 4
  OBVIOUS
<1> QED BY <1>1, <1>2 DEF With, Disks

LEMMA NothingTyped == Nothing \in Disks
  BY DEF Nothing, Disks

LEMMA FieldTyped ==
  ASSUME disk \in Disks, NEW n \in Described(disk.meta), NEW r \in Records,
         disk' = [disk EXCEPT !.meta[n] = r]
  PROVE  /\ disk' \in Disks /\ disk'.config = disk.config
         /\ disk'.meta = [disk.meta EXCEPT ![n] = r]
  BY DEF Disks, Described

-----------------------------------------------------------------------------
(* Which command, going which way, takes a step *)

TypeInv == TypeOK /\ CallInv /\ FlowInv /\ RestoreInv /\ PlaceInv

(* A command other than restore takes step a, and b after it. *)
Sourced(op, back, a, b) ==
  /\ a = "config" => ~back /\ op \in {"initialize", "migrate", "endpoint", "port"}
  /\ a \in {"create", "describe"} => ~back /\ op \in Making
  /\ a \in {"unclient", "unkeys"} => op \in Making \cup {"revoke"}
  /\ a \in {"compare"} => ~back /\ op = "import"
  /\ a \in {"profiles"} => ~back /\ op \in {"endpoint", "port"}
  /\ a \in {"mark", "check", "recheck"} => ~back /\ op = "expire"
  /\ a = "render" => op \in {"initialize", "migrate", "add", "revoke", "rotate", "expire"}
  /\ a \in {"generated", "runtime"} => op # "import"
  /\ a = "act" => op \in {"initialize", "migrate", "add", "revoke", "rotate", "port", "expire"}
  /\ a \in {"render", "generated", "runtime", "act"} /\ back => op \in {"add", "revoke", "rotate"}
  /\ a = "verify" => ~back
  /\ a \in {"oldruntime", "oldgenerated", "again", "halt"} => back
  /\ a \in {"reclient", "rekeys"} => back /\ op \in {"import", "rotate"}
  /\ a = "reactivate" => back /\ op = "rotate" /\ b = "end"
  /\ a = "oldconfig" => back /\ op \in {"endpoint", "port"}
  /\ a = "oldmetadata" => back /\ op \in {"endpoint", "port", "expire"}
  /\ a \in {"unconfigure", "noruntime"} => back /\ op \in {"initialize", "migrate"}
  /\ a \notin {"displace", "place", "unplace", "putback"}
  /\ b = "config" => FALSE
  /\ b \in {"rekeys", "reactivate"} => a \in {"reclient", "rekeys"}

LEMMA Sources ==
  ASSUME NEW op \in Ops \ {"restore"}, NEW back \in BOOLEAN, NEW a, NEW b,
         <<a, b>> \in Edges(op, back)
  PROVE  Sourced(op, back, a, b)
<1>1. CASE op \in {"initialize", "migrate"} /\ ~back
  BY <1>1 DEF Edges, Forward, Committing, Sourced, Making
<1>2. CASE op = "initialize" /\ back
  BY <1>2 DEF Edges, Backward, Sourced, Making
<1>3. CASE op = "migrate" /\ back
  BY <1>3 DEF Edges, Backward, Sourced, Making
<1>4. CASE op = "add" /\ ~back
  BY <1>4 DEF Edges, Forward, Committing, Sourced, Making
<1>5. CASE op = "add" /\ back
  BY <1>5 DEF Edges, Backward, Committing, Retracting, Sourced, Making
<1>6. CASE op = "import" /\ ~back
  BY <1>6 DEF Edges, Forward, Sourced, Making
<1>7. CASE op = "import" /\ back
  BY <1>7 DEF Edges, Backward, Sourced, Making
<1>8. CASE op = "revoke" /\ ~back
  BY <1>8 DEF Edges, Forward, Committing, Sourced, Making
<1>9. CASE op = "revoke" /\ back
  BY <1>9 DEF Edges, Backward, Committing, Retracting, Sourced, Making
<1>10. CASE op = "rotate" /\ ~back
  BY <1>10 DEF Edges, Forward, Committing, Sourced, Making
<1>11. CASE op = "rotate" /\ back
  BY <1>11 DEF Edges, Backward, Committing, Retracting, Sourced, Making
<1>12. CASE op \in {"endpoint", "port"} /\ ~back
  BY <1>12 DEF Edges, Forward, Sourced, Making
<1>13. CASE op \in {"endpoint", "port"} /\ back
  BY <1>13 DEF Edges, Backward, Retracting, Sourced, Making
<1>14. CASE op = "expire" /\ ~back
  BY <1>14 DEF Edges, Forward, Committing, Sourced, Making
<1>15. CASE op = "expire" /\ back
  BY <1>15 DEF Edges, Backward, Retracting, Sourced, Making
<1> QED
  BY <1>1, <1>2, <1>3, <1>4, <1>5, <1>6, <1>7, <1>8, <1>9, <1>10, <1>11, <1>12, <1>13, <1>14, <1>15
     DEF Ops

LEMMA TodoFacts ==
  ASSUME TypeOK, todo # <<>>
  PROVE  /\ todo \in Seq(Steps) /\ Len(todo) \in Nat \ {0} /\ Head(todo) = todo[1]
         /\ Tail(todo) \in Seq(Steps) /\ Len(Tail(todo)) = Len(todo) - 1
         /\ \A i \in 1..(Len(todo) - 1) : Tail(todo)[i] = todo[i + 1]
         /\ Tail(todo) = <<>> <=> Len(todo) = 1
         /\ doing # None /\ doing \in Calls
<1>1. todo \in Seq(Steps) /\ doing # None /\ doing \in Calls
  BY DEF TypeOK
<1> DEFINE t == Tail(todo)
<1>2. /\ Len(todo) \in Nat \ {0} /\ Head(todo) = todo[1]
      /\ t \in Seq(Steps) /\ Len(t) = Len(todo) - 1
      /\ \A i \in 1..Len(t) : t[i] = todo[i + 1]
  BY <1>1, HeadTailProperties, EmptySeq
<1> HIDE DEF t
<1>3. t = <<>> <=> Len(t) = 0
  BY <1>2, EmptySeq
<1> QED BY <1>1, <1>2, <1>3 DEF t

LEMMA HalfMoved ==
  ASSUME NEW a \in Nat, NEW b \in Nat, NEW n \in Nat, n > 3, b + a = 11 - n
  PROVE  /\ b = a => a \in 0..3 /\ 12 - n = a + a + 1 /\ n \in 4..11
         /\ b = a + 1 => a \in 0..3 /\ 12 - n = a + a + 2 /\ n \in 4..11
  OBVIOUS

(* Which step of restore comes next, and what it has moved until then. *)
LEMMA RestoreHead ==
  ASSUME TypeOK, RestoreInv, doing.op = "restore", todo # <<>>
  PROVE  /\ ~doing.back => Head(todo) \in {"displace", "place", "runtime", "act", "verify"}
         /\ doing.back => Head(todo) \in {"unplace", "putback", "oldruntime", "again"}
         /\ Head(todo) = "displace" => doing.displaced \in 0..3 /\ doing.placed = doing.displaced
         /\ Head(todo) = "place" => doing.placed \in 0..3 /\ doing.displaced = doing.placed + 1
         /\ Head(todo) = "unplace" => doing.placed \in 1..4
         /\ Head(todo) = "putback" => doing.placed = 0 /\ doing.displaced \in 1..4
         /\ Head(todo) \in {"runtime", "act", "verify"} => Len(todo) <= 3
         /\ Head(todo) \in {"displace", "place"} => Len(todo) \in 4..11
<1>1. /\ doing \in Calls /\ doing # None /\ doing.back \in BOOLEAN
      /\ doing.placed \in 0..4 /\ doing.displaced \in 0..4
      /\ Len(todo) \in Nat \ {0} /\ Head(todo) = todo[1]
  BY TodoFacts DEF Calls
<1> DEFINE p == doing.placed
           d == doing.displaced
           L == Len(todo)
<1>2. CASE ~doing.back
  <2>1. RestoringForth
    BY <1>1, <1>2 DEF RestoreInv
  <2>2. L \in 1..11 /\ Head(todo) = RestoreStep(12 - L)
    <3>1. L \in 1..11 /\ 1 \in 1..L /\ 11 - L + 1 = 12 - L
      BY <1>1, <2>1 DEF RestoringForth
    <3> QED BY <1>1, <2>1, <3>1 DEF RestoringForth
  <2>3. CASE L <= 3
    <3>0. L \in Nat /\ L # 0
      BY <1>1
    <3>1. L = 1 \/ L = 2 \/ L = 3
      <4>1. \A n \in Nat : n # 0 /\ n <= 3 => n = 1 \/ n = 2 \/ n = 3
        OBVIOUS
      <4> QED BY <2>3, <3>0, <4>1
    <3> QED BY <1>2, <2>2, <2>3, <3>1 DEF RestoreStep
  <2>4. CASE L > 3 /\ d = p
    <3>0. p \in Nat /\ d \in Nat /\ L \in Nat /\ L > 3 /\ d + p = 11 - L
      BY <1>1, <2>1, <2>2, <2>4 DEF RestoringForth
    <3>1. p \in 0..3 /\ 12 - L = p + p + 1 /\ L \in 4..11
      BY <3>0, <2>4, HalfMoved
    <3>2. p = 0 \/ p = 1 \/ p = 2 \/ p = 3
      BY <3>1
    <3>3. 12 - L \in {1, 3, 5, 7}
      BY <3>1, <3>2
    <3>4. Head(todo) = "displace"
      BY <2>2, <3>3 DEF RestoreStep
    <3> QED BY <1>2, <2>4, <3>1, <3>4
  <2>5. CASE L > 3 /\ d = p + 1
    <3>0. p \in Nat /\ d \in Nat /\ L \in Nat /\ L > 3 /\ d + p = 11 - L
      BY <1>1, <2>1, <2>2, <2>5 DEF RestoringForth
    <3>1. p \in 0..3 /\ 12 - L = p + p + 2 /\ L \in 4..11
      BY <3>0, <2>5, HalfMoved
    <3>2. p = 0 \/ p = 1 \/ p = 2 \/ p = 3
      BY <3>1
    <3>3. 12 - L \in {2, 4, 6, 8}
      BY <3>1, <3>2
    <3>4. Head(todo) = "place"
      BY <2>2, <3>3 DEF RestoreStep
    <3> QED BY <1>2, <2>5, <3>1, <3>4
  <2> QED BY <2>1, <2>2, <2>3, <2>4, <2>5 DEF RestoringForth
<1>3. CASE doing.back
  <2>1. RestoringBack
    BY <1>1, <1>3 DEF RestoreInv
  <2>2. CASE p + d = 0 /\ L = 1 /\ todo[1] = "again"
    BY <1>1, <1>3, <2>2
  <2>3. CASE L = p + d + 2 /\ \A i \in 1..L :
               todo[i] = IF i <= p THEN "unplace" ELSE IF i <= p + d THEN "putback"
                         ELSE IF i = p + d + 1 THEN "oldruntime" ELSE "again"
    <3>1. Head(todo) = IF 1 <= p THEN "unplace" ELSE IF 1 <= p + d THEN "putback" ELSE "oldruntime"
      BY <1>1, <2>3
    <3> QED BY <1>1, <1>3, <3>1
  <2>4. todo # <<>>
    OBVIOUS
  <2> QED BY <2>1, <2>2, <2>3, <2>4 DEF RestoringBack
<1> QED BY <1>1, <1>2, <1>3

(* A step of restore keeps its progress in step with what is left to do. *)
LEMMA RestoreGoes ==
  ASSUME TypeOK, RestoreInv, doing.op = "restore", todo # <<>>, todo' = Tail(todo),
         doing' \in Calls, doing'.op = "restore", doing'.back = doing.back,
         doing'.displaced = IF Head(todo) = "displace" THEN doing.displaced + 1
                            ELSE IF Head(todo) = "putback" THEN doing.displaced - 1
                            ELSE doing.displaced,
         doing'.placed = IF Head(todo) = "place" THEN doing.placed + 1
                         ELSE IF Head(todo) = "unplace" THEN doing.placed - 1
                         ELSE doing.placed
  PROVE  RestoreInv'
<1>1. /\ doing \in Calls /\ doing # None /\ doing.back \in BOOLEAN
      /\ doing.placed \in 0..4 /\ doing.displaced \in 0..4
      /\ Len(todo) \in Nat \ {0} /\ Head(todo) = todo[1] /\ Len(todo') = Len(todo) - 1
      /\ \A i \in 1..(Len(todo) - 1) : todo'[i] = todo[i + 1]
      /\ todo' = <<>> <=> Len(todo) = 1
  BY TodoFacts DEF Calls
<1> DEFINE p == doing.placed
           d == doing.displaced
           L == Len(todo)
<1>2. CASE ~doing.back
  <2>1. RestoringForth /\ Head(todo) \in {"displace", "place", "runtime", "act", "verify"}
    BY <1>1, <1>2, RestoreHead DEF RestoreInv
  <2>2. \A i \in 1..Len(todo') : todo'[i] = RestoreStep(11 - Len(todo') + i)
    <3> TAKE i \in 1..Len(todo')
    <3>1. i + 1 \in 1..L /\ 11 - L + (i + 1) = 11 - Len(todo') + i /\ todo'[i] = todo[i + 1]
      BY <1>1
    <3> QED BY <2>1, <3>1 DEF RestoringForth
  <2>3. Len(todo') \in 0..11 /\ L \in 1..11
    <3>1. L \in 0..11
      BY <2>1 DEF RestoringForth
    <3>2. L \in Nat /\ L # 0 /\ Len(todo') = L - 1
      BY <1>1
    <3>3. \A n \in 0..11 : n # 0 => n - 1 \in 0..11 /\ n \in 1..11
      OBVIOUS
    <3> QED BY <3>1, <3>2, <3>3
  <2>4. IF Len(todo') <= 3 THEN doing'.displaced = 4 /\ doing'.placed = 4
        ELSE /\ doing'.displaced + doing'.placed = 11 - Len(todo')
             /\ doing'.displaced \in {doing'.placed, doing'.placed + 1}
    <3>1. CASE Head(todo) = "displace"
      <4>1. d \in 0..3 /\ p = d /\ L \in 4..11
        BY <3>1, RestoreHead
      <4>2. d + p = 11 - L
        BY <1>1, <2>1, <4>1 DEF RestoringForth
      <4> QED BY <1>1, <3>1, <4>1, <4>2
    <3>2. CASE Head(todo) = "place"
      <4>1. p \in 0..3 /\ d = p + 1 /\ L \in 4..11
        BY <3>2, RestoreHead
      <4>2. d + p = 11 - L
        BY <1>1, <2>1, <4>1 DEF RestoringForth
      <4> QED BY <1>1, <3>2, <4>1, <4>2
    <3>3. CASE Head(todo) \in {"runtime", "act", "verify"}
      <4>1. L <= 3 /\ d = 4 /\ p = 4
        BY <1>1, <2>1, <3>3, RestoreHead DEF RestoringForth
      <4> QED BY <1>1, <3>3, <4>1
    <3> QED BY <2>1, <3>1, <3>2, <3>3
  <2> QED BY <1>2, <2>2, <2>3, <2>4 DEF RestoreInv, RestoringForth
<1>3. CASE doing.back
  <2>1. RestoringBack /\ Head(todo) \in {"unplace", "putback", "oldruntime", "again"}
    BY <1>1, <1>3, RestoreHead DEF RestoreInv
  <2>2. CASE p + d = 0 /\ L = 1 /\ todo[1] = "again"
    <3>1. doing'.placed = p /\ doing'.displaced = d /\ todo' = <<>>
      BY <1>1, <2>2
    <3> QED BY <1>1, <1>3, <2>2, <3>1 DEF RestoreInv, RestoringBack
  <2>3. CASE L = p + d + 2 /\ \A i \in 1..L :
               todo[i] = IF i <= p THEN "unplace" ELSE IF i <= p + d THEN "putback"
                         ELSE IF i = p + d + 1 THEN "oldruntime" ELSE "again"
    <3>1. Head(todo) = IF 1 <= p THEN "unplace" ELSE IF 1 <= p + d THEN "putback" ELSE "oldruntime"
      BY <1>1, <2>3
    <3>2. CASE 1 <= p
      <4>1. doing'.placed = p - 1 /\ doing'.displaced = d
        BY <3>1, <3>2
      <4>2. \A i \in 1..(p + d + 1) :
              todo'[i] = IF i <= p - 1 THEN "unplace" ELSE IF i <= p - 1 + d THEN "putback"
                         ELSE IF i = p - 1 + d + 1 THEN "oldruntime" ELSE "again"
        <5> TAKE i \in 1..(p + d + 1)
        <5>1. i + 1 \in 1..L /\ i \in 1..(L - 1)
          BY <1>1, <2>3
        <5>2. todo'[i] = todo[i + 1]
          BY <1>1, <5>1
        <5>3. todo[i + 1] = IF i + 1 <= p THEN "unplace" ELSE IF i + 1 <= p + d THEN "putback"
                            ELSE IF i + 1 = p + d + 1 THEN "oldruntime" ELSE "again"
          BY <2>3, <5>1
        <5>4. /\ (i + 1 <= p <=> i <= p - 1) /\ (i + 1 <= p + d <=> i <= p - 1 + d)
              /\ (i + 1 = p + d + 1 <=> i = p - 1 + d + 1)
          <6>1. i \in Int /\ p \in Int /\ d \in Int
            BY <1>1
          <6>2. \A j, m, n \in Int :
                  /\ (j + 1 <= m <=> j <= m - 1) /\ (j + 1 <= m + n <=> j <= m - 1 + n)
                  /\ (j + 1 = m + n + 1 <=> j = m - 1 + n + 1)
            OBVIOUS
          <6> QED BY <6>1, <6>2
        <5> QED BY <5>2, <5>3, <5>4
      <4>3. Len(todo') = doing'.placed + doing'.displaced + 2
        BY <1>1, <2>3, <4>1
      <4>4. \A i \in 1..Len(todo') :
              todo'[i] = IF i <= doing'.placed THEN "unplace"
                         ELSE IF i <= doing'.placed + doing'.displaced THEN "putback"
                         ELSE IF i = doing'.placed + doing'.displaced + 1
                              THEN "oldruntime" ELSE "again"
        <5>1. Len(todo') = p + d + 1 /\ p - 1 + d + 2 = p + d + 1
          BY <1>1, <4>1, <4>3
        <5> QED BY <4>1, <4>2, <5>1
      <4> QED BY <1>3, <4>3, <4>4 DEF RestoreInv, RestoringBack
    <3>3. CASE p = 0 /\ 1 <= d
      <4>1. doing'.placed = 0 /\ doing'.displaced = d - 1
        BY <1>1, <3>1, <3>3
      <4>2. \A i \in 1..(d + 1) :
              todo'[i] = IF i <= 0 THEN "unplace" ELSE IF i <= d - 1 THEN "putback"
                         ELSE IF i = d - 1 + 1 THEN "oldruntime" ELSE "again"
        BY <1>1, <2>3, <3>3
      <4> QED BY <1>1, <1>3, <2>3, <3>3, <4>1, <4>2 DEF RestoreInv, RestoringBack
    <3>4. CASE p = 0 /\ d = 0
      <4>1. doing'.placed = 0 /\ doing'.displaced = 0
        BY <3>1, <3>4
      <4>2. Len(todo') = 1 /\ todo'[1] = "again"
        BY <1>1, <2>3, <3>4
      <4> QED BY <1>3, <4>1, <4>2 DEF RestoreInv, RestoringBack
    <3> QED BY <1>1, <3>2, <3>3, <3>4
  <2>4. todo # <<>>
    OBVIOUS
  <2> QED BY <2>1, <2>2, <2>3, <2>4 DEF RestoringBack
<1> QED BY <1>1, <1>2, <1>3

-----------------------------------------------------------------------------
(* A command takes its next step: Onward says what none of the steps that go *)
(* on with todo changes, ConfigKept and RecordKept what the files keep.      *)

SameCall ==
  /\ doing' \in Calls
  /\ doing'.op = doing.op /\ doing'.name = doing.name /\ doing'.record = doing.record
  /\ doing'.goal = doing.goal /\ doing'.before = doing.before /\ doing'.now = doing.now
  /\ doing'.active = doing.active /\ doing'.back = doing.back

Moved ==
  /\ doing'.displaced = IF Head(todo) = "displace" THEN doing.displaced + 1
                        ELSE IF Head(todo) = "putback" THEN doing.displaced - 1
                        ELSE doing.displaced
  /\ doing'.placed = IF Head(todo) = "place" THEN doing.placed + 1
                     ELSE IF Head(todo) = "unplace" THEN doing.placed - 1
                     ELSE doing.placed

Around ==
  /\ UNCHANGED <<day, backup, report, budget>>
  /\ wreck' \in {wreck, "retry", "damaged"}
  /\ troubles' = troubles \/ Fault

Onward == todo # <<>> /\ todo' = Tail(todo) /\ SameCall /\ Moved /\ Around

ConfigKept ==
  \/ disk'.config = disk.config /\ Head(todo) # "config"
  \/ doing.op \in {"endpoint", "port", "restore"}
  \/ doing.op \in {"initialize", "migrate"} /\ (doing.back \/ disk'.config \in Configs)

RecordKept == Head(todo) \in {"reclient", "rekeys"} => disk'.meta[doing.name] \in Records

LinkKept == link' \in Texts \cup {None} /\ (doing.active \/ link' \in {link, None})

(* A step that goes on keeps to the path. *)
LEMMA FlowGoes ==
  ASSUME TypeInv, Onward
  PROVE  /\ FlowInv' /\ RestoreInv'
         /\ Now = Head(todo)
         /\ doing.op # "restore" => Sourced(doing.op, doing.back, Head(todo), Now')
<1>1. /\ todo \in Seq(Steps) /\ doing \in Calls /\ doing # None /\ doing.op \in Ops
      /\ doing.back \in BOOLEAN /\ Head(todo) = todo[1] /\ todo # <<>>
      /\ todo' = Tail(todo) /\ doing' \in Calls /\ doing'.op = doing.op /\ doing'.back = doing.back
  BY TodoFacts DEF TypeInv, Calls, Onward, SameCall
<1>2. Now = Head(todo) /\ Now' = HeadOr(Tail(todo), "end")
  BY <1>1 DEF Now, HeadOr
<1>3. CASE doing.op = "restore"
  <2>1. RestoreInv'
    BY <1>1, <1>3, RestoreGoes DEF TypeInv, Onward, Moved
  <2> QED BY <1>1, <1>2, <1>3, <2>1 DEF FlowInv
<1>4. CASE doing.op # "restore"
  <2>1. PathTo(todo, Edges(doing.op, doing.back), "end")
    BY <1>1, <1>4 DEF TypeInv, FlowInv
  <2>2. /\ PathTo(Tail(todo), Edges(doing.op, doing.back), "end")
        /\ <<Head(todo), HeadOr(Tail(todo), "end")>> \in Edges(doing.op, doing.back)
    BY <1>1, <2>1, Continued
  <2>3. FlowInv'
    BY <1>1, <2>2 DEF FlowInv
  <2>4. Sourced(doing.op, doing.back, Head(todo), Now')
    BY <1>1, <1>2, <1>4, <2>2, Sources
  <2> QED BY <1>1, <1>2, <1>4, <2>3, <2>4 DEF RestoreInv
<1> QED BY <1>3, <1>4

LEMMA CallGoes ==
  ASSUME TypeInv, doing # None, SameCall, Around, LinkKept
  PROVE  CallInv'
<1>1. /\ CallInv /\ doing \in Calls /\ doing.op \in Ops /\ doing.active \in BOOLEAN
      /\ backup' = backup /\ day' = day
  BY DEF TypeInv, TypeOK, Calls, Around
<1> QED BY <1>1 DEF CallInv, SameCall, LinkKept

LEMMA PlaceGoes ==
  ASSUME TypeInv, Onward, ConfigKept, RecordKept
  PROVE  PlaceInv'
<1>1. /\ PlaceInv /\ doing # None /\ doing' # None /\ Now = Head(todo)
      /\ doing'.op = doing.op /\ doing'.back = doing.back /\ doing'.name = doing.name
      /\ doing.op \in Ops /\ doing.back \in BOOLEAN
      /\ doing.op # "restore" => Sourced(doing.op, doing.back, Head(todo), Now')
  BY FlowGoes, TodoFacts, NoneAssumption DEF TypeInv, Onward, SameCall, Calls, NoneAssumption
<1>2. doing.op \in {"add", "import", "revoke", "rotate", "expire"} => disk'.config \in Configs
  BY <1>1 DEF PlaceInv, ConfigKept
<1>3. ASSUME doing.op \in {"initialize", "migrate"}, ~doing.back, Now' # "config"
      PROVE  disk'.config \in Configs
  <2>1. CASE disk'.config \in Configs
    BY <2>1
  <2>2. CASE disk'.config = disk.config /\ Now # "config"
    BY <1>1, <1>3, <2>2 DEF PlaceInv
  <2> QED BY <1>1, <1>3, <2>1, <2>2 DEF ConfigKept
<1>4. ASSUME doing.op # "restore", Now' \in {"rekeys", "reactivate"}
      PROVE  disk'.meta[doing.name] \in Records
  BY <1>1, <1>4 DEF Sourced, RecordKept
<1> QED BY <1>1, <1>2, <1>3, <1>4 DEF PlaceInv

LEMMA TypeGoes ==
  ASSUME TypeInv, Onward, ConfigKept, RecordKept, LinkKept, disk' \in Disks,
         retired' \in {retired, {}}
  PROVE  TypeInv'
<1>1. /\ doing # None /\ doing' \in Calls /\ doing' # None
      /\ Tail(todo) \in Seq(Steps) /\ todo' = Tail(todo)
  BY TodoFacts, NoneAssumption DEF TypeInv, Onward, SameCall, NoneAssumption
<1>2. CallInv' /\ FlowInv' /\ RestoreInv' /\ PlaceInv'
  BY <1>1, FlowGoes, CallGoes, PlaceGoes DEF Onward
<1>3. troubles' \in 0..MaxTroubles
  BY BoundAssumption DEF TypeInv, TypeOK, Onward, Around, Fault
<1>4. TypeOK'
  BY <1>1, <1>3 DEF TypeInv, TypeOK, Onward, Around, LinkKept, budget
<1> QED BY <1>2, <1>4 DEF TypeInv

(* What the next step says of the command that takes it. *)
LEMMA HeadFacts ==
  ASSUME TypeInv, todo # <<>>
  PROVE  /\ doing \in Calls /\ doing # None /\ doing.op \in Ops /\ doing.back \in BOOLEAN
         /\ disk \in Disks /\ Now = Head(todo)
         /\ IF doing.op = "restore"
            THEN Head(todo) \in {"displace", "place", "runtime", "act", "verify",
                                 "unplace", "putback", "oldruntime", "again"}
            ELSE Sourced(doing.op, doing.back, Head(todo), HeadOr(Tail(todo), "end"))
<1>1. /\ todo \in Seq(Steps) /\ doing \in Calls /\ doing # None /\ doing.op \in Ops
      /\ doing.back \in BOOLEAN /\ Head(todo) = todo[1] /\ disk \in Disks
  BY TodoFacts DEF TypeInv, TypeOK, Calls
<1>2. Now = Head(todo)
  BY <1>1 DEF Now, HeadOr
<1>3. CASE doing.op = "restore"
  BY <1>1, <1>2, <1>3, RestoreHead DEF TypeInv
<1>4. CASE doing.op # "restore"
  <2>1. PathTo(todo, Edges(doing.op, doing.back), "end")
    BY <1>1, <1>4 DEF TypeInv, FlowInv
  <2>2. <<Head(todo), HeadOr(Tail(todo), "end")>> \in Edges(doing.op, doing.back)
    BY <1>1, <2>1, Continued
  <2> QED BY <1>1, <1>2, <1>4, <2>2, Sources
<1> QED BY <1>3, <1>4

(* A write of files only. *)
LEMMA WriteGoes ==
  ASSUME TypeInv, todo # <<>>, todo' = Tail(todo),
         Head(todo) \notin {"displace", "place", "unplace", "putback"},
         UNCHANGED <<link, doing, wreck, troubles>>, Stepping,
         disk' \in Disks, ConfigKept, RecordKept
  PROVE  Onward /\ TypeInv'
<1>1. doing \in Calls /\ link \in Texts \cup {None}
  BY HeadFacts DEF TypeInv, TypeOK
<1>2. Onward
  BY <1>1 DEF Onward, SameCall, Moved, Around, Stepping, history
<1>3. LinkKept /\ retired' = retired
  BY <1>1 DEF LinkKept, Stepping, history
<1> QED BY <1>2, <1>3, TypeGoes

LEMMA WriteConfigStep ==
  ASSUME TypeInv, WriteConfig
  PROVE  Onward /\ TypeInv'
<1>1. todo # <<>> /\ Head(todo) = "config" /\ todo' = Tail(todo)
      /\ disk' = [disk EXCEPT !.config = doing.goal, !.identity = TRUE]
      /\ UNCHANGED <<link, doing, wreck, troubles>> /\ Stepping
  BY DEF WriteConfig, At, Write, Forth
<1>2. doing.op \in {"initialize", "migrate", "endpoint", "port"} /\ doing.goal \in Configs
  BY <1>1, HeadFacts DEF Sourced, TypeInv, CallInv
<1>3. disk' \in Disks /\ disk'.config \in Configs
  BY <1>1, <1>2, HeadFacts DEF Disks
<1> QED BY <1>1, <1>2, <1>3, WriteGoes DEF ConfigKept, RecordKept

LEMMA CreateClientStep ==
  ASSUME TypeInv, CreateClient
  PROVE  Onward /\ TypeInv'
<1>1. todo # <<>> /\ Head(todo) = "create" /\ todo' = Tail(todo)
      /\ disk' = [disk EXCEPT !.meta[doing.name] = Partial, !.keys[doing.name] = doing.record.key]
      /\ UNCHANGED <<link, doing, wreck, troubles>> /\ Stepping
  BY DEF CreateClient, At, Write, Forth
<1>2. doing.op \in Making /\ doing.record \in Records
  BY <1>1, HeadFacts DEF Sourced, TypeInv, CallInv
<1>3. disk' \in Disks /\ disk'.config = disk.config
  BY <1>1, <1>2, HeadFacts DEF Disks, Records
<1> QED BY <1>1, <1>3, WriteGoes DEF ConfigKept, RecordKept

LEMMA DescribeClientStep ==
  ASSUME TypeInv, DescribeClient
  PROVE  Onward /\ TypeInv'
<1>1. todo # <<>> /\ Head(todo) = "describe" /\ todo' = Tail(todo)
      /\ disk' = [disk EXCEPT !.meta[doing.name] = doing.record]
      /\ UNCHANGED <<link, doing, wreck, troubles>> /\ Stepping
  BY DEF DescribeClient, At, Write, Forth
<1>2. doing.op \in Making /\ doing.record \in Records
  BY <1>1, HeadFacts DEF Sourced, TypeInv, CallInv
<1>3. disk' \in Disks /\ disk'.config = disk.config
  BY <1>1, <1>2, HeadFacts DEF Disks
<1> QED BY <1>1, <1>3, WriteGoes DEF ConfigKept, RecordKept

LEMMA RemoveSteps ==
  ASSUME TypeInv, RemoveClient \/ RemoveKeys \/ CompareServer \/ Verify
  PROVE  Onward /\ TypeInv'
<1>1. /\ todo # <<>> /\ todo' = Tail(todo)
      /\ Head(todo) \in {"unclient", "unkeys", "compare", "verify"}
      /\ UNCHANGED <<link, doing, wreck, troubles>> /\ Stepping
  BY DEF RemoveClient, RemoveKeys, CompareServer, Verify, At, Write, Forth
<1>2. \/ disk' = disk
      \/ disk' = [disk EXCEPT !.meta[doing.name] = None]
      \/ disk' = [disk EXCEPT !.keys[doing.name] = None]
  BY DEF RemoveClient, RemoveKeys, CompareServer, Verify, Write
<1>3. disk' \in Disks /\ disk'.config = disk.config
  BY <1>1, <1>2, HeadFacts DEF Disks
<1> QED BY <1>1, <1>3, WriteGoes DEF ConfigKept, RecordKept

(* One of several files of the same step is written: the step stays. *)
LEMMA StayGoes ==
  ASSUME TypeInv, doing # None, UNCHANGED <<link, running, wreck, troubles>>, Stepping,
         disk' \in Disks, disk'.config = disk.config,
         Now \notin {"rekeys", "reactivate"}
  PROVE  TypeInv'
<1>1. /\ doing' = doing /\ todo' = todo /\ Now' = Now /\ day' = day /\ backup' = backup
      /\ link' = link /\ report' = report /\ retired' = retired /\ wreck' = wreck
      /\ minted' = minted /\ commands' = commands /\ troubles' = troubles
  BY DEF running, Stepping, history, budget, Now
<1>2. TypeOK'
  BY <1>1 DEF TypeInv, TypeOK
<1>3. CallInv'
  BY <1>1 DEF TypeInv, CallInv
<1>4. FlowInv' /\ RestoreInv'
  BY <1>1 DEF TypeInv, FlowInv, RestoreInv, RestoringForth, RestoringBack
<1>5. PlaceInv'
  BY <1>1 DEF TypeInv, PlaceInv
<1> QED BY <1>2, <1>3, <1>4, <1>5 DEF TypeInv

LEMMA WriteProfilesStep ==
  ASSUME TypeInv, WriteProfiles
  PROVE  TypeInv' /\ (Onward \/ (UNCHANGED running /\ Stepping))
<1>1. todo # <<>> /\ Head(todo) = "profiles"
  BY DEF WriteProfiles, At
<1>2. /\ doing.op \in {"endpoint", "port"} /\ doing.goal \in Configs /\ doing # None
      /\ disk \in Disks /\ Now = "profiles"
  BY <1>1, HeadFacts DEF Sourced, TypeInv, CallInv
<1>3. CASE Write(disk)
  BY <1>1, <1>2, <1>3, WriteGoes DEF ConfigKept, RecordKept, Write, Forth
<1>4. CASE \E n \in OutOfDate :
             /\ disk' = [disk EXCEPT !.meta[n].profile = doing.goal]
             /\ UNCHANGED <<link, running, wreck, troubles>> /\ Stepping
  <2>1. PICK n \in OutOfDate : disk' = [disk EXCEPT !.meta[n].profile = doing.goal]
    BY <1>4
  <2>2. n \in Described(disk.meta) /\ disk.meta \in Metas
    BY <1>2, <2>1 DEF OutOfDate, Disks, Metas
  <2>3. [disk.meta[n] EXCEPT !.profile = doing.goal] \in Records
    BY <1>2, <2>2, DescribedRecords DEF Records
  <2>4. disk' = [disk EXCEPT !.meta[n] = [disk.meta[n] EXCEPT !.profile = doing.goal]]
    BY <1>2, <2>1, <2>2 DEF Disks, Described
  <2>5. disk' \in Disks /\ disk'.config = disk.config
    BY <1>2, <2>2, <2>3, <2>4, FieldTyped
  <2> QED BY <1>2, <1>4, <2>5, StayGoes
<1> QED BY <1>3, <1>4 DEF WriteProfiles

LEMMA MarkExpiredStep ==
  ASSUME TypeInv, MarkExpired
  PROVE  TypeInv' /\ (Onward \/ (UNCHANGED running /\ Stepping))
<1>1. todo # <<>> /\ Head(todo) = "mark"
  BY DEF MarkExpired, At
<1>2. doing # None /\ disk \in Disks /\ Now = "mark"
  BY <1>1, HeadFacts
<1>3. CASE Write(disk)
  BY <1>1, <1>2, <1>3, WriteGoes DEF ConfigKept, RecordKept, Write, Forth
<1>4. CASE \E n \in Due :
             /\ disk' = [disk EXCEPT !.meta[n].state = "expired"]
             /\ UNCHANGED <<link, running, wreck, troubles>> /\ Stepping
  <2>1. PICK n \in Due : disk' = [disk EXCEPT !.meta[n].state = "expired"]
    BY <1>4
  <2>2. n \in Described(disk.meta) /\ disk.meta \in Metas
    BY <1>2, <2>1 DEF Due, Disks, Metas
  <2>3. [disk.meta[n] EXCEPT !.state = "expired"] \in Records
    BY <2>2, DescribedRecords DEF Records
  <2>4. disk' = [disk EXCEPT !.meta[n] = [disk.meta[n] EXCEPT !.state = "expired"]]
    BY <1>2, <2>1, <2>2 DEF Disks, Described
  <2>5. disk' \in Disks /\ disk'.config = disk.config
    BY <1>2, <2>2, <2>3, <2>4, FieldTyped
  <2> QED BY <1>2, <1>4, <2>5, StayGoes
<1> QED BY <1>3, <1>4 DEF MarkExpired

LEMMA ServedTyped ==
  ASSUME TypeInv, todo # <<>>, Head(todo) = "render"
  PROVE  Served \in Metas /\ disk.config \in Configs /\ day \in Days
<1>1. /\ doing \in Calls /\ doing.op # "restore" /\ disk \in Disks /\ doing # None
      /\ Now = "render" /\ doing.back \in BOOLEAN
      /\ Sourced(doing.op, doing.back, "render", HeadOr(Tail(todo), "end"))
  BY HeadFacts
<1>2. doing.op \in {"initialize", "migrate"} => ~doing.back /\ doing.record \in Records
  BY <1>1 DEF Sourced, TypeInv, CallInv, Making
<1>3. disk.config \in Configs
  BY <1>1, <1>2 DEF Sourced, TypeInv, PlaceInv
<1>4. disk.meta \in Metas /\ doing.before.meta \in Metas
  BY <1>1 DEF Calls, Disks, Metas
<1>5. Served \in Metas
  BY <1>2, <1>4 DEF Served, Metas
<1> QED BY <1>3, <1>5 DEF TypeInv, TypeOK

LEMMA RenderServerStep ==
  ASSUME TypeInv, RenderServer
  PROVE  Onward /\ TypeInv'
<1>1. /\ todo # <<>> /\ Head(todo) = "render" /\ todo' = Tail(todo)
      /\ UNCHANGED <<disk, link, wreck, troubles>> /\ Stepping
  BY DEF RenderServer, At, Forth
<1>2. /\ doing \in Calls /\ doing # None /\ disk \in Disks /\ doing.op # "restore"
      /\ link \in Texts \cup {None}
  BY <1>1, HeadFacts DEF TypeInv, TypeOK
<1> DEFINE d == IF doing.op = "expire" THEN doing.now ELSE day
           t == Render(disk.config, Served, d)
           p == [generated |-> disk.generated, runtime |-> disk.runtime]
<1>3. t \in Texts
  BY <1>1, ServedTyped, RenderTyped
<1>4. p \in [generated : Texts \cup {None}, runtime : Texts \cup {None}]
  BY <1>2 DEF Disks
<1>5. doing' = [doing EXCEPT !.text = t, !.prior = p]
  BY DEF RenderServer
<1> HIDE DEF t, p, d
<1>6. doing' \in Calls /\ SameCall /\ Moved
  BY <1>1, <1>2, <1>3, <1>4, <1>5 DEF Calls, SameCall, Moved
<1>7. Onward /\ LinkKept /\ retired' = retired /\ ConfigKept /\ RecordKept
  BY <1>1, <1>2, <1>6 DEF Onward, Around, Stepping, history, LinkKept, ConfigKept, RecordKept
<1> QED BY <1>1, <1>2, <1>7, TypeGoes

LEMMA WriteTextSteps ==
  ASSUME TypeInv, WriteGenerated \/ OldRuntime \/ OldGenerated \/ NoRuntime
  PROVE  Onward /\ TypeInv'
<1>1. /\ todo # <<>> /\ todo' = Tail(todo)
      /\ Head(todo) \in {"generated", "oldruntime", "oldgenerated", "noruntime"}
      /\ UNCHANGED <<link, doing, wreck, troubles>> /\ Stepping
  BY DEF WriteGenerated, OldRuntime, OldGenerated, NoRuntime, At, Write, Forth
<1>2. /\ doing \in Calls /\ disk \in Disks
      /\ doing.text \in Texts \cup {None}
      /\ doing.prior.runtime \in Texts \cup {None} /\ doing.prior.generated \in Texts \cup {None}
  BY <1>1, HeadFacts DEF Calls
<1>3. \E t \in Texts \cup {None} :
        disk' = [disk EXCEPT !.generated = t] \/ disk' = [disk EXCEPT !.runtime = t]
  BY <1>2 DEF WriteGenerated, OldRuntime, OldGenerated, NoRuntime, Write
<1>4. disk' \in Disks /\ disk'.config = disk.config
  BY <1>2, <1>3 DEF Disks
<1> QED BY <1>1, <1>4, WriteGoes DEF ConfigKept, RecordKept

LEMMA WriteRuntimeStep ==
  ASSUME TypeInv, WriteRuntime
  PROVE  Onward /\ TypeInv'
<1> DEFINE t == IF doing.op = "restore" THEN disk.generated ELSE doing.text
<1>1. /\ todo # <<>> /\ todo' = Tail(todo) /\ Head(todo) = "runtime"
      /\ disk' = [disk EXCEPT !.runtime = t]
      /\ retired' \in {retired, {}}
      /\ UNCHANGED <<link, doing, wreck, troubles, day, backup, report, budget>>
  BY DEF WriteRuntime, At, Forth
<1>2. doing \in Calls /\ disk \in Disks /\ t \in Texts \cup {None} /\ link \in Texts \cup {None}
  BY <1>1, HeadFacts DEF Calls, Disks, TypeInv, TypeOK
<1> HIDE DEF t
<1>3. disk' \in Disks /\ disk'.config = disk.config
  BY <1>1, <1>2 DEF Disks
<1>4. Onward /\ LinkKept /\ ConfigKept /\ RecordKept
  BY <1>1, <1>2, <1>3 DEF Onward, SameCall, Moved, Around, LinkKept, ConfigKept, RecordKept
<1> QED BY <1>1, <1>3, <1>4, TypeGoes

LEMMA ActSteps ==
  ASSUME TypeInv, Act \/ ActUnapplied
  PROVE  Onward /\ TypeInv'
<1>1. /\ todo # <<>> /\ todo' = Tail(todo) /\ Head(todo) = "act"
      /\ doing' = [doing EXCEPT !.committed = TRUE]
      /\ disk' = disk /\ Stepping
      /\ link' = link \/ (doing.active /\ link' = disk.runtime)
      /\ wreck' \in {wreck, "damaged"}
      /\ troubles' = troubles \/ Fault
  BY DEF Act, ActUnapplied, At, Forth, Note, Fault
<1>2. /\ doing \in Calls /\ disk \in Disks /\ link \in Texts \cup {None}
      /\ disk.runtime \in Texts \cup {None}
  BY <1>1, HeadFacts DEF Disks, TypeInv, TypeOK
<1>3. doing' \in Calls /\ SameCall /\ Moved
  BY <1>1, <1>2 DEF Calls, SameCall, Moved
<1>4. Onward /\ LinkKept /\ ConfigKept /\ RecordKept /\ retired' = retired
  BY <1>1, <1>2, <1>3 DEF Onward, Around, Stepping, history, LinkKept, ConfigKept, RecordKept
<1> QED BY <1>1, <1>2, <1>4, TypeGoes

LEMMA AgainSteps ==
  ASSUME TypeInv, Again \/ AgainFails
  PROVE  Onward /\ TypeInv'
<1>1. /\ todo # <<>> /\ todo' = Tail(todo) /\ Head(todo) = "again"
      /\ disk' = disk /\ doing' = doing /\ Stepping
      /\ link' = link \/ (doing.active /\ link' \in {None, link, disk.runtime})
      /\ wreck' \in {wreck, "retry", "damaged"}
      /\ troubles' = troubles \/ Fault
  BY DEF Again, AgainFails, LinkAfterFailure, At, Forth, Note, Fault
<1>2. /\ doing \in Calls /\ disk \in Disks /\ link \in Texts \cup {None}
      /\ disk.runtime \in Texts \cup {None}
  BY <1>1, HeadFacts DEF Disks, TypeInv, TypeOK
<1>3. Onward /\ LinkKept /\ ConfigKept /\ RecordKept /\ retired' = retired
  BY <1>1, <1>2 DEF Onward, SameCall, Moved, Around, Stepping, history, LinkKept, ConfigKept, RecordKept
<1> QED BY <1>1, <1>2, <1>3, TypeGoes

LEMMA HaltSteps ==
  ASSUME TypeInv, Halt \/ HaltFails
  PROVE  Onward /\ TypeInv'
<1>1. /\ todo # <<>> /\ todo' = Tail(todo) /\ Head(todo) = "halt"
      /\ disk' = disk /\ doing' = doing /\ Stepping
      /\ link' \in {None, link}
      /\ wreck' \in {wreck, "retry", "damaged"}
      /\ troubles' = troubles \/ Fault
  BY DEF Halt, HaltFails, At, Forth, Note, Fault
<1>2. doing \in Calls /\ disk \in Disks /\ link \in Texts \cup {None}
  BY <1>1, HeadFacts DEF TypeInv, TypeOK
<1>3. Onward /\ LinkKept /\ ConfigKept /\ RecordKept /\ retired' = retired
  BY <1>1, <1>2 DEF Onward, SameCall, Moved, Around, Stepping, history, LinkKept, ConfigKept, RecordKept
<1> QED BY <1>1, <1>2, <1>3, TypeGoes

LEMMA ReturnSteps ==
  ASSUME TypeInv, ReturnClient \/ ReturnKeys
  PROVE  Onward /\ TypeInv'
<1>1. /\ todo # <<>> /\ todo' = Tail(todo) /\ Head(todo) \in {"reclient", "rekeys"}
      /\ UNCHANGED <<link, doing, wreck, troubles>> /\ Stepping
  BY DEF ReturnClient, ReturnKeys, At, Write, Forth
<1>2. /\ doing \in Calls /\ disk \in Disks /\ doing.op \in {"import", "rotate"}
      /\ doing.name \in Described(doing.before.meta) /\ Now = Head(todo)
  BY <1>1, HeadFacts DEF Sourced, TypeInv, CallInv
<1> DEFINE n == doing.name
           b == doing.before
<1>3. b \in Disks /\ n \in Names /\ b.meta[n] \in Records /\ b.keys[n] \in Keys \cup {None}
  BY <1>2 DEF Calls, Disks, Described
<1>4. CASE ReturnClient
  <2> DEFINE r == [b.meta[n] EXCEPT !.state = IF doing.op = "rotate" THEN "rotated" ELSE @]
  <2>1. r \in Records
    BY <1>3 DEF Records
  <2>2. disk' = [disk EXCEPT !.meta[n] = r]
    BY <1>4 DEF ReturnClient, Write
  <2> HIDE DEF r, n
  <2>3. disk' \in Disks /\ disk'.config = disk.config /\ disk'.meta[n] = r
    BY <1>2, <1>3, <2>1, <2>2 DEF Disks
  <2> QED BY <1>1, <2>1, <2>3, WriteGoes DEF ConfigKept, RecordKept, n
<1>5. CASE ReturnKeys
  <2>1. disk' = [disk EXCEPT !.keys[n] = b.keys[n]] /\ Head(todo) = "rekeys"
    BY <1>5 DEF ReturnKeys, Write, At
  <2>2. disk.meta[n] \in Records
    BY <1>1, <1>2, <2>1, HeadFacts DEF TypeInv, PlaceInv
  <2>3. disk' \in Disks /\ disk'.config = disk.config /\ disk'.meta[n] = disk.meta[n]
    BY <1>2, <1>3, <2>1 DEF Disks
  <2> QED BY <1>1, <2>2, <2>3, WriteGoes DEF ConfigKept, RecordKept
<1> QED BY <1>4, <1>5

LEMMA ReactivateStep ==
  ASSUME TypeInv, Reactivate
  PROVE  Onward /\ TypeInv'
<1>1. /\ todo # <<>> /\ todo' = Tail(todo) /\ Head(todo) = "reactivate"
      /\ disk' = [disk EXCEPT !.meta[doing.name].state = "active"]
      /\ wreck' \in {wreck, "damaged"}
      /\ UNCHANGED <<link, doing, troubles>> /\ Stepping
  BY DEF Reactivate, At, Forth, Note
<1>2. /\ doing \in Calls /\ doing # None /\ disk \in Disks /\ doing.op = "rotate" /\ Now = "reactivate"
      /\ doing.name \in Names /\ link \in Texts \cup {None}
  <2>1. doing \in Calls /\ doing # None /\ disk \in Disks /\ doing.op = "rotate" /\ Now = "reactivate"
    BY <1>1, HeadFacts DEF Sourced
  <2>2. doing.name \in Names
    BY <2>1 DEF TypeInv, CallInv, Making
  <2>3. link \in Texts \cup {None}
    BY DEF TypeInv, TypeOK
  <2> QED BY <2>1, <2>2, <2>3
<1>3. disk.meta[doing.name] \in Records
  BY <1>2 DEF TypeInv, PlaceInv
<1>4. disk' \in Disks /\ disk'.config = disk.config
  BY <1>1, <1>2, <1>3 DEF Disks, Records
<1>5. Onward /\ LinkKept /\ ConfigKept /\ RecordKept /\ retired' = retired
  BY <1>1, <1>2, <1>4 DEF Onward, SameCall, Moved, Around, Stepping, history, LinkKept, ConfigKept, RecordKept
<1> QED BY <1>4, <1>5, TypeGoes

LEMMA OldSteps ==
  ASSUME TypeInv, OldConfig \/ OldMetadata \/ Unconfigure
  PROVE  Onward /\ TypeInv'
<1>1. /\ todo # <<>> /\ todo' = Tail(todo)
      /\ Head(todo) \in {"oldconfig", "oldmetadata", "unconfigure"}
      /\ UNCHANGED <<link, doing, wreck, troubles>> /\ Stepping
  BY DEF OldConfig, OldMetadata, Unconfigure, At, Write, Forth
<1>2. /\ doing \in Calls /\ disk \in Disks /\ doing.before \in Disks
      /\ Sourced(doing.op, doing.back, Head(todo), HeadOr(Tail(todo), "end"))
  BY <1>1, HeadFacts DEF Calls
<1>3. CASE OldConfig
  <2>1. disk' = [disk EXCEPT !.config = doing.before.config] /\ Head(todo) = "oldconfig"
    BY <1>3 DEF OldConfig, Write, At
  <2>2. disk' \in Disks /\ doing.op \in {"endpoint", "port"}
    BY <1>2, <2>1 DEF Disks, Sourced
  <2> QED BY <1>1, <2>1, <2>2, WriteGoes DEF ConfigKept, RecordKept
<1>4. CASE OldMetadata
  <2>1. disk' = [disk EXCEPT !.meta = doing.before.meta]
    BY <1>4 DEF OldMetadata, Write
  <2>2. disk' \in Disks /\ disk'.config = disk.config
    BY <1>2, <2>1 DEF Disks
  <2> QED BY <1>1, <2>2, WriteGoes DEF ConfigKept, RecordKept
<1>5. CASE Unconfigure
  <2>1. /\ disk' = [disk EXCEPT !.config = None, !.identity = FALSE, !.generated = None]
        /\ Head(todo) = "unconfigure"
    BY <1>5 DEF Unconfigure, Write, At
  <2>2. disk' \in Disks /\ doing.op \in {"initialize", "migrate"} /\ doing.back
    BY <1>2, <2>1 DEF Disks, Sourced
  <2> QED BY <1>1, <2>1, <2>2, WriteGoes DEF ConfigKept, RecordKept
<1> QED BY <1>3, <1>4, <1>5

LEMMA SwapSteps ==
  ASSUME TypeInv, Displace \/ Place \/ Unplace \/ PutBack
  PROVE  Onward /\ TypeInv' /\ disk'.runtime = disk.runtime
<1>1. /\ todo # <<>> /\ todo' = Tail(todo)
      /\ Head(todo) \in {"displace", "place", "unplace", "putback"}
      /\ UNCHANGED <<link, wreck, troubles>> /\ Stepping
  BY DEF Displace, Place, Unplace, PutBack, At, Forth
<1>2. doing \in Calls /\ doing # None /\ disk \in Disks /\ doing.op = "restore"
      /\ link \in Texts \cup {None} /\ backup \in Disks /\ doing.before \in Disks
      /\ RestoreInv /\ TypeOK
  BY <1>1, HeadFacts DEF Sourced, Calls, TypeInv, TypeOK, CallInv
<1>3. /\ Head(todo) = "displace" => doing.displaced \in 0..3
      /\ Head(todo) = "place" => doing.placed \in 0..3
      /\ Head(todo) = "unplace" => doing.placed \in 1..4
      /\ Head(todo) = "putback" => doing.displaced \in 1..4
  BY <1>1, <1>2, RestoreHead
<1>4. \E i \in 1..4, from \in {Nothing, backup, doing.before} : disk' = With(disk, Components[i], from)
  <2>1. CASE Displace
    BY <1>3, <2>1 DEF Displace, At
  <2>2. CASE Place
    BY <1>3, <2>2 DEF Place, At
  <2>3. CASE Unplace
    BY <1>3, <2>3 DEF Unplace, At
  <2>4. CASE PutBack
    BY <1>3, <2>4 DEF PutBack, At
  <2> QED BY <2>1, <2>2, <2>3, <2>4
<1>5. PICK i \in 1..4, from \in {Nothing, backup, doing.before} : disk' = With(disk, Components[i], from)
  BY <1>4
<1>6. from \in Disks
  BY <1>2, NothingTyped
<1>7. disk' \in Disks /\ disk'.runtime = disk.runtime
  BY <1>2, <1>5, <1>6, WithTyped, WithRuntime
<1>8. doing' \in Calls /\ SameCall /\ Moved
  <2>1. CASE Displace
    BY <1>2, <1>3, <2>1 DEF Displace, At, Calls, SameCall, Moved
  <2>2. CASE Place
    BY <1>2, <1>3, <2>2 DEF Place, At, Calls, SameCall, Moved
  <2>3. CASE Unplace
    BY <1>2, <1>3, <2>3 DEF Unplace, At, Calls, SameCall, Moved
  <2>4. CASE PutBack
    BY <1>2, <1>3, <2>4 DEF PutBack, At, Calls, SameCall, Moved
  <2> QED BY <2>1, <2>2, <2>3, <2>4
<1>9. Onward /\ LinkKept /\ ConfigKept /\ RecordKept /\ retired' = retired
  BY <1>1, <1>2, <1>8 DEF Onward, Around, Stepping, history, LinkKept, ConfigKept, RecordKept
<1> QED BY <1>7, <1>9, TypeGoes

-----------------------------------------------------------------------------
(* The steps that replace what is left to do *)

(* A command goes on with another program: forwards expire alone does so. *)
LEMMA TurnGoes ==
  ASSUME TypeInv, doing # None, NEW back \in BOOLEAN,
         doing' = [doing EXCEPT !.back = back], doing.back => back,
         todo' \in Seq(Steps), disk' = disk, Stepping, LinkKept,
         wreck' \in {wreck, "retry", "damaged"}, troubles' = troubles \/ Fault,
         doing.op # "restore" => /\ PathTo(todo', Edges(doing.op, back), "end")
                                 /\ Now' \notin {"config", "rekeys", "reactivate"},
         doing.op = "restore" => back /\ RestoringBack',
         ~back => doing.op \notin {"initialize", "migrate"}
  PROVE  TypeInv'
<1>1. /\ doing \in Calls /\ doing.op \in Ops /\ doing.back \in BOOLEAN /\ disk \in Disks
  BY DEF TypeInv, TypeOK, Calls
<1>2. /\ doing' \in Calls /\ doing' # None /\ doing'.back = back
      /\ doing'.op = doing.op /\ doing'.name = doing.name /\ doing'.record = doing.record
      /\ doing'.goal = doing.goal /\ doing'.before = doing.before /\ doing'.now = doing.now
      /\ doing'.active = doing.active
  BY <1>1, NoneAssumption DEF Calls, NoneAssumption
<1>3. CallInv'
  BY <1>1, <1>2 DEF TypeInv, CallInv, Stepping, LinkKept, Calls
<1>4. FlowInv' /\ RestoreInv'
  BY <1>1, <1>2 DEF FlowInv, RestoreInv
<1>5. PlaceInv'
  BY <1>1, <1>2 DEF TypeInv, PlaceInv
<1>6. troubles' \in 0..MaxTroubles
  BY BoundAssumption DEF TypeInv, TypeOK, Fault
<1>7. TypeOK'
  BY <1>1, <1>2, <1>6 DEF TypeInv, TypeOK, Stepping, LinkKept, history, budget
<1> QED BY <1>3, <1>4, <1>5, <1>7 DEF TypeInv

(* A step that fails, whichever it is. *)
LEMMA TurnBack ==
  ASSUME TypeInv, doing # None, doing' = [doing EXCEPT !.back = TRUE],
         todo' \in {Cleanup(doing), Undo(doing)}, disk' = disk, Stepping, LinkKept,
         wreck' \in {wreck, "retry", "damaged"}, troubles' = troubles \/ Fault
  PROVE  TypeInv'
<1>1. /\ doing \in Calls /\ doing.op \in Ops /\ doing.back \in BOOLEAN
      /\ doing.placed \in 0..4 /\ doing.displaced \in 0..4
      /\ doing'.placed = doing.placed /\ doing'.displaced = doing.displaced
  BY DEF TypeInv, TypeOK, Calls
<1>2. CASE doing.op # "restore"
  <2>1. doing.op \in Ops \ {"restore"}
    BY <1>1, <1>2
  <2>2. /\ todo' \in Seq(Steps) /\ PathTo(todo', Backward(doing.op), "end")
        /\ HeadOr(todo', "end") \in {"render", Mending(doing)}
    BY <2>1, CleanupPath, UndoPath
  <2>3. Now' \notin {"config", "rekeys", "reactivate"}
    BY <2>1, <2>2 DEF Now, Mending, Ops
  <2>4. Edges(doing.op, TRUE) = Backward(doing.op)
    BY DEF Edges
  <2> QED BY <1>2, <2>2, <2>3, <2>4, TurnGoes
<1>3. CASE doing.op = "restore"
  <2>1. todo' = Cleanup(doing)
    BY <1>3 DEF Undo
  <2>2. todo' \in Seq(Steps) /\ RestoringBack'
    BY <1>1, <1>3, <2>1, RestoreCleanup DEF RestoringBack
  <2> QED BY <1>3, <2>2, TurnGoes
<1> QED BY <1>2, <1>3

LEMMA ActFailsStep ==
  ASSUME TypeInv, ActFails
  PROVE  TypeInv' /\ LinkKept
<1>1. /\ todo # <<>> /\ Head(todo) = "act" /\ doing.active
      /\ link' \in {None, link, disk.runtime}
      /\ doing' = [doing EXCEPT !.back = TRUE]
      /\ wreck' \in {wreck, "damaged"} /\ Fault
      /\ disk' = disk /\ Stepping
  BY DEF ActFails, At, LinkAfterFailure, Note
<1>2. /\ doing \in Calls /\ doing # None /\ doing.op \in Ops /\ disk \in Disks
      /\ link \in Texts \cup {None} /\ disk.runtime \in Texts \cup {None}
  BY <1>1, HeadFacts DEF TypeInv, TypeOK, Disks
<1>3. LinkKept
  BY <1>1, <1>2 DEF LinkKept
<1>4. CASE doing.op \in {"initialize", "migrate", "restore"}
  BY <1>1, <1>2, <1>3, <1>4, TurnBack DEF ActFails
<1>5. CASE doing.op \notin {"initialize", "migrate", "restore"}
  <2>1. doing.op \in {"add", "revoke", "rotate", "port", "expire"}
    BY <1>1, <1>2, <1>5, HeadFacts DEF Sourced
  <2>2. /\ todo' \in Seq(Steps) /\ PathTo(todo', Backward(doing.op), "end")
        /\ HeadOr(todo', "end") = "oldruntime"
    BY <1>5, <2>1, RetractPath DEF ActFails
  <2>3. Edges(doing.op, TRUE) = Backward(doing.op) /\ Now' = "oldruntime"
    BY <2>2 DEF Edges, Now
  <2> QED BY <1>1, <1>2, <1>3, <1>5, <2>2, <2>3, TurnGoes
<1> QED BY <1>3, <1>4, <1>5

LEMMA StepFailsStep ==
  ASSUME TypeInv, StepFails
  PROVE  TypeInv' /\ LinkKept
<1>1. /\ todo # <<>> /\ todo' \in {Cleanup(doing), Undo(doing)}
      /\ doing' = [doing EXCEPT !.back = TRUE]
      /\ wreck' \in {wreck, "damaged"} /\ (troubles' = troubles \/ Fault)
      /\ disk' = disk /\ link' = link /\ Stepping
  BY DEF StepFails, Note
<1>2. doing # None /\ link \in Texts \cup {None}
  BY <1>1, HeadFacts DEF TypeInv, TypeOK
<1>3. LinkKept
  BY <1>1, <1>2 DEF LinkKept
<1> QED BY <1>1, <1>2, <1>3, TurnBack

LEMMA CheckExpiredStep ==
  ASSUME TypeInv, CheckExpired
  PROVE  /\ TypeInv' /\ LinkKept
         /\ Remaining = {} => Now' = "end"
         /\ Remaining # {} /\ ~doing'.back => Now' = "render"
<1>1. /\ todo # <<>> /\ Head(todo) \in {"check", "recheck"}
      /\ disk' = disk /\ link' = link /\ wreck' = wreck /\ troubles' = troubles /\ Stepping
  BY DEF CheckExpired, At
<1>2. /\ doing # None /\ doing \in Calls /\ doing.op = "expire" /\ ~doing.back
      /\ link \in Texts \cup {None}
  BY <1>1, HeadFacts DEF TypeInv, TypeOK, Sourced
<1>3. LinkKept
  BY <1>1, <1>2 DEF LinkKept
<1>4. CASE Remaining = {}
  <2>1. todo' = <<>> /\ doing' = [doing EXCEPT !.back = FALSE]
    BY <1>4 DEF CheckExpired
  <2>2. todo' \in Seq(Steps) /\ PathTo(todo', Edges("expire", FALSE), "end") /\ Now' = "end"
    BY <2>1 DEF PathTo, Now, HeadOr
  <2> QED BY <1>1, <1>2, <1>3, <1>4, <2>1, <2>2, TurnGoes
<1>5. CASE Remaining # {} /\ Head(todo) = "check"
  <2>1. todo' = Commit \o <<"recheck">> /\ doing' = [doing EXCEPT !.back = FALSE]
    BY <1>1, <1>5 DEF CheckExpired, At
  <2> DEFINE E == Edges("expire", FALSE)
             t == <<"recheck">>
  <2>2. E = Forward("expire") /\ Committing \subseteq E
        /\ <<"act", "recheck">> \in E /\ <<"recheck", "end">> \in E
    BY DEF Edges, Forward
  <2>3. t \in Seq(Steps) /\ Len(t) = 1 /\ t[1] = "recheck"
    BY DEF Steps
  <2> HIDE DEF E, t
  <2>4. PathTo(t, E, "end") /\ HeadOr(t, "end") = "recheck"
    BY <2>2, <2>3, PathOfOne
  <2>5. Commit \in Seq(Steps) /\ PathTo(Commit, E, "recheck") /\ HeadOr(Commit, "recheck") = "render"
    BY <2>2, CommitPath
  <2>6. /\ Commit \o t \in Seq(Steps) /\ PathTo(Commit \o t, E, "end")
        /\ HeadOr(Commit \o t, "end") = "render"
    BY <2>3, <2>4, <2>5, Joined
  <2>7. todo' \in Seq(Steps) /\ PathTo(todo', E, "end") /\ Now' = "render"
    BY <2>1, <2>6 DEF Now, t
  <2> QED BY <1>1, <1>2, <1>3, <1>5, <2>1, <2>7, TurnGoes DEF E
<1>6. CASE Remaining # {} /\ Head(todo) = "recheck"
  <2>1. todo' = <<"halt">> /\ doing' = [doing EXCEPT !.back = TRUE]
    BY <1>1, <1>6 DEF CheckExpired, At
  <2> DEFINE E == Edges("expire", TRUE)
  <2>2. E = Backward("expire") /\ <<"halt", "end">> \in E
    BY DEF Edges, Backward
  <2>3. todo' \in Seq(Steps) /\ Len(todo') = 1 /\ todo'[1] = "halt"
    BY <2>1 DEF Steps
  <2> HIDE DEF E
  <2>4. PathTo(todo', E, "end") /\ HeadOr(todo', "end") = "halt"
    BY <2>2, <2>3, PathOfOne
  <2>5. Now' = "halt"
    BY <2>4 DEF Now
  <2>6. doing'.back
    BY <1>2, <2>1 DEF Calls
  <2> QED BY <1>1, <1>2, <1>3, <1>6, <2>1, <2>3, <2>4, <2>5, <2>6, TurnGoes DEF E
<1> QED BY <1>1, <1>4, <1>5, <1>6

-----------------------------------------------------------------------------
(* No command runs after the step, or the one that runs is left alone *)

LEMMA NoCommand ==
  ASSUME doing' = None
  PROVE  CallInv' /\ FlowInv' /\ RestoreInv' /\ PlaceInv'
  BY DEF CallInv, FlowInv, RestoreInv, PlaceInv

LEMMA FinishStep ==
  ASSUME TypeInv, Finish
  PROVE  TypeInv'
<1>1. /\ doing # None /\ doing' = None /\ todo' = <<>>
      /\ report' = [op |-> doing.op, name |-> doing.name, ok |-> ~doing.back]
      /\ retired' = retired \cup Invalidated
      /\ wreck' \in {wreck, "none"}
      /\ UNCHANGED <<disk, link, day, backup, budget, troubles>>
  BY DEF Finish, Ended
<1>2. doing \in Calls /\ doing.op \in Ops /\ doing.name \in Names \cup {None}
      /\ doing.back \in BOOLEAN /\ doing.before \in Disks
  BY <1>1 DEF TypeInv, TypeOK, Calls
<1>3. doing.before.meta \in Metas
  BY <1>2 DEF Disks, Metas
<1>4. \A n \in Described(doing.before.meta) : doing.before.meta[n].key \in Keys
  BY <1>3, DescribedRecords DEF Records
<1>5. doing.op \in {"revoke", "rotate"} => doing.name \in Described(doing.before.meta)
  BY <1>1 DEF TypeInv, CallInv
<1>6. Invalidated \subseteq Keys
  BY <1>4, <1>5 DEF Invalidated
<1>7. report' \in [op : Ops \cup {"edit"}, name : Names \cup {None}, ok : BOOLEAN]
  BY <1>1, <1>2
<1>8. todo' \in Seq(Steps)
  BY <1>1
<1>9. TypeOK'
  BY <1>1, <1>6, <1>7, <1>8 DEF TypeInv, TypeOK, budget
<1> QED BY <1>1, <1>9, NoCommand DEF TypeInv

LEMMA CrashStep ==
  ASSUME TypeInv, Crash
  PROVE  TypeInv'
<1>1. /\ doing' = None /\ todo' = <<>> /\ Fault
      /\ link' \in {link, None, disk.runtime}
      /\ wreck' \in {wreck, "retry", "damaged"}
      /\ UNCHANGED <<disk, day, backup, history, budget>>
  BY DEF Crash, Ended, Note, Boot
<1>2. todo' \in Seq(Steps) /\ link' \in Texts \cup {None}
  BY <1>1 DEF TypeInv, TypeOK, Disks
<1>3. troubles' \in 0..MaxTroubles
  BY <1>1, BoundAssumption DEF TypeInv, TypeOK, Fault
<1>4. TypeOK'
  BY <1>1, <1>2, <1>3 DEF TypeInv, TypeOK, history, budget
<1> QED BY <1>1, <1>4, NoCommand DEF TypeInv

LEMMA IdleSteps ==
  ASSUME TypeInv, Reboot \/ ServiceStart \/ ServiceStop \/ Backup
  PROVE  TypeInv'
<1>1. /\ doing = None /\ doing' = None /\ todo' = todo
      /\ link' \in {link, None, disk.runtime}
      /\ backup' \in {backup, [disk EXCEPT !.runtime = None]}
      /\ UNCHANGED <<disk, day, history, wreck, budget, troubles>>
  BY DEF Reboot, ServiceStart, ServiceStop, Backup, Idle, Boot, running
<1>2. link' \in Texts \cup {None} /\ backup' \in Disks \cup {None}
  BY <1>1 DEF TypeInv, TypeOK, Disks
<1>3. TypeOK'
  BY <1>1, <1>2 DEF TypeInv, TypeOK, history, budget
<1> QED BY <1>1, <1>3, NoCommand DEF TypeInv

LEMMA MidnightStep ==
  ASSUME TypeInv, Midnight
  PROVE  TypeInv'
<1>1. /\ day \in Days /\ day' \in Days /\ day' > day
      /\ UNCHANGED <<disk, link, backup, doing, todo, report, retired, wreck, minted, commands, troubles>>
  BY BoundAssumption DEF Midnight, TypeInv, TypeOK, Days, running, history, budget
<1>2. Now' = Now
  BY <1>1 DEF Now
<1>3. TypeOK'
  BY <1>1 DEF TypeInv, TypeOK
<1>4. CallInv'
  <2>1. doing # None => doing.now \in Days
    BY DEF TypeInv, TypeOK, Calls
  <2>2. doing # None => doing.now <= day'
    BY <1>1, <2>1 DEF TypeInv, CallInv, Days
  <2> QED BY <1>1, <2>2 DEF TypeInv, CallInv
<1>5. FlowInv' /\ RestoreInv'
  BY <1>1 DEF TypeInv, FlowInv, RestoreInv, RestoringForth, RestoringBack
<1>6. PlaceInv'
  BY <1>1, <1>2 DEF TypeInv, PlaceInv
<1> QED BY <1>3, <1>4, <1>5, <1>6 DEF TypeInv

LEMMA EditStep ==
  ASSUME TypeInv, NEW n \in Names, NEW date \in Dates(n), Edit(n, date)
  PROVE  TypeInv'
<1> DEFINE edited == [disk EXCEPT !.meta[n].expires = date]
<1>1. /\ doing = None /\ doing' = None /\ todo' = todo
      /\ commands < MaxCommands /\ commands' = commands + 1
      /\ n \in Described(disk.meta)
      /\ disk' = edited
      /\ report' = [op |-> "edit", name |-> n, ok |-> TRUE]
      /\ wreck' \in {wreck, "renewed", "damaged"}
      /\ UNCHANGED <<link, day, backup, retired, minted, troubles>>
  BY DEF Edit, Note, running
<1>2. disk \in Disks /\ disk.meta \in Metas
  BY DEF TypeInv, TypeOK, Disks, Metas
<1>3. [disk.meta[n] EXCEPT !.expires = date] \in Records
  BY <1>1, <1>2, DescribedRecords DEF Records, Dates
<1>4. disk' = [disk EXCEPT !.meta[n] = [disk.meta[n] EXCEPT !.expires = date]]
  BY <1>1, <1>2 DEF Disks, Described
<1>5. disk' \in Disks
  BY <1>1, <1>2, <1>3, <1>4, FieldTyped
<1>6. report' \in [op : Ops \cup {"edit"}, name : Names \cup {None}, ok : BOOLEAN]
  BY <1>1
<1>7. commands' \in 0..MaxCommands /\ minted' \in 0..(commands' + 1)
  BY <1>1, BoundAssumption DEF TypeInv, TypeOK
<1> HIDE DEF edited
<1>8. TypeOK'
  BY <1>1, <1>5, <1>6, <1>7 DEF TypeInv, TypeOK
<1> QED BY <1>1, <1>8, NoCommand DEF TypeInv

(* The initial states. *)
LEMMA InitTyped == Init => TypeInv
<1> SUFFICES ASSUME Init PROVE TypeInv
  OBVIOUS
<1>1. /\ day = 0 /\ backup = None /\ doing = None /\ todo = <<>> /\ report = None
      /\ retired = {} /\ wreck = "none" /\ commands = 0 /\ troubles = 0
  BY DEF Init
<1>2. disk \in Disks /\ link \in Texts \cup {None} /\ minted \in 0..1
  <2>1. CASE disk = Nothing /\ link = None /\ minted = 0
    BY <2>1, NothingTyped
  <2>2. CASE disk = [Nothing EXCEPT !.runtime = LegacyText] /\ link = LegacyText /\ minted = 1
    BY <2>2, NothingTyped, FirstValues DEF Disks
  <2>3. CASE \E n \in Names, managed \in BOOLEAN :
          /\ disk = [config |-> FirstConfig, identity |-> TRUE,
                     meta |-> [m \in Names |-> IF m = n THEN First(managed) ELSE None],
                     keys |-> [m \in Names |-> IF m = n THEN 1 ELSE None],
                     generated |-> LegacyText, runtime |-> LegacyText]
          /\ link = LegacyText /\ minted = 1
    BY <2>3, FirstValues DEF Disks
  <2> QED BY <2>1, <2>2, <2>3 DEF Init
<1>3. todo \in Seq(Steps) /\ day \in Days /\ 0 \in 0..MaxCommands /\ 0 \in 0..MaxTroubles
  BY <1>1, BoundAssumption DEF Days
<1>4. TypeOK
  BY <1>1, <1>2, <1>3 DEF TypeOK
<1>5. CallInv /\ FlowInv /\ RestoreInv /\ PlaceInv
  BY <1>1 DEF CallInv, FlowInv, RestoreInv, PlaceInv
<1> QED BY <1>4, <1>5 DEF TypeInv

-----------------------------------------------------------------------------
(* A command begins *)

(* What the command that begins is about. *)
Begun(c) ==
  /\ c \in Calls /\ ~c.back /\ ~c.committed /\ c.placed = 0 /\ c.displaced = 0
  /\ c.before = disk /\ c.now = day /\ (c.active \/ link = None)
  /\ c.op \in Making => c.record \in Records
  /\ c.op \in Making \cup {"revoke"} => c.name \in Names
  /\ c.op \in {"import", "rotate", "revoke"} => c.name \in Described(disk.meta)
  /\ c.op \in {"initialize", "migrate", "endpoint", "port"} => c.goal \in Configs
  /\ c.op = "restore" => backup \in Disks /\ backup # None
  /\ c.op \in {"add", "import", "revoke", "rotate", "expire"} => disk.config \in Configs
  /\ c.prior.runtime = disk.runtime

Counted == commands' \in 0..MaxCommands /\ minted' \in 0..(commands' + 1)

(* Every command begins well typed, at its first step. *)
LEMMA StartGoes ==
  ASSUME TypeInv, NEW c, Begun(c), Start(c), Counted
  PROVE  TypeInv' /\ (c.op # "restore" => Now' = Beginning[c.op])
<1>1. /\ doing' = c /\ todo' = Program(c.op) /\ report' = None
      /\ UNCHANGED <<disk, link, day, backup, retired, wreck, troubles>>
  BY DEF Start
<1>2. c \in Calls /\ c # None /\ c.op \in Ops
  BY NoneAssumption DEF Begun, Calls, NoneAssumption
<1>0. day' = day /\ day <= day
  BY <1>1, BoundAssumption DEF TypeInv, TypeOK, Days
<1>3. CASE c.op = "restore"
  <2>1. todo' \in Seq(Steps) /\ Len(todo') = 11 /\ \A i \in 1..11 : todo'[i] = RestoreStep(i)
    BY <1>1, <1>3, RestoreProgram
  <2>2. RestoringForth'
    <3>1. \A i \in 1..11 : 11 - 11 + i = i
      OBVIOUS
    <3> QED BY <1>1, <2>1, <3>1 DEF RestoringForth, Begun
  <2>3. FlowInv' /\ RestoreInv'
    BY <1>1, <1>3, <2>2 DEF FlowInv, RestoreInv, Begun
  <2>4. CallInv'
    BY <1>0, <1>1, <1>3 DEF CallInv, Begun, Making
  <2>5. PlaceInv'
    BY <1>1, <1>3 DEF PlaceInv
  <2>6. TypeOK'
    BY <1>1, <1>2, <2>1 DEF TypeInv, TypeOK, Counted
  <2> QED BY <1>3, <2>3, <2>4, <2>5, <2>6 DEF TypeInv
<1>4. CASE c.op # "restore"
  <2>1. /\ todo' \in Seq(Steps) /\ PathTo(todo', Forward(c.op), "end")
        /\ HeadOr(todo', "end") = Beginning[c.op]
    BY <1>1, <1>2, <1>4, ProgramPath
  <2>2. Now' = Beginning[c.op]
    BY <2>1 DEF Now
  <2>3. FlowInv' /\ RestoreInv'
    BY <1>1, <1>4, <2>1 DEF FlowInv, RestoreInv, Begun, Edges
  <2>4. CallInv'
    BY <1>0, <1>1, <1>4 DEF CallInv, Begun
  <2>5. /\ c.op \in {"initialize", "migrate"} => Now' = "config"
        /\ Now' \notin {"rekeys", "reactivate"}
    BY <1>2, <1>4, <2>2 DEF Beginning, Ops
  <2>6. PlaceInv'
    BY <1>1, <2>5 DEF PlaceInv, Begun
  <2>7. TypeOK'
    BY <1>1, <1>2, <2>1 DEF TypeInv, TypeOK, Counted
  <2> QED BY <2>2, <2>3, <2>4, <2>6, <2>7 DEF TypeInv
<1> QED BY <1>3, <1>4

LEMMA CommandTyped ==
  ASSUME TypeInv, NEW op \in Ops, NEW n \in Names \cup {None}, NEW record \in Records \cup {None}
  PROVE  Command(op, n, record) \in Calls
  BY DEF TypeInv, TypeOK, Command, Calls, Disks

LEMMA OperatorCounts ==
  ASSUME TypeInv, NEW c, NEW keys \in {0, 1}, Operator(c, keys)
  PROVE  Counted /\ Start(c) /\ minted' = minted + keys /\ minted + 1 \in Keys /\ minted \in Nat
<1>1. /\ commands \in 0..MaxCommands /\ minted \in 0..(commands + 1)
      /\ commands < MaxCommands /\ commands' = commands + 1
      /\ minted' = minted + keys /\ Start(c)
  BY DEF TypeInv, TypeOK, Operator
<1> QED BY <1>1, BoundAssumption DEF Counted, Keys

LEMMA Settled ==
  ASSUME TypeInv, NoDrift \/ Ready(disk)
  PROVE  disk.config \in Configs /\ disk \in Disks /\ disk.meta \in Metas
  BY DEF TypeInv, TypeOK, Disks, Metas, NoDrift, Ready

LEMMA Recorded ==
  ASSUME NEW key \in Keys, NEW addr \in Address, NEW date \in {None} \cup 1..MaxDay,
         NEW profile \in Configs \cup {None}
  PROVE  NewRecord(key, addr, date, profile) \in Records
  BY DEF NewRecord, Records

(* Each command begins as Begun says. *)
LEMMA InitializeBegins ==
  ASSUME TypeInv, NEW n \in Names, Initialize(n)
  PROVE  \E c : /\ Begun(c) /\ Start(c) /\ c.op = "initialize" /\ c.text = None
                /\ Counted /\ minted' = minted + 1 /\ c.record.key = minted + 1
<1> DEFINE r == NewRecord(minted + 1, 1, None, FirstConfig)
           b == Command("initialize", n, r)
           c == [b EXCEPT !.goal = FirstConfig, !.active = TRUE]
<1>1. Operator(c, 1)
  BY DEF Initialize
<1>2. Counted /\ Start(c) /\ minted' = minted + 1 /\ minted + 1 \in Keys
  BY <1>1, OperatorCounts
<1>3. r \in Records /\ r.key = minted + 1
  BY <1>2, FirstValues, Recorded DEF NewRecord
<1>4. b \in Calls
  BY <1>3, CommandTyped DEF Ops
<1>5. c \in Calls
  BY <1>4, FirstValues DEF Calls
<1>6. /\ c.op = "initialize" /\ c.text = None /\ c.record = r /\ c.name = n /\ c.goal = FirstConfig
      /\ c.before = disk /\ c.now = day /\ (c.active \/ link = None) /\ c.prior.runtime = disk.runtime
      /\ ~c.back /\ ~c.committed /\ c.placed = 0 /\ c.displaced = 0
  BY DEF Command
<1> HIDE DEF r, b, c
<1>7. Begun(c)
  BY <1>3, <1>5, <1>6, FirstValues DEF Begun
<1> QED BY <1>2, <1>3, <1>6, <1>7

LEMMA MigrateBegins ==
  ASSUME TypeInv, NEW n \in Names, Migrate(n)
  PROVE  \E c : /\ Begun(c) /\ Start(c) /\ c.op = "migrate" /\ c.text = None
                /\ Counted /\ minted' = minted /\ c.record.key = 1
<1> DEFINE r == NewRecord(1, 1, None, None)
           b == Command("migrate", n, r)
           c == [b EXCEPT !.goal = FirstConfig]
<1>1. Operator(c, 0)
  BY DEF Migrate
<1>2. Counted /\ Start(c) /\ minted' = minted
  BY <1>1, OperatorCounts
<1>3. r \in Records /\ r.key = 1
  BY FirstValues, Recorded DEF NewRecord
<1>4. b \in Calls
  BY <1>3, CommandTyped DEF Ops
<1>5. c \in Calls
  BY <1>4, FirstValues DEF Calls
<1>6. /\ c.op = "migrate" /\ c.text = None /\ c.record = r /\ c.name = n /\ c.goal = FirstConfig
      /\ c.before = disk /\ c.now = day /\ (c.active \/ link = None) /\ c.prior.runtime = disk.runtime
      /\ ~c.back /\ ~c.committed /\ c.placed = 0 /\ c.displaced = 0
  BY DEF Command
<1> HIDE DEF r, b, c
<1>7. Begun(c)
  BY <1>3, <1>5, <1>6, FirstValues DEF Begun
<1> QED BY <1>2, <1>3, <1>6, <1>7

LEMMA AddBegins ==
  ASSUME TypeInv, NEW n \in Names, NEW date \in Dates(n), Add(n, date)
  PROVE  \E c : /\ Begun(c) /\ Start(c) /\ c.op = "add" /\ c.text = None
                /\ Counted /\ minted' = minted + 1 /\ c.record.key = minted + 1
<1> DEFINE r == NewRecord(minted + 1, FreeAddress, date, disk.config)
           c == Command("add", n, r)
<1>1. Operator(c, 1) /\ NoDrift /\ disk.meta[n] = None
  BY DEF Add
<1>2. Counted /\ Start(c) /\ minted' = minted + 1 /\ minted + 1 \in Keys
  BY <1>1, OperatorCounts
<1>3. disk.config \in Configs /\ disk.meta \in Metas /\ date \in {None} \cup 1..MaxDay
  BY <1>1, Settled DEF Dates
<1>4. FreeAddress \in Address
  BY <1>1, <1>3, FreeAddressTyped DEF Described
<1>5. r \in Records /\ r.key = minted + 1
  BY <1>2, <1>3, <1>4, Recorded DEF NewRecord
<1>6. c \in Calls
  BY <1>5, CommandTyped DEF Ops
<1>7. Begun(c) /\ c.op = "add" /\ c.text = None /\ c.record = r
  BY <1>3, <1>5, <1>6 DEF Begun, Command, Calls
<1> QED BY <1>2, <1>5, <1>7

LEMMA ImportBegins ==
  ASSUME TypeInv, NEW n \in Names, NEW profile \in {None, disk.config}, Import(n, profile)
  PROVE  \E c : /\ Begun(c) /\ Start(c) /\ c.op = "import" /\ c.text = None
                /\ Counted /\ minted' = minted /\ c.record.key = disk.meta[n].key
<1> DEFINE r == NewRecord(disk.meta[n].key, disk.meta[n].addr, disk.meta[n].expires, profile)
           c == Command("import", n, r)
<1>1. Operator(c, 0) /\ NoDrift /\ n \in Described(disk.meta)
  BY DEF Import
<1>2. Counted /\ Start(c) /\ minted' = minted
  BY <1>1, OperatorCounts
<1>3. disk.config \in Configs /\ disk.meta[n] \in Records
  BY <1>1, Settled, DescribedRecords
<1>4. r \in Records /\ r.key = disk.meta[n].key
  BY <1>3, Recorded DEF NewRecord, Records
<1>5. c \in Calls
  BY <1>4, CommandTyped DEF Ops
<1>6. Begun(c) /\ c.op = "import" /\ c.text = None /\ c.record = r
  BY <1>1, <1>3, <1>4, <1>5 DEF Begun, Command, Calls
<1> QED BY <1>2, <1>4, <1>6

LEMMA RevokeBegins ==
  ASSUME TypeInv, NEW n \in Names, Revoke(n)
  PROVE  \E c : /\ Begun(c) /\ Start(c) /\ c.op = "revoke" /\ c.text = None
                /\ Counted /\ minted' = minted
<1> DEFINE c == Command("revoke", n, None)
<1>1. Operator(c, 0) /\ NoDrift /\ n \in Described(disk.meta)
  BY DEF Revoke
<1>2. Counted /\ Start(c) /\ minted' = minted
  BY <1>1, OperatorCounts
<1>3. disk.config \in Configs
  BY <1>1, Settled
<1>4. c \in Calls
  BY CommandTyped DEF Ops
<1>5. Begun(c) /\ c.op = "revoke" /\ c.text = None
  BY <1>1, <1>3, <1>4 DEF Begun, Command, Making, Calls
<1> QED BY <1>2, <1>5

LEMMA RotateBegins ==
  ASSUME TypeInv, NEW n \in Names, Rotate(n)
  PROVE  \E c : /\ Begun(c) /\ Start(c) /\ c.op = "rotate" /\ c.text = None
                /\ Counted /\ minted' = minted + 1 /\ c.record.key = minted + 1
<1> DEFINE r == NewRecord(minted + 1, disk.meta[n].addr, disk.meta[n].expires, disk.config)
           c == Command("rotate", n, r)
<1>1. Operator(c, 1) /\ NoDrift /\ n \in Described(disk.meta)
  BY DEF Rotate
<1>2. Counted /\ Start(c) /\ minted' = minted + 1 /\ minted + 1 \in Keys
  BY <1>1, OperatorCounts
<1>3. disk.config \in Configs /\ disk.meta[n] \in Records
  BY <1>1, Settled, DescribedRecords
<1>4. r \in Records /\ r.key = minted + 1
  BY <1>2, <1>3, Recorded DEF NewRecord, Records
<1>5. c \in Calls
  BY <1>4, CommandTyped DEF Ops
<1>6. Begun(c) /\ c.op = "rotate" /\ c.text = None /\ c.record = r
  BY <1>1, <1>3, <1>4, <1>5 DEF Begun, Command, Calls
<1> QED BY <1>2, <1>4, <1>6

LEMMA ConfigureBegins ==
  ASSUME TypeInv, NEW field \in {"endpoint", "port"}, Configure(field)
  PROVE  \E c : /\ Begun(c) /\ Start(c) /\ c.op \in {"endpoint", "port"}
                /\ \E config \in Configs : c.text = Render(config, disk.meta, day)
                /\ Counted /\ minted' = minted
<1> DEFINE goal == [disk.config EXCEPT ![field] = 1 - @]
           b == Command(field, None, None)
           t == Render(goal, disk.meta, day)
           c == [b EXCEPT !.goal = goal, !.text = t]
<1>1. Operator(c, 0) /\ NoDrift
  BY DEF Configure
<1>2. Counted /\ Start(c) /\ minted' = minted
  BY <1>1, OperatorCounts
<1>3. disk.config \in Configs /\ disk.meta \in Metas
  BY <1>1, Settled
<1>4. goal \in Configs
  <2>1. CASE field = "endpoint"
    BY <1>3, <2>1 DEF Configs
  <2>2. CASE field = "port"
    BY <1>3, <2>2 DEF Configs
  <2> QED BY <2>1, <2>2
<1>5. b \in Calls /\ b.op = field
  BY CommandTyped DEF Ops, Command
<1>6. t \in Texts
  BY <1>3, <1>4, RenderTyped
<1> HIDE DEF t, goal
<1>7. c \in Calls
  BY <1>4, <1>5, <1>6 DEF Calls
<1>8. /\ c.op \in {"endpoint", "port"} /\ c.text = t /\ c.goal = goal
      /\ c.before = disk /\ c.now = day /\ (c.active \/ link = None) /\ c.prior.runtime = disk.runtime
      /\ ~c.back /\ ~c.committed /\ c.placed = 0 /\ c.displaced = 0
  BY DEF Command
<1> HIDE DEF b, c
<1>9. Begun(c)
  BY <1>4, <1>7, <1>8 DEF Begun, Making
<1>10. t = Render(goal, disk.meta, day)
  BY DEF t
<1> QED BY <1>2, <1>4, <1>8, <1>9, <1>10

LEMMA ExpireBegins ==
  ASSUME TypeInv, Expire
  PROVE  \E c : /\ Begun(c) /\ Start(c) /\ c.op = "expire" /\ c.text = None
                /\ Counted /\ minted' = minted
<1> DEFINE c == Command("expire", None, None)
<1>1. Start(c) /\ commands' = commands /\ minted' = minted /\ Ready(disk)
  BY DEF Expire
<1>2. disk.config \in Configs
  BY <1>1, Settled
<1>3. c \in Calls
  BY CommandTyped DEF Ops
<1>4. Begun(c) /\ c.op = "expire" /\ c.text = None
  BY <1>1, <1>2, <1>3 DEF Begun, Command, Making, Calls
<1>5. Counted
  BY <1>1 DEF Counted, TypeInv, TypeOK
<1> QED BY <1>1, <1>4, <1>5

LEMMA RestoreBegins ==
  ASSUME TypeInv, Restore
  PROVE  \E c : /\ Begun(c) /\ Start(c) /\ c.op = "restore" /\ c.text = None
                /\ Counted /\ minted' = minted
<1> DEFINE c == Command("restore", None, None)
<1>1. Operator(c, 0) /\ backup \in Disks /\ backup # None
  BY DEF Restore, Restorable, TypeInv, TypeOK
<1>2. Counted /\ Start(c) /\ minted' = minted
  BY <1>1, OperatorCounts
<1>3. c \in Calls
  BY CommandTyped DEF Ops
<1>4. Begun(c) /\ c.op = "restore" /\ c.text = None
  BY <1>1, <1>3 DEF Begun, Command, Making, Calls
<1> QED BY <1>2, <1>4

-----------------------------------------------------------------------------
(* Type correctness *)

LEMMA StepTyped ==
  ASSUME TypeInv, Step
  PROVE  TypeInv'
<1>1. CASE WriteConfig \/ CreateClient \/ DescribeClient
  BY <1>1, WriteConfigStep, CreateClientStep, DescribeClientStep
<1>2. CASE RemoveClient \/ RemoveKeys \/ CompareServer \/ Verify
  BY <1>2, RemoveSteps
<1>3. CASE WriteProfiles \/ MarkExpired
  BY <1>3, WriteProfilesStep, MarkExpiredStep
<1>4. CASE RenderServer \/ WriteRuntime
  BY <1>4, RenderServerStep, WriteRuntimeStep
<1>5. CASE WriteGenerated \/ OldRuntime \/ OldGenerated \/ NoRuntime
  BY <1>5, WriteTextSteps
<1>6. CASE Act \/ ActUnapplied \/ Again \/ AgainFails \/ Halt \/ HaltFails
  BY <1>6, ActSteps, AgainSteps, HaltSteps
<1>7. CASE ActFails \/ StepFails \/ CheckExpired
  BY <1>7, ActFailsStep, StepFailsStep, CheckExpiredStep
<1>8. CASE ReturnClient \/ ReturnKeys \/ Reactivate \/ OldConfig \/ OldMetadata \/ Unconfigure
  BY <1>8, ReturnSteps, ReactivateStep, OldSteps
<1>9. CASE Displace \/ Place \/ Unplace \/ PutBack
  BY <1>9, SwapSteps
<1>10. CASE Finish
  BY <1>10, FinishStep
<1> QED BY <1>1, <1>2, <1>3, <1>4, <1>5, <1>6, <1>7, <1>8, <1>9, <1>10 DEF Step

LEMMA BeginTyped ==
  ASSUME TypeInv,
         \/ \E n \in Names :
              \/ Initialize(n) \/ Migrate(n) \/ Revoke(n) \/ Rotate(n)
              \/ \E date \in Dates(n) : Add(n, date)
              \/ \E profile \in {None, disk.config} : Import(n, profile)
         \/ \E field \in {"endpoint", "port"} : Configure(field)
         \/ Expire \/ Restore
  PROVE  \E c : Begun(c) /\ Start(c) /\ Counted /\ TypeInv'
<1> SUFFICES \E c : Begun(c) /\ Start(c) /\ Counted
  BY StartGoes
<1>1. CASE \E n \in Names : Initialize(n) \/ Migrate(n) \/ Revoke(n) \/ Rotate(n)
  BY <1>1, InitializeBegins, MigrateBegins, RevokeBegins, RotateBegins
<1>2. CASE \E n \in Names : \E date \in Dates(n) : Add(n, date)
  BY <1>2, AddBegins
<1>3. CASE \E n \in Names : \E profile \in {None, disk.config} : Import(n, profile)
  BY <1>3, ImportBegins
<1>4. CASE \E field \in {"endpoint", "port"} : Configure(field)
  BY <1>4, ConfigureBegins
<1>5. CASE Expire \/ Restore
  BY <1>5, ExpireBegins, RestoreBegins
<1> QED BY <1>1, <1>2, <1>3, <1>4, <1>5

(* Every step of the specification keeps the types. *)
LEMMA NextTyped ==
  ASSUME TypeInv, [Next]_vars
  PROVE  TypeInv'
<1>1. CASE Step
  BY <1>1, StepTyped
<1>2. CASE \/ \E n \in Names :
                \/ Initialize(n) \/ Migrate(n) \/ Revoke(n) \/ Rotate(n)
                \/ \E date \in Dates(n) : Add(n, date)
                \/ \E profile \in {None, disk.config} : Import(n, profile)
           \/ \E field \in {"endpoint", "port"} : Configure(field)
           \/ Expire \/ Restore
  BY <1>2, BeginTyped
<1>3. CASE \E n \in Names : \E date \in Dates(n) : Edit(n, date)
  BY <1>3, EditStep
<1>4. CASE Crash \/ Backup \/ Reboot \/ ServiceStart \/ ServiceStop \/ Midnight
  BY <1>4, CrashStep, IdleSteps, MidnightStep
<1>5. CASE UNCHANGED vars
  <2>1. /\ UNCHANGED <<disk, link, day, backup, doing, todo, report, retired, wreck>>
        /\ UNCHANGED <<minted, commands, troubles>> /\ Now' = Now
    BY <1>5 DEF vars, running, history, budget, Now
  <2>2. TypeOK' /\ CallInv' /\ PlaceInv'
    BY <2>1 DEF TypeInv, TypeOK, CallInv, PlaceInv
  <2>3. FlowInv' /\ RestoreInv'
    BY <2>1 DEF TypeInv, FlowInv, RestoreInv, RestoringForth, RestoringBack
  <2> QED BY <2>2, <2>3 DEF TypeInv
<1> QED BY <1>1, <1>2, <1>3, <1>4, <1>5 DEF Next

(* Every file, every value a command carries and every sequence of steps left  *)
(* to it keeps to its type, whatever fails, is killed or is taken back.        *)
THEOREM TypeCorrect == Spec => []TypeOK
<1>1. Init => TypeInv
  BY InitTyped
<1>2. TypeInv /\ [Next]_vars => TypeInv'
  BY NextTyped
<1>3. TypeInv => TypeOK
  BY DEF TypeInv
<1> QED BY <1>1, <1>2, <1>3, PTL DEF Spec

-----------------------------------------------------------------------------
(* Where keys and texts come from while a command runs *)

Going ==
  \/ WriteConfig \/ CreateClient \/ DescribeClient \/ RemoveClient \/ RemoveKeys
  \/ CompareServer \/ WriteProfiles \/ MarkExpired
  \/ RenderServer \/ WriteGenerated \/ WriteRuntime \/ Act \/ ActUnapplied \/ ActFails
  \/ Verify \/ CheckExpired \/ Displace \/ Place
  \/ StepFails \/ OldRuntime \/ OldGenerated \/ Again \/ AgainFails \/ Halt \/ HaltFails
  \/ ReturnClient \/ ReturnKeys \/ Reactivate \/ OldConfig \/ OldMetadata
  \/ Unconfigure \/ NoRuntime \/ Unplace \/ PutBack

(* What no step changes. *)
Frame ==
  /\ todo # <<>> /\ doing # None /\ doing' # None
  /\ doing'.op = doing.op /\ doing'.name = doing.name /\ doing'.record = doing.record
  /\ doing'.before = doing.before /\ doing'.now = doing.now /\ doing'.active = doing.active
  /\ UNCHANGED <<day, backup, minted>>
  /\ doing.back => doing'.back
  /\ RenderServer \/ (doing'.text = doing.text /\ doing'.prior = doing.prior)

(* Every client on the disk was there, is made, is returned or comes with the  *)
(* backup; none is more eligible than before but by the last step of a command. *)
Traced ==
  \A n \in Described(disk'.meta) :
    \/ /\ n \in Described(disk.meta) /\ disk'.meta[n].key = disk.meta[n].key
       /\ todo' # <<>> /\ Eligible(disk'.meta[n], doing.now) => Eligible(disk.meta[n], doing.now)
    \/ /\ n \in Described(doing.before.meta) /\ disk'.meta[n].key = doing.before.meta[n].key
       /\ Eligible(disk'.meta[n], doing.now) => Eligible(doing.before.meta[n], doing.now)
    \/ doing.op \in Making /\ disk'.meta[n].key = doing.record.key
    \/ doing.op = "restore" /\ n \in Described(backup.meta) /\ disk'.meta[n].key = backup.meta[n].key

(* The runtime file and the interface hold nothing that was not there, was not *)
(* rendered or saved by the command; a restore alone forgets what is retired.  *)
Conveyed ==
  /\ link' \in {link, None, disk.runtime}
  /\ \/ /\ disk'.runtime \in {disk.runtime, None, doing.text, doing.prior.runtime}
        /\ retired' = retired
     \/ retired' = {}

LEMMA MetaSame ==
  ASSUME disk'.meta = disk.meta
  PROVE  Traced
  BY DEF Traced

LEMMA GoingFrame ==
  ASSUME TypeInv, Going
  PROVE  Frame
<1>1. todo # <<>>
  BY DEF Going, WriteConfig, CreateClient, DescribeClient, RemoveClient, RemoveKeys, CompareServer,
         WriteProfiles, MarkExpired, RenderServer, WriteGenerated, WriteRuntime, Act, ActUnapplied,
         ActFails, Verify, CheckExpired, Displace, Place, StepFails, OldRuntime, OldGenerated, Again,
         AgainFails, Halt, HaltFails, ReturnClient, ReturnKeys, Reactivate, OldConfig, OldMetadata,
         Unconfigure, NoRuntime, Unplace, PutBack, At
<1>2. doing \in Calls /\ doing # None
  BY <1>1, HeadFacts
<1>3. /\ UNCHANGED <<day, backup, minted>>
      /\ \/ doing' = doing
         \/ doing' = [doing EXCEPT !.committed = TRUE]
         \/ doing' = [doing EXCEPT !.back = TRUE]
         \/ CheckExpired
         \/ RenderServer
         \/ Displace \/ Place \/ Unplace \/ PutBack
  BY DEF Going, WriteConfig, CreateClient, DescribeClient, RemoveClient, RemoveKeys, CompareServer,
         WriteProfiles, MarkExpired, WriteGenerated, WriteRuntime, Act, ActUnapplied,
         ActFails, Verify, Displace, Place, StepFails, OldRuntime, OldGenerated, Again,
         AgainFails, Halt, HaltFails, ReturnClient, ReturnKeys, Reactivate, OldConfig, OldMetadata,
         Unconfigure, NoRuntime, Unplace, PutBack, Write, Stepping, budget, running,
         CheckExpired, RenderServer
<1>4. CASE doing' = doing
  BY <1>1, <1>2, <1>3, <1>4 DEF Frame
<1>5. CASE CheckExpired
  <2>1. Head(todo) \in {"check", "recheck"} /\ \E b \in BOOLEAN : doing' = [doing EXCEPT !.back = b]
    BY <1>5 DEF CheckExpired, At
  <2>2. ~doing.back
    BY <1>1, <2>1, HeadFacts DEF Sourced
  <2>3. doing' \in Calls
    BY <1>2, <2>1 DEF Calls
  <2> QED BY <1>1, <1>2, <1>3, <2>1, <2>2, <2>3, NoneAssumption DEF Frame, Calls, NoneAssumption
<1>6. CASE RenderServer
  <2>1. doing' # None
    BY <1>6, RenderServerStep, NoneAssumption DEF Onward, SameCall, NoneAssumption
  <2>2. PICK t, p : doing' = [doing EXCEPT !.text = t, !.prior = p]
    BY <1>6 DEF RenderServer
  <2>3. /\ doing'.op = doing.op /\ doing'.back = doing.back /\ doing'.name = doing.name
        /\ doing'.record = doing.record /\ doing'.before = doing.before
        /\ doing'.now = doing.now /\ doing'.active = doing.active
    BY <1>2, <2>2 DEF Calls
  <2> QED BY <1>1, <1>2, <1>3, <1>6, <2>1, <2>3 DEF Frame
<1>7. CASE doing' \in {[doing EXCEPT !.committed = TRUE], [doing EXCEPT !.back = TRUE]} /\ ~RenderServer
  <2>1. doing' \in Calls
    <3>1. CASE doing' = [doing EXCEPT !.committed = TRUE]
      BY <1>2, <3>1 DEF Calls
    <3>2. CASE doing' = [doing EXCEPT !.back = TRUE]
      BY <1>2, <3>2 DEF Calls
    <3> QED BY <1>7, <3>1, <3>2
  <2>2. doing' # None
    BY <2>1, NoneAssumption DEF NoneAssumption
  <2>3. CASE doing' = [doing EXCEPT !.committed = TRUE]
    <3>1. /\ doing'.op = doing.op /\ doing'.name = doing.name /\ doing'.record = doing.record
          /\ doing'.before = doing.before /\ doing'.now = doing.now
          /\ doing'.active = doing.active
      BY <1>2, <2>3 DEF Calls
    <3>2. doing.back => doing'.back
      BY <1>2, <2>3 DEF Calls
    <3>3. doing'.text = doing.text /\ doing'.prior = doing.prior
      BY <1>2, <2>3 DEF Calls
    <3> QED BY <1>1, <1>2, <1>3, <2>2, <3>1, <3>2, <3>3 DEF Frame
  <2>4. CASE doing' = [doing EXCEPT !.back = TRUE]
    <3>1. /\ doing'.op = doing.op /\ doing'.name = doing.name /\ doing'.record = doing.record
          /\ doing'.before = doing.before /\ doing'.now = doing.now
          /\ doing'.active = doing.active
      BY <1>2, <2>4 DEF Calls
    <3>2. doing.back => doing'.back
      BY <1>2, <2>4 DEF Calls
    <3>3. doing'.text = doing.text /\ doing'.prior = doing.prior
      BY <1>2, <2>4 DEF Calls
    <3> QED BY <1>1, <1>2, <1>3, <2>2, <3>1, <3>2, <3>3 DEF Frame
  <2> QED BY <1>7, <2>3, <2>4
<1>8. CASE Displace \/ Place \/ Unplace \/ PutBack
  <2>1. SameCall
    BY <1>8, SwapSteps DEF Onward
  <2>2. doing'.text = doing.text /\ doing'.prior = doing.prior
    BY <1>2, <1>8 DEF Displace, Place, Unplace, PutBack, Calls
  <2> QED BY <1>1, <1>2, <1>3, <2>1, <2>2, NoneAssumption DEF Frame, SameCall, NoneAssumption
<1> QED BY <1>3, <1>4, <1>5, <1>6, <1>7, <1>8

LEMMA GoingConveys ==
  ASSUME TypeInv, Going
  PROVE  Conveyed
<1>1. todo # <<>> /\ doing \in Calls /\ disk \in Disks
  BY GoingFrame, HeadFacts DEF Frame
<1>2. CASE WriteConfig \/ CreateClient \/ DescribeClient \/ RemoveClient \/ RemoveKeys
           \/ CompareServer \/ Verify \/ WriteGenerated \/ OldRuntime \/ OldGenerated
           \/ ReturnClient \/ ReturnKeys \/ OldConfig \/ OldMetadata \/ Unconfigure \/ NoRuntime
  BY <1>1, <1>2 DEF Conveyed, WriteConfig, CreateClient, DescribeClient, RemoveClient, RemoveKeys,
         CompareServer, Verify, WriteGenerated, OldRuntime, OldGenerated, ReturnClient, ReturnKeys,
         OldConfig, OldMetadata, Unconfigure, NoRuntime, Write, Stepping, history, Disks
<1>3. CASE WriteProfiles \/ MarkExpired \/ Reactivate
  BY <1>1, <1>3 DEF Conveyed, WriteProfiles, MarkExpired, Reactivate, Write, Stepping, history, Disks
<1>4. CASE RenderServer \/ Act \/ ActUnapplied \/ ActFails \/ CheckExpired \/ StepFails
           \/ Again \/ AgainFails \/ Halt \/ HaltFails
  BY <1>4 DEF Conveyed, RenderServer, Act, ActUnapplied, ActFails, CheckExpired, StepFails, Again,
         AgainFails, Halt, HaltFails, LinkAfterFailure, Stepping, history
<1>5. CASE WriteRuntime
  BY <1>1, <1>5 DEF Conveyed, WriteRuntime, Disks
<1>6. CASE Displace \/ Place \/ Unplace \/ PutBack
  <2>1. disk'.runtime = disk.runtime
    BY <1>6, SwapSteps
  <2>2. link' = link /\ retired' = retired
    BY <1>6 DEF Displace, Place, Unplace, PutBack, Stepping, history
  <2> QED BY <2>1, <2>2 DEF Conveyed
<1> QED BY <1>2, <1>3, <1>4, <1>5, <1>6 DEF Going

LEMMA WithMeta ==
  ASSUME NEW d \in Disks, NEW from \in Disks, NEW i \in 1..4
  PROVE  With(d, Components[i], from).meta \in {d.meta, from.meta}
<1>1. Components[1] = "config" /\ Components[2] = "keys" /\ Components[3] = "clients"
      /\ Components[4] = "generated"
  BY DEF Components
<1>2. i = 1 \/ i = 2 \/ i = 3 \/ i = 4
  OBVIOUS
<1> QED BY <1>1, <1>2 DEF With, Disks

LEMMA SwapTraces ==
  ASSUME TypeInv, Displace \/ Place \/ Unplace \/ PutBack
  PROVE  Traced
<1>1. /\ todo # <<>>
      /\ Head(todo) \in {"displace", "place", "unplace", "putback"}
  BY DEF Displace, Place, Unplace, PutBack, At
<1>2. /\ doing \in Calls /\ doing # None /\ disk \in Disks /\ doing.op = "restore"
      /\ backup \in Disks /\ doing.before \in Disks /\ RestoreInv /\ TypeOK
  BY <1>1, HeadFacts DEF Sourced, Calls, TypeInv, TypeOK, CallInv
<1>3. /\ Head(todo) = "displace" => doing.displaced \in 0..3
      /\ Head(todo) = "place" => doing.placed \in 0..3
      /\ Head(todo) = "unplace" => doing.placed \in 1..4
      /\ Head(todo) = "putback" => doing.displaced \in 1..4
  BY <1>1, <1>2, RestoreHead
<1>4. \E i \in 1..4, from \in {Nothing, backup, doing.before} : disk' = With(disk, Components[i], from)
  <2>1. CASE Displace
    BY <1>3, <2>1 DEF Displace, At
  <2>2. CASE Place
    BY <1>3, <2>2 DEF Place, At
  <2>3. CASE Unplace
    BY <1>3, <2>3 DEF Unplace, At
  <2>4. CASE PutBack
    BY <1>3, <2>4 DEF PutBack, At
  <2> QED BY <2>1, <2>2, <2>3, <2>4
<1>5. disk'.meta \in {disk.meta, Nothing.meta, backup.meta, doing.before.meta}
  BY <1>2, <1>4, NothingTyped, WithMeta
<1>6. Described(Nothing.meta) = {}
  BY DEF Nothing, Described
<1> QED BY <1>2, <1>5, <1>6 DEF Traced

LEMMA GoingTraces ==
  ASSUME TypeInv, Going
  PROVE  Traced
<1>1. todo # <<>> /\ doing \in Calls /\ doing # None /\ disk \in Disks /\ disk.meta \in Metas
  BY GoingFrame, HeadFacts DEF Frame, Disks, Metas
<1>2. CASE \/ WriteConfig \/ RemoveKeys \/ CompareServer \/ Verify \/ WriteGenerated
           \/ OldRuntime \/ OldGenerated \/ ReturnKeys \/ OldConfig \/ Unconfigure \/ NoRuntime
           \/ RenderServer \/ WriteRuntime \/ Act \/ ActUnapplied \/ ActFails \/ CheckExpired
           \/ StepFails \/ Again \/ AgainFails \/ Halt \/ HaltFails
  <2>1. disk'.meta = disk.meta
    BY <1>1, <1>2 DEF WriteConfig, RemoveKeys, CompareServer, Verify, WriteGenerated, OldRuntime,
         OldGenerated, ReturnKeys, OldConfig, Unconfigure, NoRuntime, RenderServer, WriteRuntime, Act,
         ActUnapplied, ActFails, CheckExpired, StepFails, Again, AgainFails, Halt, HaltFails, Write, Disks
  <2> QED BY <2>1, MetaSame
<1>3. CASE RemoveClient \/ CreateClient
  <2>1. \E r \in {None, Partial} : disk'.meta = [disk.meta EXCEPT ![doing.name] = r]
    BY <1>1, <1>3 DEF RemoveClient, CreateClient, Write, Disks
  <2> QED BY <1>1, <2>1 DEF Traced, Described, Metas
<1>4. CASE DescribeClient
  <2>1. disk'.meta = [disk.meta EXCEPT ![doing.name] = doing.record]
    BY <1>1, <1>4 DEF DescribeClient, Write, Disks
  <2>2. doing.op \in Making
    BY <1>1, <1>4, HeadFacts DEF DescribeClient, At, Sourced
  <2> QED BY <1>1, <2>1, <2>2 DEF Traced, Described, Metas
<1>5. CASE WriteProfiles
  <2>1. CASE disk' = disk
    BY <2>1, MetaSame
  <2>2. CASE \E n \in OutOfDate : disk' = [disk EXCEPT !.meta[n].profile = doing.goal]
    <3>1. PICK n \in OutOfDate : disk' = [disk EXCEPT !.meta[n].profile = doing.goal]
      BY <2>2
    <3>2. n \in Described(disk.meta) /\ disk.meta[n] \in Records
      BY <1>1, <3>1, DescribedRecords DEF OutOfDate
    <3>3. disk'.meta = [disk.meta EXCEPT ![n] = [disk.meta[n] EXCEPT !.profile = doing.goal]]
      BY <1>1, <3>1 DEF Disks
    <3> QED BY <1>1, <3>2, <3>3 DEF Traced, Described, Metas, Eligible, Expired, Records
  <2> QED BY <1>5, <2>1, <2>2 DEF WriteProfiles, Write
<1>6. CASE MarkExpired
  <2>1. CASE disk' = disk
    BY <2>1, MetaSame
  <2>2. CASE \E n \in Due : disk' = [disk EXCEPT !.meta[n].state = "expired"]
    <3>1. PICK n \in Due : disk' = [disk EXCEPT !.meta[n].state = "expired"]
      BY <2>2
    <3>2. n \in Described(disk.meta) /\ disk.meta[n] \in Records
      BY <1>1, <3>1, DescribedRecords DEF Due
    <3>3. disk'.meta = [disk.meta EXCEPT ![n] = [disk.meta[n] EXCEPT !.state = "expired"]]
      BY <1>1, <3>1 DEF Disks
    <3> QED BY <1>1, <3>2, <3>3 DEF Traced, Described, Metas, Eligible, Expired, Records
  <2> QED BY <1>6, <2>1, <2>2 DEF MarkExpired, Write
<1>7. CASE Displace \/ Place \/ Unplace \/ PutBack
  BY <1>7, SwapTraces
<1>8. CASE ReturnClient
  <2>1. /\ Head(todo) = "reclient"
        /\ disk'.meta = [disk.meta EXCEPT ![doing.name] = [doing.before.meta[doing.name] EXCEPT
             !.state = IF doing.op = "rotate" THEN "rotated" ELSE @]]
    BY <1>1, <1>8 DEF ReturnClient, At, Write, Disks
  <2>2. doing.op \in {"import", "rotate"}
    BY <1>1, <2>1, HeadFacts DEF Sourced
  <2>3. doing.name \in Described(doing.before.meta) /\ doing.before.meta \in Metas
    BY <1>1, <2>2 DEF TypeInv, CallInv, Calls, Disks, Metas
  <2>4. doing.before.meta[doing.name] \in Records
    BY <2>3, DescribedRecords
  <2> SUFFICES ASSUME NEW n \in Described(disk'.meta)
               PROVE  \/ /\ n \in Described(disk.meta) /\ disk'.meta[n].key = disk.meta[n].key
                         /\ Eligible(disk'.meta[n], doing.now) => Eligible(disk.meta[n], doing.now)
                      \/ /\ n \in Described(doing.before.meta)
                         /\ disk'.meta[n].key = doing.before.meta[n].key
                         /\ Eligible(disk'.meta[n], doing.now) => Eligible(doing.before.meta[n], doing.now)
    BY DEF Traced
  <2>5. CASE n = doing.name
    <3>1. disk'.meta[n] = [doing.before.meta[n] EXCEPT
                             !.state = IF doing.op = "rotate" THEN "rotated" ELSE @]
      BY <1>1, <2>1, <2>3, <2>5 DEF Metas, Described
    <3> QED BY <3>1, <2>3, <2>4, <2>5 DEF Eligible, Expired, Records
  <2>6. CASE n # doing.name
    <3>1. n \in Described(disk.meta) /\ disk'.meta[n] = disk.meta[n]
      BY <1>1, <2>1, <2>6 DEF Metas, Described
    <3> QED BY <3>1
  <2> QED BY <2>5, <2>6
<1>9. CASE Reactivate
  <2>1. /\ Head(todo) = "reactivate" /\ todo' = Tail(todo)
        /\ disk'.meta = [disk.meta EXCEPT ![doing.name] = [disk.meta[doing.name] EXCEPT !.state = "active"]]
    BY <1>1, <1>9 DEF Reactivate, At, Forth, Disks
  <2>2. /\ doing.op = "rotate" /\ HeadOr(todo', "end") = "end" /\ Now = "reactivate"
    BY <1>1, <2>1, HeadFacts DEF Sourced
  <2>3. todo' = <<>>
    <3>1. todo' \in Seq(Steps)
      BY <1>1, <2>1, TodoFacts DEF TypeInv
    <3>2. "end" \notin Steps
      BY DEF Steps
    <3> QED BY <2>2, <3>1, <3>2 DEF HeadOr
  <2>4. disk.meta[doing.name] \in Records
    BY <1>1, <2>2 DEF TypeInv, PlaceInv
  <2>5. \A n \in Described(disk'.meta) \ {doing.name} :
          n \in Described(disk.meta) /\ disk'.meta[n] = disk.meta[n]
    BY <1>1, <2>1 DEF Described, Metas
  <2>6. /\ doing.name \in Described(disk'.meta) => doing.name \in Described(disk.meta)
        /\ doing.name \in Described(disk'.meta) =>
             disk'.meta[doing.name].key = disk.meta[doing.name].key
    BY <1>1, <2>1, <2>4, NoneAssumption DEF Described, Metas, Records, NoneAssumption
  <2>7. \A n \in Described(disk'.meta) :
          n \in Described(disk.meta) /\ disk'.meta[n].key = disk.meta[n].key
    BY <2>5, <2>6
  <2> QED BY <2>3, <2>7 DEF Traced
<1>10. CASE OldMetadata
  <2>1. disk'.meta = doing.before.meta
    BY <1>1, <1>10 DEF OldMetadata, Write, Disks
  <2> QED BY <2>1 DEF Traced
<1> QED BY <1>2, <1>3, <1>4, <1>5, <1>6, <1>7, <1>8, <1>9, <1>10 DEF Going

-----------------------------------------------------------------------------
(* Keys are numbered as they are minted; retired ones are barred *)

LEMMA KeysPositive ==
  ASSUME NEW meta \in Metas, NEW n \in Described(meta)
  PROVE  meta[n].key \in Nat \ {0} /\ n \in Names /\ meta[n] \in Records
  BY DescribedRecords DEF Records, Keys

(* Who is served tomorrow is served today. *)
LEMMA CleanLater ==
  ASSUME NEW meta \in Metas, NEW now \in Days, NEW d \in Days, now <= d, Clean(meta, now)
  PROVE  Clean(meta, d)
<1> SUFFICES ASSUME NEW n \in Described(meta), Eligible(meta[n], d)
             PROVE  meta[n].key \notin retired
  BY DEF Clean
<1>1. meta[n] \in Records
  BY DescribedRecords
<1>2. Eligible(meta[n], now)
  BY <1>1, BoundAssumption DEF Eligible, Expired, Records, Days
<1> QED BY <1>2 DEF Clean

(* A configuration rendered from clean clients is barred to retired keys. *)
LEMMA RenderBarred ==
  ASSUME NEW config, NEW meta, NEW d, Clean(meta, d)
  PROVE  Barred(Render(config, meta, d))
  BY DEF Barred, Render, Clean

(* A runtime file that serves at least the clients of day d vouches for them. *)
LEMMA ServingCleans ==
  ASSUME BarredInv, disk.runtime # None, NEW config,
         Render(config, disk.meta, day).peers \subseteq disk.runtime.peers
  PROVE  Clean(disk.meta, day)
<1> SUFFICES ASSUME NEW n \in Described(disk.meta), Eligible(disk.meta[n], day)
             PROVE  disk.meta[n].key \notin retired
  BY DEF Clean
<1> DEFINE p == [key |-> disk.meta[n].key, addr |-> disk.meta[n].addr]
<1>1. p \in Render(config, disk.meta, day).peers
  BY DEF Render
<1>2. p.key = disk.meta[n].key
  OBVIOUS
<1> HIDE DEF p
<1> QED BY <1>1, <1>2 DEF BarredInv, Barred

(* The steps of a running command number and bar keys. *)
LEMMA GoingMints ==
  ASSUME TypeInv, MintInv, Going
  PROVE  MintInv'
<1>1. Frame /\ Traced /\ retired' \in {retired, {}}
  BY GoingFrame, GoingTraces, GoingConveys DEF Conveyed
<1>2. \A n \in Described(disk'.meta) : disk'.meta[n].key <= minted
  <2> TAKE n \in Described(disk'.meta)
  <2>1. CASE n \in Described(disk.meta) /\ disk'.meta[n].key = disk.meta[n].key
    BY <2>1 DEF MintInv, Numbered
  <2>2. CASE n \in Described(doing.before.meta) /\ disk'.meta[n].key = doing.before.meta[n].key
    BY <1>1, <2>2 DEF MintInv, Numbered, Frame
  <2>3. CASE doing.op \in Making /\ disk'.meta[n].key = doing.record.key
    BY <1>1, <2>3 DEF MintInv, Frame
  <2>4. CASE doing.op = "restore" /\ n \in Described(backup.meta) /\ disk'.meta[n].key = backup.meta[n].key
    <3>1. backup # None
      BY <1>1, <2>4 DEF Frame, TypeInv, CallInv
    <3> QED BY <2>4, <3>1 DEF MintInv, Numbered
  <2> QED BY <1>1, <2>1, <2>2, <2>3, <2>4 DEF Traced
<1>3. minted # 0
  BY <1>1 DEF MintInv, Frame
<1> QED BY <1>1, <1>2, <1>3 DEF MintInv, Numbered, Frame

(* The clients a commit renders are clean. *)
LEMMA ServedClean ==
  ASSUME TypeInv, BarredInv, todo # <<>>, Head(todo) = "render"
  PROVE  Clean(Served, IF doing.op = "expire" THEN doing.now ELSE day)
<1>1. /\ doing \in Calls /\ doing # None /\ doing.op # "restore" /\ doing.back \in BOOLEAN
      /\ disk \in Disks /\ Sourced(doing.op, doing.back, "render", HeadOr(Tail(todo), "end"))
  BY HeadFacts
<1>2. /\ doing.now \in Days /\ day \in Days /\ doing.now <= day
      /\ disk.meta \in Metas /\ doing.before.meta \in Metas
  BY <1>1 DEF TypeInv, TypeOK, CallInv, Calls, Disks, Metas
<1> DEFINE d == IF doing.op = "expire" THEN doing.now ELSE day
<1>3. d \in Days /\ doing.now <= d
  BY <1>2, BoundAssumption DEF Days
<1> HIDE DEF d
<1>4. CASE doing.op \in {"initialize", "migrate"}
  <2>1. ~doing.back /\ doing.record.key \notin retired
    BY <1>1, <1>4 DEF Sourced, BarredInv, Making
  <2>2. Served = [n \in Names |-> IF n = doing.name THEN doing.record ELSE None]
    BY <1>4, <2>1 DEF Served
  <2> QED BY <2>1, <2>2 DEF Clean, Described, d
<1>5. CASE doing.op \notin {"initialize", "migrate"}
  <2>1. Clean(disk.meta, doing.now) /\ Clean(doing.before.meta, doing.now)
    BY <1>1, <1>5 DEF BarredInv
  <2>2. Clean(disk.meta, d) /\ Clean(doing.before.meta, d)
    BY <1>2, <1>3, <2>1, CleanLater
  <2>3. CASE doing.back
    BY <2>2, <2>3 DEF Served, d
  <2>4. CASE ~doing.back /\ doing.op = "revoke"
    <3>1. Served = [disk.meta EXCEPT ![doing.name] = None]
      BY <2>4 DEF Served
    <3>2. \A n \in Described(Served) : n \in Described(disk.meta) /\ Served[n] = disk.meta[n]
      BY <1>2, <3>1 DEF Described, Metas
    <3> QED BY <2>2, <3>2 DEF Clean, d
  <2>5. CASE ~doing.back /\ doing.op # "revoke"
    BY <1>5, <2>2, <2>5 DEF Served, d
  <2> QED BY <2>3, <2>4, <2>5
<1> QED BY <1>4, <1>5

LEMMA GoingBars ==
  ASSUME TypeInv, BarredInv, Going
  PROVE  BarredInv'
<1>1. Frame /\ Traced /\ Conveyed
  BY GoingFrame, GoingTraces, GoingConveys
<1>2. CASE retired' = {}
  BY <1>2 DEF BarredInv, Barred, Clean
<1>3. CASE retired' = retired
  <2>1. disk'.runtime \in {disk.runtime, None, doing.text, doing.prior.runtime} \/ retired' = {}
    BY <1>1 DEF Conveyed
  <2>2. Barred(disk.runtime)' /\ Barred(link)'
    BY <1>1, <1>3, <2>1 DEF BarredInv, Barred, Conveyed, Frame
  <2>3. Barred(doing.text)' /\ Barred(doing.prior.runtime)'
    <3>1. CASE RenderServer
      <4>1. todo # <<>> /\ Head(todo) = "render"
        BY <3>1 DEF RenderServer, At
      <4> DEFINE d == IF doing.op = "expire" THEN doing.now ELSE day
                 t == Render(disk.config, Served, d)
                 p == [generated |-> disk.generated, runtime |-> disk.runtime]
      <4>2. Barred(t)
        BY <4>1, ServedClean, RenderBarred
      <4>3. doing' = [doing EXCEPT !.text = t, !.prior = p]
        BY <3>1 DEF RenderServer
      <4>4. p.runtime = disk.runtime
        OBVIOUS
      <4> HIDE DEF t, p
      <4>5. doing \in Calls
        BY <4>1, HeadFacts
      <4>6. doing'.text = t /\ doing'.prior.runtime = disk.runtime
        BY <4>3, <4>4, <4>5 DEF Calls
      <4> QED BY <1>1, <1>3, <4>2, <4>6 DEF Barred, BarredInv, Frame
    <3>2. CASE ~RenderServer
      BY <1>1, <1>3, <3>2 DEF Barred, BarredInv, Frame
    <3> QED BY <3>1, <3>2
  <2>4. doing'.op \in Making => doing'.record.key \notin retired'
    BY <1>1, <1>3 DEF BarredInv, Frame
  <2>5. ASSUME doing.op \notin {"initialize", "migrate", "restore"}, todo' # <<>>
        PROVE  Clean(disk.meta, doing.now)' /\ Clean(doing.before.meta, doing.now)'
    <3>1. Clean(disk.meta, doing.now) /\ Clean(doing.before.meta, doing.now)
      BY <1>1, <2>5 DEF BarredInv, Frame
    <3>2. Clean(doing.before.meta, doing.now)'
      BY <1>1, <1>3, <3>1 DEF Clean, Frame
    <3>3. \A n \in Described(disk'.meta) :
            Eligible(disk'.meta[n], doing.now) => disk'.meta[n].key \notin retired
      BY <1>1, <2>5, <3>1 DEF Traced, Clean, BarredInv, Frame
    <3> QED BY <1>1, <1>3, <3>2, <3>3 DEF Clean, Frame
  <2> QED BY <1>1, <2>2, <2>3, <2>4, <2>5 DEF BarredInv, Frame
<1> QED BY <1>1, <1>2, <1>3 DEF Conveyed

-----------------------------------------------------------------------------
(* The key a command promises to retire leaves the files, then the interface *)

LEMMA Follows ==
  ASSUME NEW op \in {"revoke", "rotate", "expire"}, NEW a, NEW b, <<a, b>> \in Forward(op)
  PROVE  /\ b = "render" => op # "revoke" /\ (op = "rotate" => a = "describe")
         /\ b = "generated" => a = "render"
         /\ b = "runtime" => a = "generated"
         /\ b = "act" => a = "runtime"
         /\ b \in {"verify", "check", "recheck"} => a = "act"
         /\ op = "revoke" => /\ b = "unclient" => a = "verify"
                             /\ b = "unkeys" => a = "unclient"
                             /\ b = "end" => a = "unkeys"
         /\ op = "rotate" /\ b = "end" => a = "verify"
         /\ op = "expire" /\ b = "end" => a \in {"check", "recheck"}
<1>1. CASE op = "revoke"
  BY <1>1 DEF Forward, Committing
<1>2. CASE op = "rotate"
  BY <1>2 DEF Forward, Committing
<1>3. CASE op = "expire"
  BY <1>3 DEF Forward, Committing
<1> QED BY <1>1, <1>2, <1>3

(* Which action takes a step that succeeds. *)
LEMMA Takes ==
  ASSUME TypeInv, Going, ~doing'.back
  PROVE  /\ ~doing.back
         /\ Head(todo) = "describe" => DescribeClient
         /\ Head(todo) = "render" => RenderServer
         /\ Head(todo) = "runtime" => WriteRuntime
         /\ Head(todo) = "verify" => Verify
         /\ Head(todo) \in {"check", "recheck"} => CheckExpired
         /\ Head(todo) # "render" => ~RenderServer
         /\ Onward \/ WriteProfiles \/ MarkExpired \/ CheckExpired
<1>1. Frame /\ doing \in Calls /\ doing.back \in BOOLEAN
  BY GoingFrame, HeadFacts DEF Frame, Calls
<1>2. ~doing.back
  BY <1>1 DEF Frame
<1>3. ~StepFails /\ ~ActFails
  BY <1>1 DEF StepFails, ActFails, Calls
<1>4. /\ Head(todo) = "describe" => DescribeClient
      /\ Head(todo) = "render" => RenderServer
      /\ Head(todo) = "runtime" => WriteRuntime
      /\ Head(todo) = "verify" => Verify
      /\ Head(todo) \in {"check", "recheck"} => CheckExpired
      /\ Head(todo) # "render" => ~RenderServer
  BY <1>3 DEF Going, WriteConfig, CreateClient, DescribeClient, RemoveClient, RemoveKeys, CompareServer,
         WriteProfiles, MarkExpired, RenderServer, WriteGenerated, WriteRuntime, Act, ActUnapplied,
         Verify, CheckExpired, Displace, Place, OldRuntime, OldGenerated, Again,
         AgainFails, Halt, HaltFails, ReturnClient, ReturnKeys, Reactivate, OldConfig, OldMetadata,
         Unconfigure, NoRuntime, Unplace, PutBack, At
<1>5. Onward \/ WriteProfiles \/ MarkExpired \/ CheckExpired
  BY <1>3, WriteConfigStep, CreateClientStep, DescribeClientStep, RemoveSteps, RenderServerStep,
     WriteTextSteps, WriteRuntimeStep, ActSteps, AgainSteps, HaltSteps, ReturnSteps, ReactivateStep,
     OldSteps, SwapSteps DEF Going
<1> QED BY <1>2, <1>4, <1>5

(* What a step that succeeds leaves alone. *)
LEMMA Leaves ==
  ASSUME TypeInv, Going, ~doing'.back
  PROVE  /\ Head(todo) # "runtime" => disk'.runtime = disk.runtime
         /\ Head(todo) # "act" => link' = link
         /\ \/ disk'.meta = disk.meta \/ CreateClient \/ DescribeClient \/ RemoveClient
            \/ MarkExpired \/ doing.op \in {"endpoint", "port", "restore"}
<1>1. Frame /\ doing \in Calls /\ disk \in Disks /\ ~doing.back
  BY GoingFrame, HeadFacts, Takes DEF Frame
<1>2. CASE WriteConfig \/ CompareServer \/ Verify \/ RemoveKeys \/ WriteGenerated \/ RenderServer
           \/ WriteRuntime \/ Act \/ ActUnapplied \/ CheckExpired
  BY <1>1, <1>2 DEF WriteConfig, CompareServer, Verify, RemoveKeys, WriteGenerated, RenderServer,
         WriteRuntime, Act, ActUnapplied, CheckExpired, Write, At, Disks
<1>3. CASE CreateClient \/ DescribeClient \/ RemoveClient
  BY <1>1, <1>3 DEF CreateClient, DescribeClient, RemoveClient, Write, At, Disks
<1>4. CASE WriteProfiles \/ MarkExpired
  <2>1. link' = link /\ disk'.runtime = disk.runtime
    BY <1>1, <1>4 DEF WriteProfiles, MarkExpired, Write, Disks
  <2>2. WriteProfiles => doing.op \in {"endpoint", "port"}
    BY <1>1, HeadFacts DEF WriteProfiles, At, Sourced, Frame
  <2> QED BY <1>4, <2>1, <2>2
<1>5. CASE Displace \/ Place \/ Unplace \/ PutBack
  <2>1. Head(todo) \in {"displace", "place", "unplace", "putback"} /\ link' = link
    BY <1>5 DEF Displace, Place, Unplace, PutBack, At
  <2>2. doing.op = "restore"
    BY <1>1, <2>1, HeadFacts DEF Sourced, Frame
  <2> QED BY <1>5, <2>1, <2>2, SwapSteps
<1>6. CASE OldRuntime \/ OldGenerated \/ Again \/ AgainFails \/ Halt \/ HaltFails
           \/ ReturnClient \/ ReturnKeys \/ Reactivate \/ OldConfig \/ OldMetadata
           \/ Unconfigure \/ NoRuntime
  <2>1. Head(todo) \in {"oldruntime", "oldgenerated", "again", "halt", "reclient", "rekeys",
                        "reactivate", "oldconfig", "oldmetadata", "unconfigure", "noruntime"}
    BY <1>6 DEF OldRuntime, OldGenerated, Again, AgainFails, Halt, HaltFails, ReturnClient, ReturnKeys,
         Reactivate, OldConfig, OldMetadata, Unconfigure, NoRuntime, At
  <2>2. doing.op = "restore" /\ Head(todo) \in {"oldruntime", "again"}
    BY <1>1, <2>1, HeadFacts DEF Sourced, Frame
  <2>3. FALSE
    BY <1>1, <2>2, RestoreHead DEF Frame, TypeInv
  <2> QED BY <2>3
<1>7. ~StepFails /\ ~ActFails
  BY <1>1 DEF StepFails, ActFails, Calls
<1> QED BY <1>2, <1>3, <1>4, <1>5, <1>6, <1>7 DEF Going

(* The step that follows, for the commands that retire keys. *)
LEMMA Succeeds ==
  ASSUME TypeInv, Onward, ~doing.back, doing.op \in {"revoke", "rotate", "expire"}
  PROVE  Now = Head(todo) /\ <<Now, Now'>> \in Forward(doing.op)
<1>1. /\ todo \in Seq(Steps) /\ doing \in Calls /\ doing # None /\ Head(todo) = todo[1]
      /\ todo # <<>> /\ todo' = Tail(todo)
  BY TodoFacts DEF TypeInv, Onward
<1>2. PathTo(todo, Forward(doing.op), "end")
  BY <1>1 DEF TypeInv, FlowInv, Edges
<1>3. <<Head(todo), HeadOr(Tail(todo), "end")>> \in Forward(doing.op)
  BY <1>1, <1>2, Continued
<1> QED BY <1>1, <1>3 DEF Now, HeadOr

LEMMA GoingKeeps ==
  ASSUME TypeInv, KeptInv, Going
  PROVE  KeptInv'
<1> SUFFICES ASSUME ~doing'.back
             PROVE  KeptInv'
  BY DEF KeptInv
<1>1. /\ Frame /\ ~doing.back /\ doing \in Calls /\ disk \in Disks
      /\ disk.meta \in Metas /\ doing.before.meta \in Metas
  BY GoingFrame, HeadFacts, Takes DEF Frame, Calls, Disks, Metas
<1>2. Leaving' = Leaving
  BY <1>1 DEF Leaving, Frame
<1>3. doing.op \in {"revoke", "rotate", "expire"} => Distinct(doing'.before.meta)
  BY <1>1 DEF KeptInv, Frame
<1>4. CASE doing.op \in {"revoke", "rotate"}
  <2>1. Onward
    <3>1. ~WriteProfiles /\ ~MarkExpired /\ ~CheckExpired
      BY <1>1, <1>4, HeadFacts DEF WriteProfiles, MarkExpired, CheckExpired, At, Sourced, Frame
    <3> QED BY <3>1, Takes
  <2>2. Now = Head(todo) /\ <<Now, Now'>> \in Forward(doing.op)
    BY <1>1, <1>4, <2>1, Succeeds
  <2>3. CASE doing.op = "revoke"
    <3>1. Now' # "render"
      BY <2>2, <2>3, Follows
    <3> QED BY <1>1, <1>3, <2>3, <3>1 DEF KeptInv, Frame
  <2>4. CASE doing.op = "rotate"
    <3>1. doing.record.key \notin Leaving /\
          \A m \in Names \ {doing.name} : disk.meta[m] = doing.before.meta[m]
      BY <1>1, <2>4 DEF KeptInv, Frame
    <3>2. \A m \in Names \ {doing.name} : disk'.meta[m] = disk.meta[m]
      <4>1. \/ disk'.meta = disk.meta \/ CreateClient \/ DescribeClient \/ RemoveClient
        <5>1. ~MarkExpired
          BY <1>1, <2>4, HeadFacts DEF MarkExpired, At, Sourced, Frame
        <5> QED BY <2>4, <5>1, Leaves
      <4>2. \/ disk'.meta = disk.meta
            \/ \E r : disk'.meta = [disk.meta EXCEPT ![doing.name] = r]
        BY <1>1, <4>1 DEF CreateClient, DescribeClient, RemoveClient, Write, Disks
      <4> QED BY <1>1, <4>2 DEF Metas
    <3>3. Now' = "render" => disk'.meta[doing.name] = doing.record
      <4> SUFFICES ASSUME Now' = "render" PROVE disk'.meta[doing.name] = doing.record
        OBVIOUS
      <4>1. DescribeClient
        BY <2>2, <2>4, Follows, Takes
      <4>2. doing.name \in Names
        BY <1>1, <2>4 DEF Frame, TypeInv, CallInv, Making
      <4> QED BY <1>1, <4>1, <4>2 DEF DescribeClient, Write, Disks
    <3>4. doing'.record.key \notin Leaving'
      BY <1>1, <1>2, <3>1 DEF Frame
    <3> QED BY <1>1, <1>3, <2>4, <3>1, <3>2, <3>3, <3>4 DEF KeptInv, Frame
  <2> QED BY <1>4, <2>3, <2>4
<1>5. CASE doing.op = "expire"
  <2>1. /\ Described(disk.meta) = Described(doing.before.meta)
        /\ \A n \in Described(disk.meta) :
             /\ disk.meta[n].key = doing.before.meta[n].key
             /\ Eligible(disk.meta[n], doing.now) => Eligible(doing.before.meta[n], doing.now)
    BY <1>1, <1>5 DEF KeptInv, Frame
  <2>2. disk'.meta = disk.meta \/ MarkExpired
    <3>1. ~CreateClient /\ ~DescribeClient /\ ~RemoveClient
      BY <1>1, <1>5, HeadFacts DEF CreateClient, DescribeClient, RemoveClient, At, Sourced, Making, Frame
    <3> QED BY <1>5, <3>1, Leaves
  <2>3. /\ Described(disk'.meta) = Described(disk.meta)
        /\ \A n \in Described(disk.meta) :
             /\ disk'.meta[n].key = disk.meta[n].key
             /\ Eligible(disk'.meta[n], doing.now) => Eligible(disk.meta[n], doing.now)
    <3>1. CASE disk'.meta = disk.meta
      BY <3>1
    <3>2. CASE \E n \in Due : disk' = [disk EXCEPT !.meta[n].state = "expired"]
      <4>1. PICK n \in Due : disk' = [disk EXCEPT !.meta[n].state = "expired"]
        BY <3>2
      <4>2. n \in Described(disk.meta) /\ disk.meta[n] \in Records
        BY <1>1, <4>1, DescribedRecords DEF Due
      <4> DEFINE r == [disk.meta[n] EXCEPT !.state = "expired"]
      <4>3. disk'.meta = [disk.meta EXCEPT ![n] = r]
        BY <1>1, <4>1 DEF Disks
      <4>4. r \in Records /\ r.key = disk.meta[n].key /\ ~Eligible(r, doing.now)
        BY <4>2 DEF Records, Eligible
      <4> HIDE DEF r
      <4>5. r \notin {None, Partial}
        BY <4>4, NoneAssumption DEF NoneAssumption
      <4> QED BY <1>1, <4>2, <4>3, <4>4, <4>5 DEF Described, Metas
    <3> QED BY <2>2, <3>1, <3>2 DEF MarkExpired, Write
  <2> QED BY <1>1, <1>3, <1>5, <2>1, <2>3 DEF KeptInv, Frame
<1>6. CASE doing.op \notin {"revoke", "rotate", "expire"}
  BY <1>1, <1>6 DEF KeptInv, Frame
<1> QED BY <1>4, <1>5, <1>6

(* The text rendered forwards is without the keys that leave. *)
LEMMA RenderLeaves ==
  ASSUME TypeInv, KeptInv, todo # <<>>, Head(todo) = "render", ~doing.back,
         doing.op \in {"revoke", "rotate", "expire"}
  PROVE  Without(Render(disk.config, Served, IF doing.op = "expire" THEN doing.now ELSE day))
<1>1. /\ doing \in Calls /\ doing # None /\ disk \in Disks /\ Now = "render"
      /\ disk.meta \in Metas /\ doing.before.meta \in Metas
  BY HeadFacts DEF Calls, Disks, Metas
<1> DEFINE d == IF doing.op = "expire" THEN doing.now ELSE day
<1> SUFFICES ASSUME NEW n \in Described(Served), Eligible(Served[n], d)
             PROVE  Served[n].key \notin Leaving
  BY DEF Without, Render
<1>2. Distinct(doing.before.meta)
  BY <1>1 DEF KeptInv
<1>3. CASE doing.op = "revoke"
  <2>1. Served = [doing.before.meta EXCEPT ![doing.name] = None]
    BY <1>1, <1>3 DEF Served, KeptInv
  <2>2. n \in Described(doing.before.meta) /\ n # doing.name /\ Served[n] = doing.before.meta[n]
    BY <1>1, <2>1 DEF Described, Metas
  <2>3. doing.name \in Described(doing.before.meta)
    BY <1>1, <1>3 DEF TypeInv, CallInv
  <2> QED BY <1>2, <1>3, <2>2, <2>3 DEF Leaving, Distinct
<1>4. CASE doing.op = "rotate"
  <2>1. Served = disk.meta
    BY <1>4 DEF Served
  <2>2. /\ doing.record.key \notin Leaving /\ disk.meta[doing.name] = doing.record
        /\ \A m \in Names \ {doing.name} : disk.meta[m] = doing.before.meta[m]
    BY <1>1, <1>4 DEF KeptInv
  <2>3. CASE n = doing.name
    BY <2>1, <2>2, <2>3
  <2>4. CASE n # doing.name
    <3>1. n \in Described(doing.before.meta) /\ Served[n] = doing.before.meta[n]
      BY <2>1, <2>2, <2>4 DEF Described
    <3>2. doing.name \in Described(doing.before.meta)
      BY <1>1, <1>4 DEF TypeInv, CallInv
    <3> QED BY <1>2, <1>4, <2>4, <3>1, <3>2 DEF Leaving, Distinct
  <2> QED BY <2>3, <2>4
<1>5. CASE doing.op = "expire"
  <2>1. Served = disk.meta /\ d = doing.now
    BY <1>5 DEF Served
  <2>2. /\ n \in Described(doing.before.meta) /\ Served[n].key = doing.before.meta[n].key
        /\ Eligible(doing.before.meta[n], doing.now)
    BY <1>1, <1>5, <2>1 DEF KeptInv
  <2> QED BY <1>2, <1>5, <2>2 DEF Leaving, Distinct, Eligible
<1> QED BY <1>3, <1>4, <1>5

(* Step by step they leave the files and the interface. *)
LEMMA GoingLeaves ==
  ASSUME TypeInv, KeptInv, GoneInv, Going
  PROVE  GoneInv'
<1> SUFFICES ASSUME ~doing'.back
             PROVE  GoneInv'
  BY DEF GoneInv
<1>1. /\ Frame /\ ~doing.back /\ doing \in Calls /\ doing # None /\ disk \in Disks
      /\ Now = Head(todo) /\ doing.op \in Ops
  BY GoingFrame, HeadFacts, Takes DEF Frame
<1>2. Leaving' = Leaving /\ doing'.op = doing.op
  BY <1>1 DEF Leaving, Frame
<1>3. CASE doing.op \notin {"revoke", "rotate", "expire"}
  <2>1. Leaving' = {}
    BY <1>2, <1>3 DEF Leaving
  <2> QED BY <1>2, <1>3, <2>1 DEF GoneInv, Without
<1>4. CASE Onward /\ ~CheckExpired /\ doing.op \in {"revoke", "rotate", "expire"}
  <2>1. <<Now, Now'>> \in Forward(doing.op)
    BY <1>1, <1>4, Succeeds
  <2>2. Now' = "generated" => Without(doing.text)'
    <3> SUFFICES ASSUME Now' = "generated" PROVE Without(doing.text)'
      OBVIOUS
    <3>1. RenderServer /\ Head(todo) = "render" /\ todo # <<>>
      BY <1>1, <1>4, <2>1, Follows, Takes DEF Frame
    <3> DEFINE t == Render(disk.config, Served, IF doing.op = "expire" THEN doing.now ELSE day)
    <3>2. Without(t)
      BY <1>1, <1>4, <3>1, RenderLeaves
    <3> HIDE DEF t
    <3>3. doing'.text = t
      BY <1>1, <3>1 DEF RenderServer, Calls, t
    <3> QED BY <1>2, <3>2, <3>3 DEF Without
  <2>3. Now' = "runtime" => Without(doing.text)'
    <3> SUFFICES ASSUME Now' = "runtime" PROVE Without(doing.text)'
      OBVIOUS
    <3>1. Now = "generated" /\ ~RenderServer
      BY <1>1, <1>4, <2>1, Follows, Takes
    <3>2. Without(doing.text) /\ doing'.text = doing.text
      BY <1>1, <3>1 DEF GoneInv, Frame
    <3> QED BY <1>2, <3>2 DEF Without
  <2>4. CASE Now = "runtime"
    <3>1. WriteRuntime /\ Without(doing.text)
      BY <1>1, <2>4, Takes DEF GoneInv
    <3>2. disk'.runtime = doing.text
      BY <1>1, <1>4, <3>1 DEF WriteRuntime, Disks
    <3>3. Without(disk.runtime)'
      BY <1>2, <3>1, <3>2 DEF Without
    <3>4. /\ Now' # "end"
          /\ ~(doing'.op = "revoke" /\ Now' \in {"unclient", "unkeys"})
      BY <1>2, <1>4, <2>1, <2>4, Follows
    <3> QED BY <2>2, <2>3, <3>3, <3>4 DEF GoneInv
  <2>5. CASE Now # "runtime"
    <3>1. disk'.runtime = disk.runtime
      BY <1>1, <2>5, Leaves
    <3>2. ASSUME \/ Now' \in {"act", "verify", "check", "recheck", "end"}
                 \/ doing.op = "revoke" /\ Now' \in {"unclient", "unkeys"}
          PROVE  Without(disk.runtime)'
      <4>1. \/ Now \in {"act", "verify", "check", "recheck"}
            \/ doing.op = "revoke" /\ Now \in {"unclient", "unkeys"}
        BY <1>4, <2>1, <2>5, <3>2, Follows
      <4>2. Without(disk.runtime)
        BY <1>1, <4>1 DEF GoneInv
      <4> QED BY <1>2, <3>1, <4>2 DEF Without
    <3>3. ASSUME \/ Now' = "end"
                 \/ doing.op = "revoke" /\ Now' \in {"unclient", "unkeys"}
          PROVE  Without(link)'
      <4>1. link' = link \/ Now = "act"
        BY <1>1, Leaves
      <4>2. Now # "act"
        BY <1>4, <2>1, <3>3, Follows
      <4>3. CASE Now = "verify"
        <5>1. Verified /\ doing.op \in {"revoke", "rotate"}
          <6>1. ~(doing.op = "expire" /\ Now = "verify")
            BY <2>1, <3>3, <4>3, Follows
          <6> QED BY <1>1, <1>4, <4>3, <6>1, Takes DEF Verify
        <5>2. doing.active \/ link = None
          BY <1>1 DEF TypeInv, CallInv
        <5>3. Without(link)
          BY <5>1, <5>2 DEF Verified, Without, Leaving, LiveKeys
        <5> QED BY <1>2, <4>1, <4>2, <5>3 DEF Without
      <4>4. CASE doing.op = "revoke" /\ Now \in {"unclient", "unkeys"}
        <5>1. Without(link)
          BY <1>1, <4>4 DEF GoneInv
        <5> QED BY <1>2, <4>1, <4>2, <5>1 DEF Without
      <4>5. ~(doing.op = "expire" /\ Now \in {"check", "recheck"})
        BY <1>1, <1>4, Takes
      <4> QED BY <1>4, <2>1, <3>3, <4>3, <4>4, <4>5, Follows
    <3> QED BY <1>2, <2>2, <2>3, <3>2, <3>3 DEF GoneInv
  <2> QED BY <2>4, <2>5
<1>5. CASE MarkExpired /\ ~Onward
  <2>1. Now' = "mark"
    <3>1. todo' = todo /\ Now = "mark"
      BY <1>1, <1>5, MarkExpiredStep DEF running, MarkExpired, At
    <3> QED BY <3>1 DEF Now
  <2> QED BY <2>1 DEF GoneInv
<1>6. CASE CheckExpired
  <2>1. doing.op = "expire" /\ Now \in {"check", "recheck"} /\ Without(disk.runtime)
    BY <1>1, <1>6, HeadFacts DEF CheckExpired, At, Sourced, Frame, GoneInv
  <2>2. disk' = disk /\ link' = link
    BY <1>6 DEF CheckExpired
  <2>3. CASE Remaining = {}
    <3>1. Now' = "end"
      BY <1>6, <2>3, CheckExpiredStep
    <3>2. Without(link)
      BY <2>1, <2>3 DEF Remaining, Without, Leaving, LiveKeys
    <3> QED BY <1>2, <2>1, <2>2, <3>1, <3>2 DEF GoneInv, Without
  <2>4. CASE Remaining # {}
    <3>1. Now' = "render"
      BY <1>6, <2>4, CheckExpiredStep
    <3> QED BY <3>1 DEF GoneInv
  <2> QED BY <2>3, <2>4
<1>7. CASE WriteProfiles /\ doing.op \in {"revoke", "rotate", "expire"}
  BY <1>1, <1>7, HeadFacts DEF WriteProfiles, At, Sourced, Frame
<1> QED BY <1>3, <1>4, <1>5, <1>6, <1>7, Takes

-----------------------------------------------------------------------------
(* The other steps *)

Inv == TypeInv /\ MintInv /\ BarredInv /\ KeptInv /\ GoneInv

(* A command that begins without drift, or after a reconcilable one, finds clean clients. *)
LEMMA DriftCleans ==
  ASSUME TypeInv, BarredInv, NoDrift
  PROVE  Clean(disk.meta, day) /\ Distinct(disk.meta) /\ disk.runtime # None
<1> DEFINE t == Render(disk.config, disk.meta, day)
<1>1. disk.runtime = t /\ Ready(disk)
  BY DEF NoDrift
<1>2. t \in Texts
  BY Settled, RenderTyped DEF NoDrift, TypeInv, TypeOK
<1>3. disk.runtime # None
  BY <1>1, <1>2, NoneAssumption DEF NoneAssumption
<1>4. Distinct(disk.meta)
  BY <1>1 DEF Ready, Loadable, Distinct
<1> QED BY <1>1, <1>3, <1>4, ServingCleans

LEMMA ReconcilableCleans ==
  ASSUME TypeInv, BarredInv, Expire
  PROVE  Clean(disk.meta, day) /\ Distinct(disk.meta)
<1> DEFINE t == Render(disk.config, disk.meta, day)
<1>1. /\ Ready(disk) /\ disk.generated # None /\ disk.runtime = disk.generated
      /\ \E peers \in {t.peers, t.peers \cup {Peer(n) : n \in Selected}} :
           disk.generated = [t EXCEPT !.peers = peers]
  BY DEF Expire, Reconcilable
<1>2. t.peers \subseteq disk.runtime.peers
  <2>1. PICK peers : t.peers \subseteq peers /\ disk.generated = [t EXCEPT !.peers = peers]
    BY <1>1
  <2>2. [t EXCEPT !.peers = peers].peers = peers
    BY DEF Render
  <2> QED BY <1>1, <2>1, <2>2
<1>3. Distinct(disk.meta)
  BY <1>1 DEF Ready, Loadable, Distinct
<1> QED BY <1>1, <1>2, <1>3, ServingCleans

(* A command that ends retires only keys that are already gone. *)
LEMMA FinishKeeps ==
  ASSUME Inv, Finish
  PROVE  Inv'
<1>1. /\ doing # None /\ todo = <<>> /\ doing' = None /\ retired' = retired \cup Invalidated
      /\ UNCHANGED <<disk, link, day, backup, minted, commands, troubles>>
  BY DEF Finish, Ended, budget
<1>2. /\ doing \in Calls /\ doing.before.meta \in Metas /\ minted \in Nat
      /\ Numbered(doing.before.meta)
  BY <1>1 DEF Inv, TypeInv, TypeOK, Calls, Disks, Metas, MintInv
<1>3. doing.op \in {"revoke", "rotate"} => doing.name \in Described(doing.before.meta)
  BY <1>1 DEF Inv, TypeInv, CallInv
<1>4. Invalidated = IF doing.back THEN {} ELSE Leaving
  BY DEF Invalidated, Leaving
<1>5. Invalidated \subseteq 1..minted
  <2>1. \A n \in Described(doing.before.meta) : doing.before.meta[n].key \in 1..minted
    BY <1>2, KeysPositive DEF Numbered
  <2> QED BY <1>3, <1>4, <2>1 DEF Leaving
<1>6. ~doing.back => Without(disk.runtime) /\ Without(link)
  <2>1. Now = "end"
    BY <1>1 DEF Now, HeadOr
  <2> QED BY <1>1, <2>1 DEF Inv, GoneInv
<1>7. MintInv'
  BY <1>1, <1>5 DEF Inv, MintInv, Numbered
<1>8. BarredInv'
  BY <1>1, <1>4, <1>6 DEF Inv, BarredInv, Barred, Without
<1>9. KeptInv' /\ GoneInv'
  BY <1>1 DEF KeptInv, GoneInv
<1> QED BY <1>7, <1>8, <1>9, FinishStep DEF Inv

(* A step between commands, or a crash, that keeps the files, or changes no key. *)
LEMMA IdleKeeps ==
  ASSUME Inv, TypeInv', doing' = None, retired' = retired, minted' = minted,
         link' \in {link, None, disk.runtime}, disk'.runtime = disk.runtime,
         disk'.config = disk.config,
         \A n \in Described(disk'.meta) :
           n \in Described(disk.meta) /\ disk'.meta[n].key = disk.meta[n].key,
         backup' = backup \/ (backup'.meta = disk.meta /\ disk.config # None)
  PROVE  Inv'
<1>1. MintInv'
  BY DEF Inv, MintInv, Numbered
<1>2. BarredInv'
  BY DEF Inv, BarredInv, Barred
<1>3. KeptInv' /\ GoneInv'
  BY DEF KeptInv, GoneInv
<1> QED BY <1>1, <1>2, <1>3 DEF Inv

LEMMA OutsideKeeps ==
  ASSUME Inv, Crash \/ Reboot \/ ServiceStart \/ ServiceStop \/ Backup
  PROVE  Inv'
<1>1. TypeInv'
  BY CrashStep, IdleSteps DEF Inv
<1>2. /\ doing' = None /\ retired' = retired /\ minted' = minted /\ disk' = disk
      /\ link' \in {link, None, disk.runtime}
  BY DEF Crash, Ended, Boot, Reboot, ServiceStart, ServiceStop, Backup, Idle, running, history, budget
<1>3. disk \in Disks
  BY DEF Inv, TypeInv, TypeOK
<1>4. backup' = backup \/ (backup'.meta = disk.meta /\ disk.config # None)
  BY <1>3 DEF Crash, Reboot, ServiceStart, ServiceStop, Backup, Idle, Ready, Disks
<1> QED BY <1>1, <1>2, <1>4, IdleKeeps

LEMMA EditKeeps ==
  ASSUME Inv, NEW n \in Names, NEW date \in Dates(n), Edit(n, date)
  PROVE  Inv'
<1>1. TypeInv' /\ disk \in Disks /\ disk.meta \in Metas
  BY EditStep DEF Inv, TypeInv, TypeOK, Disks, Metas
<1>2. /\ doing' = None /\ retired' = retired /\ minted' = minted /\ link' = link /\ backup' = backup
      /\ n \in Described(disk.meta) /\ disk' = [disk EXCEPT !.meta[n].expires = date]
  BY DEF Edit, running
<1>3. disk.meta[n] \in Records
  BY <1>1, <1>2, DescribedRecords
<1>4. disk'.meta = [disk.meta EXCEPT ![n] = [disk.meta[n] EXCEPT !.expires = date]]
  BY <1>1, <1>2 DEF Disks
<1>5. disk'.runtime = disk.runtime /\ disk'.config = disk.config
  BY <1>1, <1>2 DEF Disks
<1>6. ASSUME NEW m \in Described(disk'.meta)
      PROVE  m \in Described(disk.meta) /\ disk'.meta[m].key = disk.meta[m].key
  <2>1. CASE m = n
    <3>1. disk'.meta[n] = [disk.meta[n] EXCEPT !.expires = date]
      BY <1>1, <1>4 DEF Metas
    <3> QED BY <2>1, <3>1, <1>2, <1>3 DEF Records
  <2>2. CASE m # n
    <3>1. m \in Names /\ disk'.meta[m] = disk.meta[m]
      BY <2>2, <1>1, <1>4 DEF Described, Metas
    <3> QED BY <3>1 DEF Described
  <2> QED BY <2>1, <2>2
<1> QED BY <1>1, <1>2, <1>5, <1>6, IdleKeeps

LEMMA MidnightKeeps ==
  ASSUME Inv, Midnight
  PROVE  Inv'
<1>1. /\ UNCHANGED <<disk, link, backup, doing, todo, retired, minted>> /\ Now' = Now
  BY DEF Midnight, running, history, budget, Now
<1>2. MintInv' /\ BarredInv'
  BY <1>1 DEF Inv, MintInv, Numbered, BarredInv, Barred, Clean
<1>3. Leaving' = Leaving
  BY <1>1 DEF Leaving
<1>4. KeptInv'
  BY <1>1, <1>3 DEF Inv, KeptInv
<1>5. GoneInv'
  BY <1>1, <1>3 DEF Inv, GoneInv, Without
<1> QED BY <1>2, <1>4, <1>5, MidnightStep DEF Inv

(* A command that begins finds what the invariant says of it. *)
LEMMA BeginKeeps ==
  ASSUME Inv, NEW c, Begun(c), Start(c), Counted, minted' \in {minted, minted + 1}, minted' # 0,
         c.text = None \/ Barred(c.text),
         c.op \in Making => c.record.key <= minted' /\ c.record.key \notin retired,
         c.op \notin {"initialize", "migrate", "restore"} => Clean(disk.meta, day),
         c.op \in {"revoke", "rotate", "expire"} => Distinct(disk.meta),
         c.op = "rotate" => c.record.key = minted + 1
  PROVE  Inv'
<1>1. /\ doing' = c /\ UNCHANGED <<disk, link, day, backup, retired>>
      /\ c \in Calls /\ ~c.back /\ c.before = disk /\ c.now = day /\ c.prior.runtime = disk.runtime
  BY DEF Start, Begun
<1>2. TypeInv' /\ (c.op # "restore" => Now' = Beginning[c.op])
  BY StartGoes DEF Inv
<1>3. minted \in Nat /\ minted' \in Nat /\ minted <= minted' /\ disk.meta \in Metas
  BY DEF Inv, TypeInv, TypeOK, Disks, Metas
<1>4. Numbered(disk.meta)' /\ (backup # None => Numbered(backup.meta)')
  <2>1. \A meta \in Metas : Numbered(meta) => \A n \in Described(meta) : meta[n].key <= minted'
    BY <1>3, KeysPositive DEF Numbered
  <2>2. backup # None => backup.meta \in Metas
    BY DEF Inv, TypeInv, TypeOK, Disks, Metas
  <2> QED BY <1>1, <1>3, <2>1, <2>2 DEF Inv, MintInv, Numbered
<1>5. retired \subseteq 1..minted'
  BY <1>3 DEF Inv, MintInv
<1>6. MintInv'
  BY <1>1, <1>4, <1>5 DEF MintInv, Numbered
<1>7. BarredInv'
  BY <1>1 DEF Inv, BarredInv, Barred, Clean
<1>8. CASE c.op \in {"revoke", "rotate", "expire"}
  <2>1. Now' \in {"render", "unclient", "mark"} /\ (c.op = "rotate" => Now' = "unclient")
    BY <1>2, <1>8 DEF Beginning
  <2>2. c.op = "rotate" => c.record.key \notin Leaving'
    <3> SUFFICES ASSUME c.op = "rotate" PROVE c.record.key \notin Leaving'
      OBVIOUS
    <3>1. c.name \in Described(disk.meta)
      BY DEF Begun
    <3>2. disk.meta[c.name].key <= minted /\ disk.meta[c.name].key \in Nat
      BY <1>3, <3>1, KeysPositive DEF Inv, MintInv, Numbered
    <3>3. Leaving' = {disk.meta[c.name].key}
      BY <1>1 DEF Leaving
    <3> QED BY <1>3, <3>2, <3>3
  <2>3. KeptInv'
    BY <1>1, <2>1, <2>2 DEF KeptInv, Distinct
  <2>4. GoneInv'
    <3>1. c.op = "revoke" => Now' = "render"
      BY <1>2, <1>8 DEF Beginning
    <3> QED BY <1>1, <2>1, <3>1 DEF GoneInv
  <2> QED BY <1>2, <1>6, <1>7, <2>3, <2>4 DEF Inv
<1>9. CASE c.op \notin {"revoke", "rotate", "expire"}
  <2>1. Leaving' = {}
    BY <1>1, <1>9 DEF Leaving
  <2>2. KeptInv' /\ GoneInv'
    BY <1>1, <1>9, <2>1 DEF KeptInv, GoneInv, Without
  <2> QED BY <1>2, <1>6, <1>7, <2>2 DEF Inv
<1> QED BY <1>8, <1>9

LEMMA FreshKey ==
  ASSUME Inv
  PROVE  minted \in Nat /\ minted + 1 # 0 /\ minted + 1 \notin retired
  BY DEF Inv, TypeInv, TypeOK, MintInv

LEMMA ServedKeys ==
  ASSUME Inv, NoDrift
  PROVE  /\ Clean(disk.meta, day) /\ Distinct(disk.meta)
         /\ disk.config # None /\ minted # 0
         /\ \A p \in disk.generated.peers : p.key \notin retired
<1>1. Clean(disk.meta, day) /\ Distinct(disk.meta) /\ disk.runtime # None
  BY DriftCleans DEF Inv
<1>2. disk.config # None /\ disk.runtime = disk.generated
  BY DEF NoDrift, Ready
<1> QED BY <1>1, <1>2 DEF Inv, MintInv, BarredInv, Barred

LEMMA MakingKeeps ==
  ASSUME Inv, NEW n \in Names,
         \/ Initialize(n) \/ Migrate(n) \/ Rotate(n)
         \/ \E date \in Dates(n) : Add(n, date)
         \/ \E profile \in {None, disk.config} : Import(n, profile)
  PROVE  Inv'
<1>1. CASE Initialize(n)
  <2>1. PICK c : /\ Begun(c) /\ Start(c) /\ c.op = "initialize" /\ c.text = None
                 /\ Counted /\ minted' = minted + 1 /\ c.record.key = minted + 1
    BY <1>1, InitializeBegins DEF Inv
  <2> QED BY <2>1, FreshKey, BeginKeeps
<1>2. CASE Migrate(n)
  <2>1. PICK c : /\ Begun(c) /\ Start(c) /\ c.op = "migrate" /\ c.text = None
                 /\ Counted /\ minted' = minted /\ c.record.key = 1
    BY <1>2, MigrateBegins DEF Inv
  <2>2. disk.runtime # None /\ 1 \notin retired
    BY <1>2, FirstValues, NoneAssumption DEF Migrate, LiveKeys, Inv, BarredInv, Barred, NoneAssumption
  <2>3. minted # 0 /\ 1 <= minted
    BY <2>2, FreshKey DEF Inv, MintInv
  <2> QED BY <2>1, <2>2, <2>3, BeginKeeps
<1>3. CASE Rotate(n)
  <2>1. PICK c : /\ Begun(c) /\ Start(c) /\ c.op = "rotate" /\ c.text = None
                 /\ Counted /\ minted' = minted + 1 /\ c.record.key = minted + 1
    BY <1>3, RotateBegins DEF Inv
  <2>2. NoDrift
    BY <1>3 DEF Rotate
  <2> QED BY <2>1, <2>2, FreshKey, ServedKeys, BeginKeeps
<1>4. CASE \E date \in Dates(n) : Add(n, date)
  <2>1. PICK c : /\ Begun(c) /\ Start(c) /\ c.op = "add" /\ c.text = None
                 /\ Counted /\ minted' = minted + 1 /\ c.record.key = minted + 1
    BY <1>4, AddBegins DEF Inv
  <2>2. NoDrift
    BY <1>4 DEF Add
  <2> QED BY <2>1, <2>2, FreshKey, ServedKeys, BeginKeeps
<1>5. CASE \E profile \in {None, disk.config} : Import(n, profile)
  <2>1. PICK c : /\ Begun(c) /\ Start(c) /\ c.op = "import" /\ c.text = None
                 /\ Counted /\ minted' = minted /\ c.record.key = disk.meta[n].key
    BY <1>5, ImportBegins DEF Inv
  <2>2. NoDrift /\ n \in Described(disk.meta) /\ Peer(n) \in disk.generated.peers
    BY <1>5 DEF Import
  <2>3. Peer(n).key = disk.meta[n].key
    BY DEF Peer
  <2>4. disk.meta[n].key <= minted /\ disk.meta[n].key \notin retired
    BY <2>2, <2>3, ServedKeys DEF Inv, MintInv, Numbered
  <2> QED BY <2>1, <2>2, <2>4, ServedKeys, BeginKeeps
<1> QED BY <1>1, <1>2, <1>3, <1>4, <1>5

LEMMA OthersKeep ==
  ASSUME Inv,
         \/ \E n \in Names : Revoke(n)
         \/ \E field \in {"endpoint", "port"} : Configure(field)
         \/ Expire \/ Restore
  PROVE  Inv'
<1>1. CASE \E n \in Names : Revoke(n)
  <2>1. PICK c : /\ Begun(c) /\ Start(c) /\ c.op = "revoke" /\ c.text = None
                 /\ Counted /\ minted' = minted
    BY <1>1, RevokeBegins DEF Inv
  <2>2. NoDrift
    BY <1>1 DEF Revoke
  <2> QED BY <2>1, <2>2, ServedKeys, BeginKeeps DEF Making
<1>2. CASE \E field \in {"endpoint", "port"} : Configure(field)
  <2>1. PICK c : /\ Begun(c) /\ Start(c) /\ c.op \in {"endpoint", "port"}
                 /\ \E config \in Configs : c.text = Render(config, disk.meta, day)
                 /\ Counted /\ minted' = minted
    BY <1>2, ConfigureBegins DEF Inv
  <2>2. NoDrift
    BY <1>2 DEF Configure
  <2>3. Clean(disk.meta, day) /\ minted # 0
    BY <2>2, ServedKeys
  <2>4. Barred(c.text)
    BY <2>1, <2>3, RenderBarred
  <2> QED BY <2>1, <2>3, <2>4, BeginKeeps DEF Making
<1>3. CASE Expire
  <2>1. PICK c : /\ Begun(c) /\ Start(c) /\ c.op = "expire" /\ c.text = None
                 /\ Counted /\ minted' = minted
    BY <1>3, ExpireBegins DEF Inv
  <2>2. Clean(disk.meta, day) /\ Distinct(disk.meta)
    BY <1>3, ReconcilableCleans DEF Inv
  <2>3. minted # 0
    BY <1>3 DEF Expire, Ready, Inv, MintInv
  <2> QED BY <2>1, <2>2, <2>3, BeginKeeps DEF Making
<1>4. CASE Restore
  <2>1. PICK c : /\ Begun(c) /\ Start(c) /\ c.op = "restore" /\ c.text = None
                 /\ Counted /\ minted' = minted
    BY <1>4, RestoreBegins DEF Inv
  <2>2. minted # 0
    BY <1>4 DEF Restore, Restorable, Inv, MintInv
  <2> QED BY <2>1, <2>2, BeginKeeps DEF Making
<1> QED BY <1>1, <1>2, <1>3, <1>4

LEMMA InitInv == Init => Inv
<1> SUFFICES ASSUME Init PROVE Inv
  OBVIOUS
<1>1. TypeInv /\ doing = None /\ retired = {} /\ backup = None
  BY InitTyped DEF Init
<1>2. KeptInv /\ GoneInv
  BY <1>1 DEF KeptInv, GoneInv
<1>3. BarredInv
  BY <1>1 DEF BarredInv, Barred
<1>4. MintInv
  <2>1. CASE disk = Nothing /\ minted = 0
    BY <1>1, <2>1 DEF MintInv, Numbered, Described, Nothing
  <2>2. CASE disk = [Nothing EXCEPT !.runtime = LegacyText] /\ minted = 1
    BY <1>1, <2>2 DEF MintInv, Numbered, Described, Nothing
  <2>3. CASE \E n \in Names, managed \in BOOLEAN :
               /\ disk.meta = [m \in Names |-> IF m = n THEN First(managed) ELSE None]
               /\ minted = 1
    BY <1>1, <2>3 DEF MintInv, Numbered, Described, First
  <2>4. \/ disk = Nothing /\ minted = 0
        \/ disk = [Nothing EXCEPT !.runtime = LegacyText] /\ minted = 1
        \/ \E n \in Names, managed \in BOOLEAN :
             /\ disk.meta = [m \in Names |-> IF m = n THEN First(managed) ELSE None]
             /\ minted = 1
    BY DEF Init
  <2> QED BY <2>1, <2>2, <2>3, <2>4
<1> QED BY <1>1, <1>2, <1>3, <1>4 DEF Inv

LEMMA NextInv ==
  ASSUME Inv, [Next]_vars
  PROVE  Inv'
<1>1. CASE Step
  <2>1. CASE Going
    <3>1. TypeInv'
      BY <1>1, StepTyped DEF Inv
    <3> QED BY <2>1, <3>1, GoingMints, GoingBars, GoingKeeps, GoingLeaves DEF Inv
  <2>2. CASE Finish
    BY <2>2, FinishKeeps
  <2> QED BY <1>1, <2>1, <2>2 DEF Step, Going
<1>2. CASE \E n \in Names :
             \/ Initialize(n) \/ Migrate(n) \/ Rotate(n)
             \/ \E date \in Dates(n) : Add(n, date)
             \/ \E profile \in {None, disk.config} : Import(n, profile)
  BY <1>2, MakingKeeps
<1>3. CASE \/ \E n \in Names : Revoke(n)
           \/ \E field \in {"endpoint", "port"} : Configure(field)
           \/ Expire \/ Restore
  BY <1>3, OthersKeep
<1>4. CASE \E n \in Names : \E date \in Dates(n) : Edit(n, date)
  BY <1>4, EditKeeps
<1>5. CASE Crash \/ Reboot \/ ServiceStart \/ ServiceStop \/ Backup
  BY <1>5, OutsideKeeps
<1>6. CASE Midnight
  BY <1>6, MidnightKeeps
<1>7. CASE UNCHANGED vars
  <2>1. /\ UNCHANGED <<disk, link, day, backup, doing, todo, retired, minted>> /\ Now' = Now
    BY <1>7 DEF vars, running, history, budget, Now
  <2>2. MintInv' /\ BarredInv'
    BY <2>1 DEF Inv, MintInv, Numbered, BarredInv, Barred, Clean
  <2>3. Leaving' = Leaving
    BY <2>1 DEF Leaving
  <2>4. KeptInv'
    BY <2>1, <2>3 DEF Inv, KeptInv
  <2>5. GoneInv'
    BY <2>1, <2>3 DEF Inv, GoneInv, Without
  <2> QED BY <1>7, <2>2, <2>4, <2>5, NextTyped DEF Inv
<1> QED BY <1>1, <1>2, <1>3, <1>4, <1>5, <1>6, <1>7 DEF Next

(* The inductive invariant. *)
LEMMA SpecInv == Spec => []Inv
<1>1. Init => Inv
  BY InitInv
<1>2. Inv /\ [Next]_vars => Inv'
  BY NextInv
<1> QED BY <1>1, <1>2, PTL DEF Spec

(* A key reported as revoked, rotated out or expired is never in the running   *)
(* interface again, whichever step of whichever command fails, is killed or is *)
(* taken back, on any number of clients, days and commands, until a restore.   *)
THEOREM RetiredKeysStayOut == Spec => []RetiredStaysOut
<1>1. Inv => RetiredStaysOut
  BY DEF Inv, BarredInv, Barred, RetiredStaysOut, LiveKeys
<1> QED BY <1>1, SpecInv, PTL
=============================================================================
