---------------------------- MODULE ClientRegistry ----------------------------
(***************************************************************************)
(* What the client commands of awgctl promise their operator, detached     *)
(* from how they do it: a registry of clients and settings, and a report.  *)
(* A command that reports success made exactly its own change, one that    *)
(* reports failure made none, whatever failed inside and however it was    *)
(* compensated.  A registry damaged by a crash is Unknown until a restore. *)
(***************************************************************************)
EXTENDS Naturals

CONSTANTS Names, None, Unknown

VARIABLES registry,   \* [config, clients], or Unknown
          report      \* [op, name, ok] of the last command, None while one runs

vars == <<registry, report>>

Clients == registry.clients
Others(n) == {Clients[m] : m \in Names \ {n}} \ {None}
Fresh(key, n)   == \A c \in Others(n) : c.key # key
Sound(r) ==
  \A m, n \in Names : m # n /\ r.clients[m] # None /\ r.clients[n] # None =>
    r.clients[m].key # r.clients[n].key /\ r.clients[m].addr # r.clients[n].addr

Init == report = None /\ registry # Unknown /\ Sound(registry)

Known == registry # Unknown
Said(op, n, ok) == report' = [op |-> op, name |-> n, ok |-> ok]
Becomes(n, client) == registry' = [registry EXCEPT !.clients[n] = client]

Begin == report' = None /\ UNCHANGED registry

First(op, n) ==                  \* initialize, migrate
  /\ Known /\ registry.config = None /\ Said(op, n, TRUE)
  /\ registry'.config # None
  /\ \A m \in Names : registry'.clients[m] # None <=> m = n

Add(n) ==
  /\ Known /\ Clients[n] = None /\ Said("add", n, TRUE)
  /\ registry' # Unknown
  /\ Becomes(n, registry'.clients[n]) /\ Sound(registry')
  /\ registry'.clients[n].state = "active"

Import(n) ==
  /\ Known /\ Clients[n] # None /\ Said("import", n, TRUE)
  /\ Becomes(n, [Clients[n] EXCEPT !.managed = TRUE])

Revoke(n) == Known /\ Said("revoke", n, TRUE) /\ Becomes(n, None)

Rotate(n) ==                     \* a new key, the same client
  /\ Known /\ Clients[n] # None /\ Said("rotate", n, TRUE)
  /\ registry' # Unknown
  /\ LET key == registry'.clients[n].key
     IN  key # Clients[n].key /\ Fresh(key, n)
         /\ Becomes(n, [Clients[n] EXCEPT !.key = key, !.state = "active"])

Edit(n) ==
  /\ Known /\ Clients[n] # None /\ Said("edit", n, TRUE)
  /\ registry' # Unknown
  /\ Becomes(n, [Clients[n] EXCEPT !.expires = registry'.clients[n].expires])

Configure(field) ==
  /\ Known /\ Said(field, None, TRUE)
  /\ registry' = [registry EXCEPT !.config[field] = 1 - @]

(* Clients with a date may be marked, and nothing else changes.              *)
Marks ==
  /\ Known
  /\ \E S \in SUBSET {n \in Names : Clients[n] # None} :
       /\ \A n \in S : Clients[n].expires # None
       /\ registry' = [registry EXCEPT !.clients =
            [n \in Names |-> IF n \in S THEN [Clients[n] EXCEPT !.state = "expired"] ELSE Clients[n]]]

Expire     == Marks /\ \E ok \in BOOLEAN : Said("expire", None, ok)
Interrupted == Marks /\ UNCHANGED report        \* a killed expiry, to be retried

Fail == \E op \in {"initialize", "migrate", "add", "import", "revoke", "rotate",
                   "endpoint", "port", "expire", "restore"}, n \in Names \cup {None} :
          Said(op, n, FALSE) /\ UNCHANGED registry

Lose == registry' = Unknown /\ UNCHANGED report

Blind == ~Known /\ UNCHANGED registry      \* a command on a damaged host

Restore == Said("restore", None, TRUE) /\ registry' # Unknown /\ Sound(registry')

Next ==
  \/ Begin \/ Expire \/ Interrupted \/ Fail \/ Lose \/ Blind \/ Restore
  \/ \E n \in Names :
       \/ First("initialize", n) \/ First("migrate", n)
       \/ Add(n) \/ Import(n) \/ Revoke(n) \/ Rotate(n) \/ Edit(n)
  \/ \E field \in {"endpoint", "port"} : Configure(field)

Spec == Init /\ [][Next]_vars
=============================================================================
