------------------------ MODULE TransitionLifecycle ------------------------
(***************************************************************************)
(* What the cutover promises, without files, timers, journals or crashes:  *)
(* one transaction at a time goes from prepared to active and ends exactly *)
(* once; a rolled back transaction leaves the interface on classic or      *)
(* stopped, a confirmed one leaves it on AWG 3.1 or stopped for good.      *)
(* Transition implements this module (Lifecycle!Spec).                     *)
(***************************************************************************)
CONSTANTS Tx, None

VARIABLES current,   \* the open transaction and its state
          last,      \* the transaction that ended last and why
          mode       \* what the interface serves

vars == <<current, last, mode>>

Nobody  == [id |-> None, state |-> "none"]
Nothing == [id |-> None, reason |-> "none"]
RolledBack == {"operator", "timeout", "activation-failed", "expiry"}

Init == current = Nobody /\ last = Nothing /\ mode = "classic"

Prepare(t) ==
  /\ current = Nobody /\ t # last.id /\ last.reason # "confirmed"
  /\ current' = [id |-> t, state |-> "prepared"]
  /\ UNCHANGED <<last, mode>>

Activate ==
  /\ current.state = "prepared" /\ mode = "awg31"
  /\ current' = [current EXCEPT !.state = "active"]
  /\ UNCHANGED <<last, mode>>

Confirm ==
  /\ current.state = "active" /\ mode = "awg31"
  /\ last' = [id |-> current.id, reason |-> "confirmed"]
  /\ current' = Nobody /\ UNCHANGED mode

RollBack(reason) ==
  /\ current # Nobody /\ mode # "awg31"
  /\ reason = "expiry" => current.state = "prepared"
  /\ last' = [id |-> current.id, reason |-> reason]
  /\ current' = Nobody /\ UNCHANGED mode

Switch ==            \* both images may serve only while a transaction is open
  /\ current # Nobody
  /\ mode' \in {"classic", "awg31", "down"}
  /\ UNCHANGED <<current, last>>

Serve ==             \* start, stop and reboot between transactions
  /\ current = Nobody
  /\ mode' \in {"down", IF last.reason = "confirmed" THEN "awg31" ELSE "classic"}
  /\ UNCHANGED <<current, last>>

Next ==
  \/ \E t \in Tx : Prepare(t)
  \/ Activate \/ Confirm \/ Switch \/ Serve
  \/ \E reason \in RolledBack : RollBack(reason)

Spec == Init /\ [][Next]_vars
=============================================================================
