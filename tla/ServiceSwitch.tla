--------------------------- MODULE ServiceSwitch ---------------------------
(***************************************************************************)
(* What service operations promise, without locks, intents or hooks: one   *)
(* operation is in force at a time; when it ends, the interface is in the  *)
(* state requested, or out of service if the operation was abandoned, or   *)
(* was never touched; the interface enters service only behind the         *)
(* firewall, which stays as it is until the interface has left service.    *)
(* ServiceOp implements this module (Switch!Spec).                         *)
(***************************************************************************)
VARIABLES operation,   \* the operation in force, or "none"
          progress,    \* how far it is
          serving,     \* the unit is active
          filtered     \* the manager's tables are loaded

vars == <<operation, progress, serving, filtered>>

Actions == {"start", "stop", "restart"}
Stages  == {"untouched", "acting", "abandoned"}

Init ==
  /\ operation = "none" /\ progress = "none"
  /\ serving \in BOOLEAN /\ filtered = serving

Begin ==
  /\ operation = "none"
  /\ operation' \in Actions /\ progress' = "untouched"
  /\ UNCHANGED <<serving, filtered>>

Proceed ==
  /\ operation # "none" /\ progress' \in Stages
  /\ UNCHANGED <<operation, serving, filtered>>

End ==
  /\ operation # "none"
  /\ \/ progress = "untouched"
     \/ progress = "acting" /\ (serving <=> operation # "stop")
     \/ progress = "abandoned" /\ ~serving
  /\ operation' = "none" /\ progress' = "none"
  /\ UNCHANGED <<serving, filtered>>

(* The service changes under an operation, or from outside without one. *)
Observed == IF operation = "none" THEN progress' = "none" ELSE progress' \in Stages

EnterService ==
  /\ ~serving /\ filtered
  /\ serving' = TRUE /\ Observed
  /\ UNCHANGED <<operation, filtered>>

LeaveService ==
  /\ serving
  /\ serving' = FALSE /\ Observed
  /\ UNCHANGED <<operation, filtered>>

Filter ==
  /\ ~serving
  /\ filtered' = ~filtered
  /\ UNCHANGED <<operation, progress, serving>>

Next == Begin \/ Proceed \/ End \/ EnterService \/ LeaveService \/ Filter

Spec == Init /\ [][Next]_vars
=============================================================================
