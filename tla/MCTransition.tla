---------------------------- MODULE MCTransition ----------------------------
(* Transition on small instances: the cfg files choose how many transactions, *)
(* crashes, reboots and failing operations a behaviour may have.               *)
EXTENDS Transition, TLC

Symmetric == Permutations(Tx) \cup Permutations(Profiles)
=============================================================================
