---------------------------- MODULE MCServiceOp ----------------------------
(* ServiceOp on small instances: the cfg files bound deaths, timeouts and    *)
(* calls from outside, and say whether Docker may start.                      *)
EXTENDS ServiceOp, TLC

Symmetric == Permutations(Commands)
=============================================================================
