---------------------------- MODULE MCInstaller ----------------------------
(* Installer on a small instance: the cfg file bounds commands and troubles.  *)
EXTENDS Installer
=============================================================================
