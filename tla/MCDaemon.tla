------------------------------ MODULE MCDaemon ------------------------------
(* Instances of the daemon for TLC: two seats, so that the bot's seat can   *)
(* be taken by somebody else after it lost it.                              *)
EXTENDS Daemon
=============================================================================
