------------------------------- MODULE MCDaemon -------------------------------
(* Instances of Daemon for TLC. *)
EXTENDS Daemon

CONSTANTS p1, p2, t1, t2

===============================================================================
