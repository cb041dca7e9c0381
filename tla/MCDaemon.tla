------------------------------ MODULE MCDaemon ------------------------------
(* Daemon with two processes in a row.                                     *)
EXTENDS Daemon
=============================================================================
