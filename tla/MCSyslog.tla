------------------------------ MODULE MCSyslog ------------------------------
(***************************************************************************)
(* SyslogTail on small instances: a few lines over three files.            *)
(***************************************************************************)
EXTENDS SyslogTail
=============================================================================
