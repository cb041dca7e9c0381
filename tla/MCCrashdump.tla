---------------------------- MODULE MCCrashdump ----------------------------
(***************************************************************************)
(* Crashdump on small instances: two slots of pstore, few dumps of at most *)
(* two chunks, at most one step of retention.                              *)
(***************************************************************************)
EXTENDS Crashdump
=============================================================================
