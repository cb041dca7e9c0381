----------------------------- MODULE MCMetrics -----------------------------
(***************************************************************************)
(* Metrics on small instances: a counter and a gauge of the system, the    *)
(* uptime and one stream of an application.                                *)
(***************************************************************************)
EXTENDS Metrics
=============================================================================
