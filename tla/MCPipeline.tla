----------------------------- MODULE MCPipeline -----------------------------
(***************************************************************************)
(* LogPipeline on small instances: the configurations bound the entries,   *)
(* the capacities, the crashes, the shutdown signals and the failing       *)
(* file-system calls.                                                      *)
(***************************************************************************)
EXTENDS LogPipeline
=============================================================================
