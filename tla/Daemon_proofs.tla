---------------------------- MODULE Daemon_proofs ----------------------------
(***************************************************************************)
(* Safety of the life of the process, for every channel capacity, number   *)
(* of unusable settings and number of processes, with and without          *)
(* journald.                                                               *)
(***************************************************************************)
EXTENDS Daemon, TLAPS

Loaded == phase \notin {"down", "load"}

(* Nothing runs that validate has not passed; the metrics task exists only *)
(* when a switch asks for it; a socket task that is about to bind has a    *)
(* free path, unless the system did not let it remove a file.              *)
SoundInv ==
    /\ ~panicked
    /\ Loaded => ~Invalid(on, bad)
    /\ metrics # "off" => Loaded /\ on \cap MetricsSwitches # {}
    /\ socket = "cleared" => socketFile = "none" \/ denied
    /\ socket = "failed" => denied

(* The process that is gone has nothing that could be unsound.             *)
LEMMA GoneSound ==
    ASSUME SoundInv, Gone
    PROVE  SoundInv'
BY DEF SoundInv, Gone, Loaded

(* Every step keeps SoundInv.                                              *)
LEMMA SoundStep ==
    ASSUME SoundInv, [Next]_vars
    PROVE  SoundInv'
<1> USE DEF SoundInv, Loaded
<1>1. CASE Refuse \/ Exit \/ SignalKills \/ Crash
  BY <1>1, GoneSound DEF Refuse, Exit, SignalKills, Crash
<1>2. CASE Load
  BY <1>2 DEF Load, taskVars, socketVars
<1>3. CASE StartClient \/ SeeShutdown \/ Boot \/ SignalHandled \/ Register
  BY <1>3 DEF StartClient, SeeShutdown, Boot, SignalHandled, Register, taskVars, socketVars
<1>4. CASE SpawnTasks
  BY <1>4 DEF SpawnTasks, socketVars
<1>5. CASE Flush
  <2>1. "disk_chunk_max_entries" \notin bad
    BY <1>5 DEF Flush, Invalid, LogsSettings
  <2> QED
    BY <1>5, <2>1 DEF Flush, socketVars
<1>6. CASE DropTasks
  BY <1>6 DEF DropTasks, socketVars
<1>7. CASE Ingest \/ IngestEnds \/ MetricsEnds \/ DumpsEnd
  BY <1>7 DEF Ingest, IngestEnds, MetricsEnds, DumpsEnd, socketVars
<1>8. CASE StartMetrics
  <2>1. bad \cap MetricsSettings = {}
    BY <1>8 DEF StartMetrics, Invalid
  <2> QED
    BY <1>8, <2>1 DEF StartMetrics, socketVars
<1>9. CASE PreparePath
  BY <1>9 DEF PreparePath, SocketDenied, OtherThanSocket, socketVars
<1>10. CASE BindSocket \/ AllowAll \/ SocketEnds
  BY <1>10 DEF BindSocket, AllowAll, SocketEnds, SocketDenied, OtherThanSocket, socketVars
<1>11. CASE \E s \in Sources : ThreadStep(s)
  <2> PICK s \in Sources : ThreadStep(s)
    BY <1>11
  <2>1. OtherThanThreads
    BY DEF ThreadStep, OpenSource, CheckFlag, ReadEntry, SendEntry, SendFails, Wake
  <2> QED
    BY <2>1 DEF OtherThanThreads, socketVars
<1>12. CASE UNCHANGED vars
  BY <1>12 DEF vars, taskVars, socketVars
<1> QED
  BY <1>1, <1>2, <1>3, <1>4, <1>5, <1>6, <1>7, <1>8, <1>9, <1>10, <1>11, <1>12
  DEF Next, MainStep, TaskStep, SocketStep, Outside

(* The invariant from which the two theorems follow.                       *)
THEOREM Soundness == Spec => []SoundInv
<1>1. Init => SoundInv
  BY DEF Init, SoundInv, Loaded
<1>2. SoundInv /\ [Next]_vars => SoundInv'
  BY SoundStep
<1> QED
  BY <1>1, <1>2, PTL DEF Spec

(* What validate (config.rs) accepts, no component refuses: orchestrator   *)
(* and metrics start whatever is enabled without an error or a panic.      *)
THEOREM AcceptedMeansUsable == Spec => []StartedSoundly
<1>1. SoundInv => StartedSoundly
  BY DEF SoundInv, StartedSoundly
<1> QED
  BY <1>1, Soundness, PTL

(* socket.rs 40-67: a file left by an earlier process never keeps the      *)
(* metrics socket from its path; only a call that the system refuses does. *)
THEOREM SocketComesBackTheorem == Spec => []SocketComesBack
<1>1. SoundInv => SocketComesBack
  BY DEF SoundInv, SocketComesBack
<1> QED
  BY <1>1, Soundness, PTL
=============================================================================
