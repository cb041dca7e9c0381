------------------------------- MODULE Daemon -------------------------------
(***************************************************************************)
(* The life of the process: the configuration is loaded and validated      *)
(* (src/src/config.rs), main (src/src/main.rs) starts the client and the   *)
(* signal handler, run (src/src/orchestrator.rs) starts the sources, the   *)
(* metrics, the crash dumps and the ingestion, and a signal ends them all. *)
(* Sources are threads that tokio cannot interrupt: the process is gone    *)
(* only when they have returned.  What a component does meanwhile is the   *)
(* subject of the other modules; here it starts, blocks, fails and ends.   *)
(*                                                                         *)
(* A configuration file is a set of switches that are on, of settings that *)
(* have a value the program cannot work with (0, empty, an unknown word),  *)
(* and of sections left out, which get their defaults.                     *)
(***************************************************************************)
EXTENDS Integers, FiniteSets

CONSTANTS
    Journald,  (* built with the feature journald                          *)
    Cap,       (* capacity of the channel of log entries                   *)
    MaxBad,    (* bound: unusable settings of a file                       *)
    MaxLives   (* bound: processes                                         *)

ASSUME DaemonAssumption ==
    Journald \in BOOLEAN /\ {Cap, MaxLives} \subseteq Nat \ {0} /\ MaxBad \in Nat

DeviceSettings  == {"id", "ingest_key"}
LogsSettings    == {"memory_max_entries", "disk_chunk_max_entries", "disk_max_size_mb"}
MetricsSettings == {"collection_interval_secs", "aggregation_interval"}
DumpSettings    == {"paths", "kinds", "poll_interval_secs", "max_bytes", "chunk_bytes"}
LogsSwitches    == {"journald", "syslog"}
MetricsSwitches == {"metrics", "custom"}
DumpSwitches    == {"crashdump"}

Settings == DeviceSettings \cup LogsSettings \cup MetricsSettings \cup DumpSettings
Switches == LogsSwitches \cup MetricsSwitches \cup DumpSwitches
Sources  == LogsSwitches

NoFile == [readable |-> FALSE, on |-> {}, omitted |-> {}, bad |-> {}]

ConfigFiles == [readable : {TRUE}, on : SUBSET Switches, omitted : SUBSET {"logs", "metrics", "crashdump"},
                bad : {b \in SUBSET Settings : Cardinality(b) <= MaxBad}]
               \cup {NoFile}

VARIABLES
    phase,      (* of main: down, load, start, wire, run, flush, drop,     *)
                (* wait                                                   *)
    file,       (* the configuration file until it is loaded               *)
    on,         (* switches that are on, as loaded                         *)
    bad,        (* unusable settings of the loaded configuration           *)
    handler,    (* the signal handler: off, spawned, waiting, done         *)
    told,       (* the shutdown channel holds true                         *)
    flag,       (* shutdown_threads                                        *)
    thread,     (* source -> off, open, check, read, send, sleep, ended    *)
    chan,       (* entries in the channel                                  *)
    rxOpen,     (* the ingestion task has the receiver                     *)
    memory,     (* the buffer holds entries                                *)
    metrics,    (* the metrics task: off, spawned, running, ended, failed  *)
    socket,     (* its socket task: off, spawned, cleared, bound, running, *)
                (* ended, failed                                           *)
    dumps,      (* the crash dump task: off, running, ended                *)
    socketFile, (* on disk: none, bound by this process, stale             *)
    denied,     (* history: the system refused a call of the socket task   *)
    panicked,   (* some task panicked or refused its configuration         *)
    lives

taskVars == <<thread, chan, rxOpen, memory, metrics, socket, dumps>>
socketVars == <<socketFile, denied>>
vars     == <<phase, file, on, bad, handler, told, flag, taskVars, socketVars, panicked, lives>>

-----------------------------------------------------------------------------
(* Config::load.                                                           *)

(* default_true, default_syslog; every other switch is off by default.     *)
DefaultOn == IF Journald THEN {"journald"} ELSE {"journald", "syslog"}

(* The switches of a section left out, and of one that is given.           *)
EnabledOf(f, section, switches) ==
    IF section \in f.omitted THEN switches \cap DefaultOn ELSE switches \cap f.on

Enabled(f) == EnabledOf(f, "logs", LogsSwitches) \cup EnabledOf(f, "metrics", MetricsSwitches)
              \cup EnabledOf(f, "crashdump", DumpSwitches)

(* Settings of a section left out have defaults, which are usable.         *)
BadOf(f, section, settings) == IF section \in f.omitted THEN {} ELSE settings \cap f.bad

Unusable(f) == (DeviceSettings \cap f.bad) \cup BadOf(f, "logs", LogsSettings)
               \cup BadOf(f, "metrics", MetricsSettings) \cup BadOf(f, "crashdump", DumpSettings)

(* A fault: the metrics settings are looked at for OS metrics only.        *)
InvalidOsOnly(s, b) ==
    \/ b \cap (DeviceSettings \cup LogsSettings) # {}
    \/ "metrics" \in s /\ b \cap MetricsSettings # {}
    \/ "crashdump" \in s /\ b \cap DumpSettings # {}

(* validate: a component that is off may have any settings.                *)
Invalid(s, b) ==
    \/ b \cap (DeviceSettings \cup LogsSettings) # {}
    \/ s \cap MetricsSwitches # {} /\ b \cap MetricsSettings # {}
    \/ "crashdump" \in s /\ b \cap DumpSettings # {}

-----------------------------------------------------------------------------
Idle == [s \in Sources |-> "off"]

Init ==
    /\ phase = "down" /\ file = NoFile
    /\ on = {} /\ bad = {} /\ handler = "off" /\ told = FALSE /\ flag = FALSE
    /\ thread = Idle /\ chan = 0 /\ rxOpen = FALSE /\ memory = FALSE
    /\ metrics = "off" /\ socket = "off" /\ dumps = "off"
    /\ socketFile \in {"none", "stale"} /\ denied = FALSE
    /\ panicked = FALSE /\ lives = 0

(* The process is gone, with everything but the file of its socket.        *)
Gone ==
    /\ phase' = "down"
    /\ on' = {} /\ bad' = {} /\ handler' = "off" /\ told' = FALSE /\ flag' = FALSE
    /\ thread' = Idle /\ chan' = 0 /\ rxOpen' = FALSE /\ memory' = FALSE
    /\ metrics' = "off" /\ socket' = "off" /\ dumps' = "off"
    /\ socketFile' = IF socketFile = "bound" THEN "stale" ELSE socketFile
    /\ denied' = FALSE
    /\ file' = NoFile
    /\ UNCHANGED <<panicked, lives>>

(* The service manager starts the program, with a file edited meanwhile.   *)
Boot ==
    /\ phase = "down" /\ lives < MaxLives
    /\ lives' = lives + 1
    /\ file' \in ConfigFiles
    /\ phase' = "load"
    /\ UNCHANGED <<on, bad, handler, told, flag, taskVars, socketVars, panicked>>

Refuse ==
    /\ phase = "load"
    /\ ~file.readable \/ Invalid(Enabled(file), Unusable(file))
    /\ Gone

Load ==
    /\ phase = "load" /\ file.readable
    /\ ~Invalid(Enabled(file), Unusable(file))
    /\ on' = Enabled(file) /\ bad' = Unusable(file)
    /\ file' = NoFile
    /\ phase' = "start"
    /\ UNCHANGED <<handler, told, flag, taskVars, socketVars, panicked, lives>>

(* mqtt::start, and the signal handler is spawned.                         *)
StartClient ==
    /\ phase = "start"
    /\ phase' = "wire" /\ handler' = "spawned"
    /\ UNCHANGED <<file, on, bad, told, flag, taskVars, socketVars, panicked, lives>>

(* The handlers are registered when the task is first polled.              *)
Register ==
    /\ handler = "spawned" /\ handler' = "waiting"
    /\ UNCHANGED <<phase, file, on, bad, told, flag, taskVars, socketVars, panicked, lives>>

(* The first part of run: everything that is enabled is spawned.           *)
SpawnTasks ==
    /\ phase = "wire"
    /\ phase' = "run"
    /\ thread' = [s \in Sources |->
                    IF s \in on /\ (s = "journald" => Journald) THEN "open" ELSE "off"]
    /\ metrics' = IF on \cap MetricsSwitches # {} THEN "spawned" ELSE "off"
    /\ dumps' = IF "crashdump" \in on THEN "running" ELSE "off"
    /\ rxOpen' = TRUE
    /\ UNCHANGED <<file, on, bad, handler, told, flag, chan, memory, socket, socketVars, panicked, lives>>

(* SIGTERM or SIGINT: the default action ends a process that has not       *)
(* registered its handlers; later it wakes the handler task.               *)
SignalKills ==
    /\ phase # "down" /\ handler \in {"off", "spawned"}
    /\ Gone

SignalHandled ==
    /\ handler = "waiting"
    /\ handler' = "done" /\ told' = TRUE
    /\ UNCHANGED <<phase, file, on, bad, flag, taskVars, socketVars, panicked, lives>>

(* kill -9 or a loss of power.                                             *)
Crash == phase # "down" /\ Gone

-----------------------------------------------------------------------------
(* A source thread (run_blocking of journald.rs and syslog.rs).            *)

Goes(s, to) == thread' = [thread EXCEPT ![s] = to]

OtherThanThreads ==
    UNCHANGED <<phase, file, on, bad, handler, told, flag, rxOpen, memory, metrics, socket, dumps,
                socketVars, panicked, lives>>

(* When opening fails the source is off until the next start.              *)
OpenSource(s) ==
    /\ thread[s] = "open"
    /\ Goes(s, "check") \/ Goes(s, "ended")
    /\ UNCHANGED chan /\ OtherThanThreads

CheckFlag(s) ==
    /\ thread[s] = "check"
    /\ Goes(s, IF flag THEN "ended" ELSE "read")
    /\ UNCHANGED chan /\ OtherThanThreads

(* An entry, an entry without a body, nothing, or an error.                *)
ReadEntry(s) ==
    /\ thread[s] = "read"
    /\ \E to \in {"send", "check", "sleep"} : Goes(s, to)
    /\ UNCHANGED chan /\ OtherThanThreads

(* blocking_send waits for room, and fails once the receiver is gone.      *)
SendEntry(s) ==
    /\ thread[s] = "send" /\ rxOpen /\ chan < Cap
    /\ Goes(s, "check") /\ chan' = chan + 1
    /\ OtherThanThreads

SendFails(s) ==
    /\ thread[s] = "send" /\ ~rxOpen
    /\ Goes(s, "ended") /\ UNCHANGED chan
    /\ OtherThanThreads

Wake(s) ==
    /\ thread[s] = "sleep" /\ Goes(s, "check")
    /\ UNCHANGED chan /\ OtherThanThreads

ThreadStep(s) ==
    \/ OpenSource(s) \/ CheckFlag(s) \/ ReadEntry(s)
    \/ SendEntry(s) \/ SendFails(s) \/ Wake(s)

Returned(s) == thread[s] \in {"off", "ended"}

-----------------------------------------------------------------------------
(* The tasks.                                                              *)

Live == phase \in {"run", "flush"}

Ingest ==
    /\ Live /\ rxOpen /\ chan > 0
    /\ chan' = chan - 1 /\ memory' = TRUE
    /\ UNCHANGED <<phase, file, on, bad, handler, told, flag, thread, rxOpen, metrics, socket, dumps,
                   socketVars, panicked, lives>>

(* All senders are gone, or the shutdown.                                  *)
IngestEnds ==
    /\ Live /\ rxOpen
    /\ told \/ (chan = 0 /\ \A s \in Sources : Returned(s))
    /\ rxOpen' = FALSE /\ chan' = 0
    /\ UNCHANGED <<phase, file, on, bad, handler, told, flag, thread, memory, metrics, socket, dumps,
                   socketVars, panicked, lives>>

(* metrics::run up to its loop: an unknown aggregation is an error, an     *)
(* interval of 0 panics.                                                   *)
StartMetrics ==
    /\ Live /\ metrics = "spawned"
    /\ metrics' = IF bad \cap MetricsSettings # {} THEN "failed" ELSE "running"
    /\ panicked' = (panicked \/ metrics' = "failed")
    /\ socket' = IF metrics' = "running" /\ "custom" \in on THEN "spawned" ELSE socket
    /\ UNCHANGED <<phase, file, on, bad, handler, told, flag, thread, chan, rxOpen, memory, dumps,
                   socketVars, lives>>

OtherThanSocket ==
    UNCHANGED <<phase, file, on, bad, handler, told, flag, thread, chan, rxOpen, memory, metrics,
                dumps, panicked, lives>>

(* The system refuses a call of the socket task, which ends with an error. *)
SocketDenied ==
    /\ socket' = "failed" /\ denied' = TRUE
    /\ UNCHANGED socketFile

(* A fault: a file left behind is not removed.                             *)
PrepareDirectory ==
    /\ Live /\ socket = "spawned"
    /\ \/ SocketDenied
       \/ socket' = "cleared" /\ UNCHANGED socketVars
    /\ OtherThanSocket

(* socket::run makes the directory and removes the file that an earlier    *)
(* process left; that the removal failed is ignored.                       *)
PreparePath ==
    /\ Live /\ socket = "spawned"
    /\ \/ SocketDenied
       \/ socket' = "cleared" /\ socketFile' = "none" /\ UNCHANGED denied
       \/ /\ socketFile # "none"
          /\ socket' = "cleared" /\ denied' = TRUE /\ UNCHANGED socketFile
    /\ OtherThanSocket

(* bind makes the file, and fails when there is one.                       *)
BindSocket ==
    /\ Live /\ socket = "cleared"
    /\ \/ SocketDenied
       \/ socketFile # "none" /\ socket' = "failed" /\ UNCHANGED socketVars
       \/ socketFile = "none" /\ socket' = "bound" /\ socketFile' = "bound" /\ UNCHANGED denied
    /\ OtherThanSocket

(* The file is opened to all users; an error here leaves it behind.        *)
AllowAll ==
    /\ Live /\ socket = "bound"
    /\ \/ socket' = "running" /\ UNCHANGED socketVars
       \/ socket' = "failed" /\ socketFile' = "stale" /\ denied' = TRUE
    /\ OtherThanSocket

MetricsEnds ==
    /\ Live /\ told /\ metrics = "running" /\ metrics' = "ended"
    /\ UNCHANGED <<phase, file, on, bad, handler, told, flag, thread, chan, rxOpen, memory, socket,
                   dumps, socketVars, panicked, lives>>

(* The file is removed; an error is ignored.                               *)
SocketEnds ==
    /\ Live /\ told /\ socket = "running"
    /\ socket' = "ended"
    /\ socketFile' \in {"none", "stale"} /\ UNCHANGED denied
    /\ OtherThanSocket

DumpsEnd ==
    /\ Live /\ told /\ dumps = "running" /\ dumps' = "ended"
    /\ UNCHANGED <<phase, file, on, bad, handler, told, flag, thread, chan, rxOpen, memory, metrics,
                   socket, socketVars, panicked, lives>>

-----------------------------------------------------------------------------
(* The end of run and of main.                                             *)

(* A fault: the threads are not told.                                      *)
SeeShutdownSilently ==
    /\ phase = "run" /\ told
    /\ phase' = "flush"
    /\ UNCHANGED <<file, on, bad, handler, told, flag, taskVars, socketVars, panicked, lives>>

(* The publish loop sees the shutdown and tells the threads.               *)
SeeShutdown ==
    /\ phase = "run" /\ told
    /\ phase' = "flush" /\ flag' = TRUE
    /\ UNCHANGED <<file, on, bad, handler, told, taskVars, socketVars, panicked, lives>>

(* The buffer is written in chunks, whose size must not be 0; run returns. *)
Flush ==
    /\ phase = "flush"
    /\ panicked' = (panicked \/ (memory /\ "disk_chunk_max_entries" \in bad))
    /\ memory' = FALSE /\ phase' = "drop"
    /\ UNCHANGED <<file, on, bad, handler, told, flag, thread, chan, rxOpen, metrics, socket, dumps,
                   socketVars, lives>>

(* The runtime is dropped: tasks end where they are, and the receiver with *)
(* them; a source that was not polled yet never gets its thread.           *)
DropTasks ==
    /\ phase = "drop" /\ phase' = "wait"
    /\ rxOpen' = FALSE /\ chan' = 0
    /\ \E unpolled \in SUBSET {s \in Sources : thread[s] = "open"} :
         thread' = [s \in Sources |-> IF s \in unpolled THEN "ended" ELSE thread[s]]
    /\ UNCHANGED <<file, on, bad, handler, told, flag, memory, metrics, socket, dumps,
                   socketVars, panicked, lives>>

(* The drop of the runtime waits for the threads.                          *)
Exit ==
    /\ phase = "wait"
    /\ \A s \in Sources : Returned(s)
    /\ Gone

MainStep == Refuse \/ Load \/ StartClient \/ SpawnTasks \/ SeeShutdown \/ Flush \/ DropTasks \/ Exit
SocketStep == PreparePath \/ BindSocket \/ AllowAll \/ SocketEnds
TaskStep == Ingest \/ IngestEnds \/ StartMetrics \/ SocketStep \/ MetricsEnds \/ DumpsEnd
Outside  == Boot \/ SignalKills \/ SignalHandled \/ Crash

Next == MainStep \/ Register \/ TaskStep \/ Outside \/ \E s \in Sources : ThreadStep(s)

Spec == Init /\ [][Next]_vars

(* The executor polls what is ready, and the kernel runs every thread.     *)
FairSpec == Spec /\ WF_vars(MainStep) /\ WF_vars(IngestEnds)
                 /\ \A s \in Sources : WF_vars(ThreadStep(s))

-----------------------------------------------------------------------------
(* A configuration that was accepted never makes a component refuse it or  *)
(* panic: validate and the components agree on what must be checked, also  *)
(* when only one of two switches is on or a section is left out.           *)
StartedSoundly == ~panicked

(* The socket listens again after a crash, a shutdown that did not wait    *)
(* for its task, or a removal that failed, each of which leaves its file   *)
(* behind: the task of a later process ends without a socket only when the *)
(* system refuses a call of that very process.                             *)
SocketComesBack == socket = "failed" => denied

(* A signal that was handled ends the process, though threads may be in    *)
(* the middle of a read, asleep, or waiting for room in a full channel     *)
(* whose receiver ends before them.                                        *)
ShutdownExits == told ~> (phase = "down")
=============================================================================
