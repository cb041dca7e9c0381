---------------------------- MODULE LogPipeline ----------------------------
(***************************************************************************)
(* The log pipeline of spotflowd: sources -> channel -> ingestion task ->  *)
(* LogBuffer -> publish loop -> request queue of the MQTT client.          *)
(* It models orchestrator::run and publish_tick (src/src/orchestrator.rs), *)
(* the publisher handle and its event-loop task (src/src/mqtt.rs) and the  *)
(* life cycle of the process (src/src/main.rs).                            *)
(*                                                                         *)
(* Three tasks run concurrently and share the buffer: the ingestion task   *)
(* (ipc), the publish loop (tpc) and the MQTT event loop.  A step ends     *)
(* where a task awaits, takes or releases the lock, or makes a file-system *)
(* call that the other task or a crash can see.  The loop of the publisher *)
(* is a select! between one publish_tick and the shutdown signal: when the *)
(* signal wins, the tick is dropped wherever it is waiting.                *)
(***************************************************************************)
EXTENDS LogBuffer

CONSTANTS
    MaxEntries,  (* bound: log entries the sources produce                 *)
    ChanCap,     (* capacity of the mpsc channel, 4096 in the code         *)
    QueueCap,    (* capacity of the MQTT client's request channel, 64      *)
    PubBatch,    (* PUBLISH_BATCH_SIZE, 200                                *)
    MaxCrashes,  (* bound: abrupt ends of the process                      *)
    MaxSignals   (* bound: SIGTERM or SIGINT received                      *)

ASSUME PipelineAssumption ==
    /\ MaxEntries \in Nat
    /\ ChanCap \in Nat \ {0}
    /\ QueueCap \in Nat \ {0}
    /\ PubBatch \in Nat \ {0}
    /\ MaxCrashes \in Nat
    /\ MaxSignals \in Nat

Entries == 1 .. MaxEntries

VARIABLES
    produced,   (* entries the sources have produced                       *)
    chan,       (* the mpsc channel                                        *)
    hand,       (* the entry the ingestion task has received, or 0         *)
    ipc,        (* the ingestion task                                      *)
    tpc,        (* the publish loop                                        *)
    batch,      (* entries the current tick publishes                      *)
    pos,        (* how many of them the MQTT client has accepted           *)
    path,       (* number of the chunk file the tick works on, or 0        *)
    connected,  (* MqttPublisher::connected                                *)
    loopAlive,  (* the event-loop task has not been shut down              *)
    queued,     (* requests waiting in the MQTT client's channel           *)
    phase,      (* of the process: running, signalled, down                *)
    crashes,    (* how often it ended abruptly                             *)
    signals,    (* how often it was asked to stop                          *)
    handed      (* history: how often the client has accepted each entry   *)

ingestVars == <<hand, ipc>>
tickVars   == <<tpc, batch, pos, path>>
mqttVars   == <<connected, loopAlive, queued>>
procVars   == <<phase, crashes, signals>>
vars == <<bufVars, produced, chan, ingestVars, tickVars, mqttVars, procVars, handed>>

Up == phase # "down"

-----------------------------------------------------------------------------
(* Sources and ingestion task.                                             *)

Produce ==
    /\ Up
    /\ produced < MaxEntries
    /\ Len(chan) < ChanCap
    /\ ipc # "done"
    /\ produced' = produced + 1
    /\ chan' = Append(chan, produced + 1)
    /\ UNCHANGED <<bufVars, ingestVars, tickVars, mqttVars, procVars, handed>>

IngestRecv ==
    /\ Up
    /\ ipc = "recv"
    /\ chan # <<>>
    /\ hand' = Head(chan)
    /\ chan' = Tail(chan)
    /\ ipc' = "lock"
    /\ UNCHANGED <<bufVars, produced, tickVars, mqttVars, procVars, handed>>

IngestLock ==
    /\ ipc = "lock"
    /\ lock = "free"
    /\ lock' = "ingest"
    /\ todo' = <<hand>>
    /\ hand' = 0
    /\ ipc' = "push"
    /\ UNCHANGED <<memory, mayHaveChunks, diskVars, writeVars, faults, evicted, dropped,
                   produced, chan, tickVars, mqttVars, procVars, handed>>

IngestPush ==
    /\ PushToMemory("ingest") \/ FlushForPush("ingest")
    /\ UNCHANGED <<produced, chan, ingestVars, tickVars, mqttVars, procVars, handed>>

(* The guard is dropped at the end of the handler; an error of push has    *)
(* been logged.                                                            *)
IngestRelease ==
    /\ ipc = "push"
    /\ stage = "none"
    /\ todo = <<>>
    /\ lock' = "free"
    /\ ipc' = "recv"
    /\ UNCHANGED <<memory, mayHaveChunks, diskVars, todo, writeVars, faults, evicted,
                   dropped, produced, chan, hand, tickVars, mqttVars, procVars, handed>>

(* shutdown.changed() wins the select!: the receiver is dropped with what  *)
(* is still in the channel.                                                *)
IngestStop ==
    /\ phase = "signalled"
    /\ ipc = "recv"
    /\ ipc' = "done"
    /\ chan' = <<>>
    /\ UNCHANGED <<bufVars, produced, hand, tickVars, mqttVars, procVars, handed>>

(* The file-system steps of a flush, by whichever task holds the lock.     *)
Write ==
    /\ FlushStep \/ WriteFault
    /\ UNCHANGED <<produced, chan, ingestVars, tickVars, mqttVars, procVars, handed>>

-----------------------------------------------------------------------------
(* publish_tick.                                                           *)

(* A fault: the position in the batch survives the tick.                   *)
EndTickKeepingPos == tpc' = "idle" /\ batch' = <<>> /\ path' = 0 /\ UNCHANGED pos

EndTick == tpc' = "idle" /\ batch' = <<>> /\ pos' = 0 /\ path' = 0

TickStart ==
    /\ Up
    /\ tpc = "idle"
    /\ connected
    /\ tpc' = "memory"
    /\ UNCHANGED <<bufVars, produced, chan, ingestVars, batch, pos, path, mqttVars,
                   procVars, handed>>

DrainMemory ==
    /\ tpc = "memory"
    /\ lock = "free"
    /\ IF memory # <<>> THEN tpc' = "pubMem" ELSE tpc' = "disk"
    /\ batch' = memory
    /\ memory' = <<>>
    /\ UNCHANGED <<mayHaveChunks, diskVars, lock, todo, writeVars, faults, evicted, dropped,
                   produced, chan, ingestVars, pos, path, mqttVars, procVars, handed>>

NextDiskChunk ==
    /\ tpc = "disk"
    /\ lock = "free"
    /\ IF mayHaveChunks /\ DOMAIN spool # {}
       THEN path' = NewestChunk(spool) /\ tpc' = "read"
       ELSE path' = 0 /\ tpc' = "idle"
    /\ mayHaveChunks' = (mayHaveChunks /\ DOMAIN spool # {})
    /\ UNCHANGED <<memory, diskVars, lock, todo, writeVars, faults, evicted, dropped,
                   produced, chan, ingestVars, batch, pos, mqttVars, procVars, handed>>

(* The directory cannot be listed: the tick goes on as if it were empty,   *)
(* but may_have_chunks keeps its value.                                    *)
ListFault ==
    /\ tpc = "disk"
    /\ lock = "free"
    /\ mayHaveChunks
    /\ faults < MaxFaults
    /\ faults' = faults + 1
    /\ EndTick
    /\ UNCHANGED <<memory, mayHaveChunks, diskVars, lock, todo, writeVars, evicted, dropped,
                   produced, chan, ingestVars, mqttVars, procVars, handed>>

(* read_chunk, without the lock.  A chunk that is gone is an error like    *)
(* any other: the publisher goes on to delete the file of that name.       *)
ReadChunk ==
    /\ tpc = "read"
    /\ IF path \in DOMAIN spool
       THEN tpc' = "pubDisk" /\ batch' = spool[path]
       ELSE tpc' = "discard" /\ batch' = <<>>
    /\ UNCHANGED <<bufVars, produced, chan, ingestVars, pos, path, mqttVars, procVars, handed>>

(* The file is there and cannot be read or decoded.                        *)
ReadFault ==
    /\ tpc = "read"
    /\ path \in DOMAIN spool
    /\ faults < MaxFaults
    /\ faults' = faults + 1
    /\ dropped' = dropped \cup ToSet(spool[path])
    /\ tpc' = "discard"
    /\ UNCHANGED <<memory, mayHaveChunks, diskVars, lock, todo, writeVars, evicted,
                   produced, chan, ingestVars, batch, pos, path, mqttVars, procVars, handed>>

Publishing == tpc \in {"pubMem", "pubDisk"}

(* AsyncClient::publish accepts the next entry, waiting while the request  *)
(* channel is full.                                                        *)
PublishEntry ==
    /\ Publishing
    /\ pos < Len(batch)
    /\ loopAlive
    /\ queued < QueueCap
    /\ queued' = queued + 1
    /\ handed' = [handed EXCEPT ![batch[pos + 1]] = @ + 1]
    /\ pos' = pos + 1
    /\ UNCHANGED <<bufVars, produced, chan, ingestVars, tpc, batch, path, connected,
                   loopAlive, procVars>>

FinishMemory ==
    /\ tpc = "pubMem"
    /\ pos = Len(batch)
    /\ EndTick
    /\ UNCHANGED <<bufVars, produced, chan, ingestVars, mqttVars, procVars, handed>>

(* A fault: a published chunk is left on disk.                             *)
KeepChunk == UNCHANGED <<spool, faults>>

(* The file system refuses to delete a file, or deletes it; that the file  *)
(* is not there any more is only logged.                                   *)
DeleteChunk ==
    \/ DeleteFile(path) /\ UNCHANGED faults
    \/ /\ faults < MaxFaults
       /\ faults' = faults + 1
       /\ UNCHANGED spool

(* A fault: the chunk is deleted before all of it is published.            *)
FinishDiskEarly ==
    /\ tpc = "pubDisk"
    /\ DeleteChunk
    /\ EndTick
    /\ UNCHANGED <<memory, mayHaveChunks, tmp, uncounted, lock, todo, writeVars,
                   evicted, dropped, produced, chan, ingestVars, mqttVars, procVars, handed>>

FinishDisk ==
    /\ tpc = "pubDisk"
    /\ pos = Len(batch)
    /\ DeleteChunk
    /\ EndTick
    /\ UNCHANGED <<memory, mayHaveChunks, tmp, uncounted, lock, todo, writeVars,
                   evicted, dropped, produced, chan, ingestVars, mqttVars, procVars, handed>>

Discard ==
    /\ tpc = "discard"
    /\ DeleteChunk
    /\ EndTick
    /\ UNCHANGED <<memory, mayHaveChunks, tmp, uncounted, lock, todo, writeVars,
                   evicted, dropped, produced, chan, ingestVars, mqttVars, procVars, handed>>

(* The client refuses a request once its event loop is gone.  The batch is *)
(* published in slices of PUBLISH_BATCH_SIZE; only whole slices count as   *)
(* published.                                                              *)
SliceStart == (pos \div PubBatch) * PubBatch
FailedSlice == SubSeq(batch, SliceStart + 1, Min({SliceStart + PubBatch, Len(batch)}))

UnpublishedTail == SubSeq(batch, SliceStart + 1, Len(batch))

(* Memory batch: the failed slice is to go back into the buffer; the       *)
(* slices after it go with the dropped Vec.                                *)
PublishFailMemory ==
    /\ tpc = "pubMem"
    /\ pos < Len(batch)
    /\ ~loopAlive
    /\ tpc' = "relock"
    /\ batch' = FailedSlice
    /\ pos' = 0
    /\ UNCHANGED <<bufVars, produced, chan, ingestVars, path, mqttVars, procVars, handed>>

(* A fault: a chunk whose publication failed is treated as corrupt.        *)
PublishFailDiscards ==
    /\ tpc = "pubDisk"
    /\ pos < Len(batch)
    /\ ~loopAlive
    /\ tpc' = "discard"
    /\ UNCHANGED <<bufVars, produced, chan, ingestVars, batch, pos, path, mqttVars,
                   procVars, handed>>

(* Disk chunk: left alone when nothing of it was published, otherwise the  *)
(* tail is to go back into the memory buffer and the file to be deleted.   *)
PublishFailDisk ==
    /\ tpc = "pubDisk"
    /\ pos < Len(batch)
    /\ ~loopAlive
    /\ IF SliceStart = 0
       THEN EndTick
       ELSE /\ tpc' = "relockDisk"
            /\ batch' = UnpublishedTail
            /\ pos' = 0
            /\ UNCHANGED path
    /\ UNCHANGED <<bufVars, produced, chan, ingestVars, mqttVars, procVars, handed>>

(* push in the order of the batch; the tail of a chunk in reverse.         *)
Relock ==
    /\ tpc \in {"relock", "relockDisk"}
    /\ lock = "free"
    /\ lock' = "publish"
    /\ IF tpc = "relock"
       THEN tpc' = "repush" /\ todo' = batch
       ELSE tpc' = "repushDisk" /\ todo' = Reverse(batch)
    /\ batch' = <<>>
    /\ UNCHANGED <<memory, mayHaveChunks, diskVars, writeVars, faults, evicted, dropped,
                   produced, chan, ingestVars, pos, path, mqttVars, procVars, handed>>

Repush ==
    /\ PushToMemory("publish") \/ FlushForPush("publish")
    /\ UNCHANGED <<produced, chan, ingestVars, tickVars, mqttVars, procVars, handed>>

Repushed == lock = "publish" /\ stage = "none" /\ todo = <<>>

(* The tick sleeps IDLE_SLEEP_MS before it returns, and holds the lock.    *)
Backoff ==
    /\ tpc = "repush"
    /\ Repushed
    /\ lock' = "free"
    /\ EndTick
    /\ UNCHANGED <<memory, mayHaveChunks, diskVars, todo, writeVars, faults, evicted,
                   dropped, produced, chan, ingestVars, mqttVars, procVars, handed>>

DeletePartial ==
    /\ tpc = "repushDisk"
    /\ Repushed
    /\ DeleteChunk
    /\ lock' = "free"
    /\ EndTick
    /\ UNCHANGED <<memory, mayHaveChunks, tmp, uncounted, todo, writeVars, evicted,
                   dropped, produced, chan, ingestVars, mqttVars, procVars, handed>>

-----------------------------------------------------------------------------
(* Shutdown.                                                               *)

Signal ==
    /\ phase = "running"
    /\ signals < MaxSignals
    /\ signals' = signals + 1
    /\ phase' = "signalled"
    /\ UNCHANGED <<bufVars, produced, chan, ingestVars, tickVars, mqttVars, crashes, handed>>

(* Where the tick is suspended: asleep or between two ticks, waiting for   *)
(* the lock, waiting for room in the request channel.  A tick that need    *)
(* not wait runs on.                                                       *)
Suspended ==
    \/ tpc \in {"idle", "memory", "disk"}
    \/ tpc \in {"relock", "relockDisk"} /\ lock # "free"
    \/ Publishing /\ pos < Len(batch) /\ loopAlive /\ queued = QueueCap
    \/ tpc = "repush" /\ Repushed

(* A fault: the cancelled tick does not give its lock guard back.          *)
CancelKeepingLock ==
    /\ phase = "signalled"
    /\ Suspended
    /\ tpc' = "flushWait"
    /\ batch' = <<>> /\ pos' = 0 /\ path' = 0
    /\ UNCHANGED <<bufVars, produced, chan, ingestVars, mqttVars, procVars, handed>>

(* shutdown_rx.changed() wins the select!: publish_tick is dropped with    *)
(* what it holds, its lock guard included.                                 *)
CancelTick ==
    /\ phase = "signalled"
    /\ Suspended
    /\ tpc' = "flushWait"
    /\ batch' = <<>> /\ pos' = 0 /\ path' = 0
    /\ lock' = IF lock = "publish" THEN "free" ELSE lock
    /\ UNCHANGED <<memory, mayHaveChunks, diskVars, todo, writeVars, faults, evicted,
                   dropped, produced, chan, ingestVars, mqttVars, procVars, handed>>

(* flush_memory_to_disk, under the lock.                                   *)
ShutdownFlush ==
    /\ tpc = "flushWait"
    /\ lock = "free"
    /\ BeginFlush
    /\ lock' = "shutdown"
    /\ tpc' = "flush"
    /\ UNCHANGED <<todo, produced, chan, ingestVars, batch, pos, path, mqttVars, procVars,
                   handed>>

ShutdownNothing ==
    /\ tpc = "flushWait"
    /\ lock = "free"
    /\ memory = <<>>
    /\ tpc' = "exit"
    /\ UNCHANGED <<bufVars, produced, chan, ingestVars, batch, pos, path, mqttVars, procVars,
                   handed>>

ShutdownFlushed ==
    /\ tpc = "flush"
    /\ stage = "none"
    /\ lock' = "free"
    /\ tpc' = "exit"
    /\ UNCHANGED <<memory, mayHaveChunks, diskVars, todo, writeVars, faults, evicted,
                   dropped, produced, chan, ingestVars, batch, pos, path, mqttVars, procVars,
                   handed>>

(* Everything the process keeps in RAM.                                    *)
Vanish ==
    /\ FreshBuffer
    /\ mayHaveChunks' = FALSE
    /\ chan' = <<>>
    /\ hand' = 0
    /\ ipc' = "recv"
    /\ EndTick
    /\ connected' = FALSE
    /\ loopAlive' = TRUE
    /\ queued' = 0
    /\ phase' = "down"
    /\ UNCHANGED <<diskVars, faults, evicted, dropped, produced, signals, handed>>

(* orchestrator::run returns and main drops the runtime: a task inside a   *)
(* synchronous section finishes it, the others end where they are.         *)
Exit ==
    /\ tpc = "exit"
    /\ lock = "free"
    /\ Vanish
    /\ UNCHANGED crashes

Crash ==
    /\ Up
    /\ crashes < MaxCrashes
    /\ crashes' = crashes + 1
    /\ Vanish

(* A fault: the backlog of an earlier run is not looked for.               *)
RestartBlind ==
    /\ phase = "down"
    /\ phase' = "running"
    /\ mayHaveChunks' = FALSE
    /\ UNCHANGED <<memory, diskVars, lock, todo, writeVars, faults, evicted, dropped,
                   produced, chan, ingestVars, tickVars, mqttVars, crashes, signals, handed>>

(* Buffer::new looks for chunks of an earlier run; a directory it cannot   *)
(* list counts as empty.                                                   *)
Restart ==
    /\ phase = "down"
    /\ phase' = "running"
    /\ \/ mayHaveChunks' = (DOMAIN spool # {}) /\ UNCHANGED faults
       \/ /\ faults < MaxFaults
          /\ faults' = faults + 1
          /\ mayHaveChunks' = FALSE
    /\ UNCHANGED <<memory, diskVars, lock, todo, writeVars, evicted, dropped, produced,
                   chan, ingestVars, tickVars, mqttVars, crashes, signals, handed>>

-----------------------------------------------------------------------------
(* The event-loop task, around the client library.                         *)

Connect ==
    /\ Up
    /\ loopAlive
    /\ ~connected
    /\ connected' = TRUE
    /\ UNCHANGED <<bufVars, produced, chan, ingestVars, tickVars, loopAlive, queued,
                   procVars, handed>>

(* The library keeps the waiting requests or takes them out of the         *)
(* channel; either way no more is promised of them at QoS 0.               *)
Disconnect ==
    /\ Up
    /\ loopAlive
    /\ connected
    /\ connected' = FALSE
    /\ queued' \in {0, queued}
    /\ UNCHANGED <<bufVars, produced, chan, ingestVars, tickVars, loopAlive, procVars, handed>>

Send ==
    /\ loopAlive
    /\ connected
    /\ queued > 0
    /\ queued' = queued - 1
    /\ UNCHANGED <<bufVars, produced, chan, ingestVars, tickVars, connected, loopAlive,
                   procVars, handed>>

(* shutdown.changed() wins: the event loop is dropped with its requests.   *)
(* The connected flag keeps its value.                                     *)
LoopStop ==
    /\ phase = "signalled"
    /\ loopAlive
    /\ loopAlive' = FALSE
    /\ queued' = 0
    /\ UNCHANGED <<bufVars, produced, chan, ingestVars, tickVars, connected, procVars, handed>>

-----------------------------------------------------------------------------
Init ==
    /\ InitBuffer
    /\ produced = 0
    /\ chan = <<>>
    /\ hand = 0
    /\ ipc = "recv"
    /\ tpc = "idle" /\ batch = <<>> /\ pos = 0 /\ path = 0
    /\ connected = FALSE /\ loopAlive = TRUE /\ queued = 0
    /\ phase = "running" /\ crashes = 0 /\ signals = 0
    /\ handed = [e \in Entries |-> 0]

IngestTask == IngestRecv \/ IngestLock \/ IngestPush \/ IngestRelease \/ IngestStop

Tick == \/ TickStart \/ DrainMemory \/ NextDiskChunk \/ ListFault
        \/ ReadChunk \/ ReadFault \/ PublishEntry
        \/ FinishMemory \/ FinishDisk \/ Discard
        \/ PublishFailMemory \/ PublishFailDisk
        \/ Relock \/ Repush \/ Backoff \/ DeletePartial

Shutdown == CancelTick \/ ShutdownFlush \/ ShutdownNothing \/ ShutdownFlushed \/ Exit

EventLoop == Connect \/ Disconnect \/ Send \/ LoopStop

Environment == Produce \/ Signal \/ Crash \/ Restart

Next == IngestTask \/ Tick \/ Write \/ Shutdown \/ EventLoop \/ Environment

Spec == Init /\ [][Next]_vars

-----------------------------------------------------------------------------
(* Where an entry the ingestion task has received may be.                  *)

InRAM ==
    ToSet(memory) \cup InWrite \cup ToSet(todo) \cup ({hand} \ {0})
    \cup (IF tpc \in {"pubMem", "relock"} THEN ToSet(SubSeq(batch, pos + 1, Len(batch)))
                                          ELSE {})

HandedOver == {e \in Entries : handed[e] > 0}

Accounted == InRAM \cup OnDisk \cup HandedOver \cup evicted \cup dropped

(* The chunk number the publisher has chosen stays meaningful until its    *)
(* tick ends.                                                              *)
ChunkInFlight == tpc \in {"read", "pubDisk", "relockDisk", "repushDisk", "discard"}

(* Types of the variables: of the buffer, of the tasks, of the rest.       *)
FilesTypeOK ==
    /\ DOMAIN spool \subseteq Nat \ {0} /\ \A n \in DOMAIN spool : spool[n] \in Seq(Entries)
    /\ DOMAIN tmp \subseteq Nat \ {0} /\ \A n \in DOMAIN tmp : tmp[n] \in Seq(Entries)
    /\ evicted \subseteq Entries /\ dropped \subseteq Entries
    /\ uncounted \in Nat

BufferTypeOK ==
    /\ memory \in Seq(Entries)
    /\ mayHaveChunks \in BOOLEAN
    /\ lock \in {"free", "ingest", "publish", "shutdown"}
    /\ todo \in Seq(Entries)
    /\ flushing \in Seq(Entries)
    /\ stage \in {"none", "check", "remove", "rename"}
    /\ target \in Nat
    /\ faults \in 0 .. MaxFaults

TaskTypeOK ==
    /\ chan \in Seq(Entries)
    /\ hand \in Entries \cup {0}
    /\ ipc \in {"recv", "lock", "push", "done"}
    /\ tpc \in {"idle", "memory", "disk", "read", "pubMem", "pubDisk", "discard", "relock",
               "repush", "relockDisk", "repushDisk", "flushWait", "flush", "exit"}
    /\ batch \in Seq(Entries)
    /\ pos \in 0 .. Len(batch)
    /\ path \in Nat

ProcessTypeOK ==
    /\ produced \in 0 .. MaxEntries
    /\ connected \in BOOLEAN /\ loopAlive \in BOOLEAN
    /\ queued \in 0 .. QueueCap
    /\ phase \in {"running", "signalled", "down"}
    /\ crashes \in 0 .. MaxCrashes /\ signals \in 0 .. MaxSignals
    /\ handed \in [Entries -> Nat]

TypeOK == FilesTypeOK /\ BufferTypeOK /\ TaskTypeOK /\ ProcessTypeOK

-----------------------------------------------------------------------------
(* Safety.                                                                 *)

(* No received entry disappears without a trace while the daemon is up:    *)
(* it stays in RAM or on disk until the MQTT client has accepted it,       *)
(* unless its chunk was evicted as the oldest or its flush failed.  This   *)
(* includes the shutdown flush; what it leaves out is a memory batch the   *)
(* shutdown signal interrupts, the subject of DrainedKept.                 *)
NoSilentLoss ==
    [][\/ phase' = "down"
       \/ phase = "signalled" /\ tpc \in {"pubMem", "relock"}
       \/ Accounted \subseteq Accounted']_vars

(* What has reached the disk survives everything, crashes, restarts and    *)
(* shutdown included: an entry leaves the disk only when it has been       *)
(* accepted by the MQTT client, evicted, given up after a file-system      *)
(* error, or moved back to RAM because its chunk was published in part.    *)
DiskSurvives ==
    [][OnDisk \ OnDisk' \subseteq HandedOver' \cup evicted' \cup dropped' \cup InRAM']_vars

(* The chunk file the publisher deletes or reads is the one it chose:      *)
(* no flush gives the number of an evicted chunk to a new one while the    *)
(* publisher, which works without the lock, still means the old one.       *)
InFlightIntact ==
    tpc = "pubDisk" /\ path \in DOMAIN spool => spool[path] = batch

(* A chunk on disk is never forgotten: may_have_chunks lets the publisher  *)
(* skip the directory scan only when there is nothing to find.  (A         *)
(* directory that could not be listed at start breaks this.)               *)
BacklogVisible ==
    Up /\ faults = 0 /\ DOMAIN spool # {} => mayHaveChunks

(* An entry reaches the MQTT client more than once only because the        *)
(* process ended between publishing it and deleting its chunk, or because  *)
(* a file-system call failed: at most once more for each of these.         *)
BoundedDuplication ==
    \A e \in Entries : handed[e] <= 1 + crashes + signals + faults

(* The memory limit holds across pushes, flushes and re-pushes: neither    *)
(* the ring buffer nor what a flush or a tick has drained from it exceeds  *)
(* memory_max_entries, and a batch read from disk is one chunk.            *)
RamBounded ==
    /\ Len(memory) <= MemoryMax
    /\ Len(flushing) <= MemoryMax
    /\ stage # "none" => memory = <<>>
    /\ Len(batch) <= Max({MemoryMax, ChunkMax})

(* The spool limit is checked before a chunk is written, so the directory  *)
(* outgrows it by at most that chunk, whatever orphaned temporary files    *)
(* crashes have left; when nothing can be evicted, by what is no chunk.    *)
(* Each time in a row that the directory cannot be counted costs a chunk   *)
(* more, and all of it is taken back as soon as it can.                    *)
SpoolOvershoot ==
    TotalSpoolBytes <= ChunkMax * (1 + uncounted)
                       + Max({SpoolMax, OtherBytes + Cardinality(Slots(tmp))})

(* Without re-pushes the tiers are ordered by age, which is what makes     *)
(* "newest first" and "drop the oldest" true: evicted entries are older    *)
(* than the remaining ones, chunks with larger numbers hold newer entries, *)
(* memory is newer than disk.                                              *)
AgeOrder ==
    /\ \A e \in evicted, f \in OnDisk : e < f
    /\ \A m, n \in DOMAIN spool : m < n =>
         \A e \in ToSet(spool[m]), f \in ToSet(spool[n]) : e < f
    /\ \A e \in OnDisk, f \in ToSet(memory) : e < f

-----------------------------------------------------------------------------
(* The inductive invariant behind TypeOK, RamBounded and BacklogVisible.   *)

(* The mutex has one owner, and it is the task that thinks it is.          *)
LockOwnership ==
    /\ ipc = "push" <=> lock = "ingest"
    /\ tpc \in {"repush", "repushDisk"} <=> lock = "publish"
    /\ tpc = "flush" <=> lock = "shutdown"

(* A flush runs under the lock, on what it has drained from the memory     *)
(* buffer, and its temporary file is there when it is to be renamed.       *)
FlushState ==
    /\ stage = "none" <=> flushing = <<>>
    /\ stage # "none" => lock # "free" /\ memory = <<>>
    /\ stage = "rename" => target \in DOMAIN tmp

(* No chunk is longer than disk_chunk_max_entries, in the spool or in a    *)
(* temporary file, and there is a largest chunk number.                    *)
ChunksBounded ==
    /\ \A n \in DOMAIN spool : Len(spool[n]) <= ChunkMax
    /\ \A n \in DOMAIN tmp : Len(tmp[n]) <= ChunkMax
    /\ \E b \in DOMAIN spool \cup {0} : \A n \in DOMAIN spool : n <= b

(* A tick that is not publishing has no position in a batch, and an        *)
(* ingestion task that waits for the lock has an entry.                    *)
TaskState ==
    /\ tpc \notin {"pubMem", "pubDisk"} => pos = 0
    /\ ipc = "lock" => hand \in Entries

(* Together they are inductive: every step of the pipeline keeps them, for *)
(* every value of the constants.                                           *)
IInv == /\ TypeOK
        /\ LockOwnership
        /\ FlushState
        /\ ChunksBounded
        /\ TaskState
        /\ RamBounded
        /\ BacklogVisible

-----------------------------------------------------------------------------
(* The pipeline implements LogDelivery.                                    *)

(* All copies in RAM: also the channel, and the chunk being published.     *)
Held == InRAM \cup ToSet(chan)
        \cup (IF tpc \in {"pubDisk", "relockDisk"} THEN ToSet(SubSeq(batch, pos + 1, Len(batch)))
                                                   ELSE {})

(* The best that can be said of each entry.                                *)
Place ==
    LET disk == OnDisk
        ram  == Held
    IN  [e \in Entries |-> IF handed[e] > 0 THEN "delivered"
                           ELSE IF e \in disk THEN "durable"
                           ELSE IF e \in ram THEN "volatile"
                           ELSE IF e \in evicted \cup dropped THEN "givenUp"
                           ELSE IF e > produced THEN "new" ELSE "lost"]

Delivery == INSTANCE LogDelivery WITH place <- Place

(* Whatever the tasks, the file system, crashes and signals do, each entry *)
(* moves as LogDelivery allows: nothing durable is ever lost, nothing at   *)
(* all while the daemon runs undisturbed, what the client has accepted or  *)
(* the buffer has given up stays so, and entries are taken in one by one.  *)
ImplementsDelivery == Delivery!Spec

-----------------------------------------------------------------------------
(* What comments and tests say and the code does not do.  These are        *)
(* checked to be violated.                                                 *)

(* drain_memory hands its caller entries to "publish and, on success,      *)
(* simply discard": what has been drained and not yet accepted by the MQTT *)
(* client goes back into the buffer, however the tick ends.                *)
DrainedKept ==
    [][phase' # "down" /\ tpc \in {"pubMem", "relock"} =>
          ToSet(SubSeq(batch, pos + 1, Len(batch))) \subseteq Accounted']_vars

(* push: "When memory is full, flush the current contents to a disk chunk  *)
(* first."  With a file system that never fails no flush loses entries.    *)
FlushNeverDrops == faults = 0 => dropped = {}

-----------------------------------------------------------------------------
(* Liveness.  Tasks of the runtime are scheduled again whenever they can   *)
(* go on, file-system calls return, the tokio mutex is fair (its waiters   *)
(* queue up), and select! polls its branches in random order, so that the  *)
(* shutdown branch is not passed over for ever.                            *)

FairTasks ==
    /\ WF_vars(IngestTask) /\ SF_vars(IngestLock)
    /\ WF_vars(Tick) /\ SF_vars(DrainMemory) /\ SF_vars(Relock)
    /\ WF_vars(Write)
    /\ SF_vars(CancelTick) /\ SF_vars(ShutdownFlush) /\ SF_vars(ShutdownNothing)
    /\ WF_vars(ShutdownFlushed) /\ SF_vars(Exit)
    /\ WF_vars(Send) /\ SF_vars(LoopStop)

FairSpec == Spec /\ FairTasks

(* Once the connection stays up and nothing new happens, everything        *)
(* buffered drains: memory, the request channel and the whole backlog.     *)
BacklogDrains ==
    <>[](connected /\ phase = "running") => <>[](InRAM = {} /\ OnDisk = {} /\ chan = <<>>)

(* A shutdown signal always ends the process: neither a full request       *)
(* channel without a connection nor a task holding the lock blocks it.     *)
ShutdownTerminates == phase = "signalled" ~> phase = "down"
=============================================================================
