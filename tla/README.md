# spotflowd in TLA+

A verification project for `spotflowd`, the Linux daemon that sends logs, kernel
crash dumps and metrics of a device to an MQTT broker. Modules model the parts that
buffer, retry, number and delete things; TLC checks them on small instances and
TLAPS proves for every instance what the runs check of it: nearly all safety
properties of the log pipeline, the crash dumps, the metrics, the syslog file and the
process.
Paths such as `orchestrator.rs:134` are relative to `src/src/`.

## 1. The system

| component | source | state it keeps | operations | interacts with |
|---|---|---|---|---|
| Log sources | `sources/syslog.rs`, `sources/journald.rs` | open file, inode, position; journal cursor | read, parse, send | bounded mpsc channel into the orchestrator |
| ANSI stripping | `sources/mod.rs` | none | pure function on a line | called by the sources |
| Log buffer | `buffer.rs` | ring buffer in RAM, `may_have_chunks`; directory of numbered chunk files | push, flush, write chunk with eviction, pick, read, delete | shared by two tasks under a tokio mutex; chunk files also without it |
| Orchestrator | `orchestrator.rs` | the tasks, the tick in progress | ingestion loop, `publish_tick`, shutdown flush | channel, buffer, publisher, shutdown watch |
| MQTT publisher | `mqtt.rs` | connected flag, request channel of the client | publish, event loop with back-off, stop | used by the publish loop, crash dumps and metrics |
| Process | `main.rs` | shutdown watch channel | signal, return of `run`, drop of the runtime | every task |
| Crash dumps | `sources/crashdump.rs` | pstore records, `crashdump_state.json`, set of delivered ids | scan, upload in chunks, save, remove, prune | publisher, kernel |
| Metrics loop | `metrics/mod.rs`, `metrics/publisher.rs` | pending readings, dirty flag, time of last save | tick, publish, save, stop | collector, aggregator, socket channel, publisher |
| Aggregator | `metrics/aggregator.rs` | open windows, sequence numbers, `metrics_seq.cbor` | ingest, flush windows, number, load and save | owned by the metrics loop |
| Collector | `metrics/collector.rs` | previous counters | read `/proc`, `/sys` | called on each tick |
| Custom metrics socket | `metrics/socket.rs` | connections | accept, parse, `try_send` | bounded channel into the metrics loop |
| Configuration | `config.rs` | none after start | parse, defaults, validate | everyone |
| Log entry | `log_entry.rs` | none | severity of a priority | sources, buffer |
| Packaging | `systemd/`, `yocto/`, `install.sh` | none | restart on failure | process |

What makes it hard:

* **Cancellation.** The publish loop is a `select!` of one `publish_tick` and the
  shutdown signal. When the signal wins, the tick is dropped at the await it is
  suspended at, together with what it has drained and the lock guard it holds.
* **Two tasks on one directory.** Pushes, flushes and evictions hold the mutex; the
  publisher reads and deletes chunk files by a path it remembered, without it.
* **A crash between any two file-system calls**, and restarts that rebuild memory
  from the directory (`may_have_chunks`, chunk numbers, the state files).
* **Failing file-system calls**, most of which are logged and passed over.
* **QoS 0.** `publish` returns once the request is in the client's channel; the
  channel is bounded, closes with the event loop, and is lost with the process. What
  was written to a connection last may be lost with it, and nobody learns of it.
* **Threads that cannot be interrupted.** A source runs in `spawn_blocking`; the
  runtime, and so the process, ends only when it has returned.
* **Readings of the kernel** that restart, go backwards or are missing for a tick.
* **Limits**: memory, spool, request channel, pending readings, open windows.

What makes each component correct:

* *Pipeline*: an entry that was taken from the channel is in RAM, on disk, handed to
  the client, evicted as the oldest, or lost to a failed file operation, and nothing
  else; a chunk on disk survives crashes; repetition is explained by a failure; limits
  hold; the backlog is found and drained; shutdown ends.
* *Crash dumps*: a record is removed only after a complete hand-over; no dump is
  sent twice by one process, or by a later one that could read the state file and
  finds it there; the last-chunk flag means what it says, as far as QoS 0 can; while
  the link stays up everything is cleared in the end.
* *Metrics*: every sample is in exactly one window or reading; the readings of a stream
  are without gaps; numbers grow, across restarts too as far as the file says and can be
  read.
* *Collector*: a delta is the true growth of a counter, a percentage is one, and each
  stream has one sample per tick, unless the configuration names a mount point twice.
* *Process*: what `validate` accepts can be started; a handled signal ends the process;
  what one process leaves on disk does not keep the next one from its socket.
* *Sources*: every line of the followed file is read, a rotation is noticed, and the
  message, severity and origin of a line are found again.

The hazards, each with its line and the properties that watch it, are listed in
`PROJECT.json`.

## 2. Modules

| module | models | variables that matter | actions |
|---|---|---|---|
| `LogBuffer` | `buffer.rs` | `memory`, `spool`, `tmp`, `mayHaveChunks`, `lock`, and the flush in progress: `flushing`, `stage`, `target` | `PushToMemory`, `BeginFlush`, `EvictPick`, `EvictRemove`, `EvictGone`, `WriteTmp`, `RenameChunk`, `WriteFault` |
| `LogPipeline` | `orchestrator.rs`, `mqtt.rs`, `main.rs` on top of `LogBuffer` | `ipc` and `tpc`, the places of the two tasks; `batch`, `pos`, `path` of the tick; `connected`, `loopAlive`, `queued`; `phase` | ingestion (`IngestRecv` .. `IngestStop`), tick (`TickStart` .. `DeletePartial`), shutdown (`CancelTick` .. `Exit`), `Crash`, `Restart`, event loop |
| `LogDelivery` | the promise of the pipeline, without how; `LogPipeline!ImplementsDelivery` says that it is kept | `place` of each entry, `phase` | `Accept`, `Deliver`, `Store`, `Remove`, `GiveUp`, `Signal`, `Abandon`, `End`, `Start` |
| `LogPipeline_proofs`, `LogDelivery_proofs` | theorems on `LogPipeline`: types, lock, memory, backlog, the size of the spool and the order of age; deliveries, the refinement and repetitions | | |
| `Crashdump` | `sources/crashdump.rs` with the client and the process around it | `pstore`, `stateFile`, `delivered`, `pc`, `todo`, `queue` | `StartScan`, one action per outcome for a record, `PublishChunk`, `UploadFails`, `Save`, `ClearUploaded`, `EndScan`, `Crash`, `Start` |
| `Crashdump_proofs` | theorems on `Crashdump` | | |
| `Metrics` | `metrics/mod.rs`, `aggregator.rs`, `publisher.rs`, the sample path of `socket.rs` | `states`, `seq`, `seqFile`, `pending`, `dirty`, `lastSave` | `Tick`, `PublishReading`, `PublishFails`, `Published`, `PeriodicSave`, `Stop`, `Receive`, `Crash`, `Start` |
| `Metrics_proofs` | theorems on `Metrics` | | |
| `SyslogTail` | the tail of `sources/syslog.rs`, with the syslog daemon and the log rotation around it | `content`, `atPath`, `writer`; `fd`, `pos`, `line`, `inode` of the reader | `OpenAndSeekEnd`, `FirstInode`, `ReadPiece`, `Send`, `ReadNothing`, `ReadFails`, `CheckInode`, `Reopen`, `ReopenFails`, `SendFails`, `Stop`; `WriteLine`, `Rename`, `Create`, `SwitchWriter` |
| `SyslogTail_proofs` | theorems on `SyslogTail` | | |
| `LogLine` | the line formats of `sources/syslog.rs`, `entry_to_log` of `journald.rs`, `strip_ansi` of `sources/mod.rs`, `log_entry.rs` | `sent`, `line`, `phase`, `entry` | one per parser tried (`TryRfc5424`, `TryRfc3164`, `TryRsyslogDefault`, `WholeLine`), `StripBody`, `InferBody`, `EntryToLog` |
| `LogLine_proofs` | theorems on `LogLine` | | |
| `Collector` | `metrics/collector.rs`, with the kernel around it | counters in the kernel; `prevCpu`, `prevDisk`, `prevDiskTime`, `prevNet`; `samples` | `Collect`; `ProcessorRuns`, `DeviceWorks`, `Unplug`, `Plug`, `PoolChanges`, `ReadabilityChanges`, `TimePasses` |
| `Collector_proofs` | theorems on `Collector` | | |
| `Daemon` | `config.rs`, the start and end of `main.rs` and `orchestrator.rs`, the threads of `journald.rs` and `syslog.rs`, the start and end of the metrics task, its socket and the crash dump task | `phase` of main, `on` and `bad` of the configuration, `handler`, `told`, `flag`, `thread`, `chan`, `socket`, `socketFile` | `Boot`, `Refuse`, `Load`, `StartClient`, `SpawnTasks`, one per step of a thread, `PreparePath`, `BindSocket`, `AllowAll`, `SocketEnds`, `SeeShutdown`, `Flush`, `DropTasks`, `Exit` |
| `Daemon_proofs` | theorems on `Daemon` | | |
| `MCPipeline`, `MCCrashdump`, `MCMetrics`, `MCSyslog`, `MCCollector`, `MCDaemon`, `MCLogLine` | small instances for TLC | | |

Definitions introduced by "A fault:" are plausible mistakes in one definition of
the code (a dropped guard, an off-by-one, a forgotten reset). No specification uses
them; `PROJECT.json` pairs each with the property that notices it.

### Granularity

**Pipeline.** A step ends where a task awaits, takes or gives back the lock, or makes
a file-system call whose result another task or a crash can see. So a flush is one step
per call (`stage` says where it is), because the publisher may delete a file between
the listing and the removal of an eviction. Everything between two such points
touches only what the task owns and commutes with the other tasks. `write_chunk`'s
temporary file stays behind when the process dies before the rename; the next chunk
of that number overwrites it.

`Suspended` names the places where a tick can be cancelled: asleep, waiting for the
mutex, or waiting for room in the request channel, and the back-off sleep that holds
the lock. Between them a tick runs on: dropping a future needs it to be pending.
Tokio's cooperative budget can make an operation pend that need not; it would add
cancellation points at awaits that are already listed with a different reason,
and is left out.

An entry is its position in the order of production, so *newer* is `>`. It counts
one byte of spool. The request channel is a count: what a QoS 0 client does with a
log entry after it has taken it is outside of these properties.

**Crash dumps.** A `coreDumpId` is the pair of file name and modification time it is
a hash of. `State::save` is atomic, because it writes aside and renames. `Crash` is
any end of the process, the runtime drop at the end of a shutdown included. `Send` writes
a request to the connection, which is all that QoS 0 knows; `arrived` is what the broker
has of it, each chunk with the number of the connection, and `LinkLost` takes any number of the
last chunks of the present connection away again. The client may then send what it
still holds, or lose that too (`Disconnect`): rumqttc is external, and the model
allows both. `Start` reads the state file, or fails to read or parse it and begins with an
empty state (`StartUnread`). `connected` keeps its value when the event loop ends, as
the flag of `mqtt.rs` does: a scan may begin an upload that then fails at once.

**Metrics.** `Tick` is one step: the code has no await from the collection of the
samples to the publishing. Values are naturals, and a raw reading carries the count 1
that its payload omits. `save_seq` is atomic for the same reason as above, and
`load_seq` gives no numbers when the file cannot be read or parsed (`StartUnread`). The
uptime is a reading of its own where `metrics.enabled` and the group ask for it
(`SendUptime`).

**Spool.** The directory is counted and listed call by call. A listing that cannot be had
counts as 0 bytes (`RoomFound`, `total_spool_bytes` at `buffer.rs:39`), so the chunk is
written over the limit; `uncounted` is how often in a row that has happened. A
file whose metadata cannot be had is one of the cases in between, as is an
entry that `read_dir` fails to give: the model has the listing that fails as a whole.

**Syslog.** One step per system call whose result the rotation can change: open,
stat, read. `BufReader` reads ahead, but it asks the file again before it reports the
end, so reading piece by piece reaches the same entries. A file is its inode; as the
reader keeps its file open, the number of that file is not given out again. A line is
written at once or in two parts, and the syslog daemon finishes it before it changes
files. The thread waits in `blocking_send` when the channel is full: `Send` is then
merely late. When the receiver is gone, also while it waits, the thread ends and the line
in its hands is lost (`SendFails`, `lost`); `Stop` is the flag it looks at before a read.

**Lines.** Text is a sequence of tokens: the characters the parsers look at, the two
bytes of a character outside ASCII, and words without a meaning of their own. One
step per parser tried. `Messages` is any set of texts; for TLC, the sequences of up to
`MaxUnits` units, levels of tracing and words with `T` and `:` among them, and the lines
of `Traced`. A writer puts it into a line, or into an entry of the journal whose priority,
identifier, host and process may be absent or no number, and the properties compare the
entry with what was written. Any first word with a `T` and a `:` counts as a time
(`LooksLikeTime`, `syslog.rs:140`), so `TIMEOUT: ERROR` states a severity. Timestamps are one token. The writer of RFC 5424 has no structured data:
with parameters, which contain spaces, `splitn(7, ' ')` (`syslog.rs:175`) takes a part
of them for the message. A plain line that begins with `<` and contains `>` is taken
for RFC 3164; `Loggable` leaves it out.

**Collector.** `Collect` is one step, and the kernel moves between ticks, not between
the files of one tick. A disk or interface has one counter, whose growth is sent,
and one further number: the time on I/O or the errors. A percentage is a
fraction; the time of guests counts twice in the processor's, since the code adds up
all fields of the line and `user` contains it (`collector.rs:355`). Mount points are a
list, as in the configuration, and each has its own sizes and may fail on its own; `nth` tells
samples apart that were made from different places of a loop. What was true of the counters since the last reading is kept in history
variables (`growth`, `restarted`, `seen`, `worked`).

**Process.** A component is a place in its life; what it does there belongs to the other
modules. A setting has a usable value or none; `bad` remembers which, so that a
component can trip over what `validate` let pass. `SpawnTasks` is one step, as nothing
observes the order. `DropTasks` and `Exit` are the two halves of the end of the
runtime: tasks are dropped, threads are waited for. The start of the metrics socket is one
step per call of the file system: a crash in between leaves the file, an error of
`remove_file` is ignored (`socket.rs:51`), and `bind` fails on what is still there.

## 3. Runs

`expect` "violation" marks a run of one property that a comment or a test of the
repository promises and the code does not keep (section 5).

| run | bounds | question |
|---|---|---|
| `pipeline_crash` | 7 entries; memory 2, chunk 1, spool 3; 1 failing call, 1 crash | Do entries survive a crash at any step and a failing call at any step? |
| `pipeline_shutdown` | 5 entries; memory 3, chunk 2, spool 4; 1 failing call, 1 crash, 1 signal | With a signal that can cancel the tick: does the pipeline implement `LogDelivery`, and is the invariant of the proofs true? |
| `pipeline_live` | 3 entries; 1 signal; fairness | Does the backlog drain, and does a shutdown end? |
| `pipeline_drained`, `pipeline_abort` | the smallest instances | violations |
| `crashdump` | 2 slots, 2 dumps of 0 or 2 chunks, retention 0, clock 1; 1 failing call, 1 restart, 1 lost connection; fairness | All promises about crash dumps, safety and liveness |
| `metrics` | window 2, save every 2 steps, 4 clock steps; 1 open stream, 4 pending readings; 1 failing read or write, 1 restart | Conservation of samples, numbering, saving |
| `collector` | 1 disk, 2 interfaces (1 filtered out), 3 places in the list of mount points, 4 thermal zones; 3 ticks, 3 events of the kernel | Is each sample right? |
| `daemon` | channel 1, at most 1 unusable setting, 2 processes; fairness | Does every accepted configuration start, and every handled signal end the process? |
| `lines` | messages of up to 4 units of 10 | Is the message found again? |
| `lines_utf8` | up to 2 units | violation |
| `syslog` | 3 files, 2 lines of one or two parts, 1 failing call; fairness | Two rotations at any moment: what becomes an entry, and is the new file always found? |

Why the bounds are enough for the interesting cases:

* `pipeline_crash` has chunks of one entry, so one flush writes two files, evicts
  between them, and can fail or die after the first; seven entries overflow memory
  and spool several times and leave a chunk in flight while the spool turns over.
  `pipeline_shutdown` has chunks of two, so a chunk is published in two slices and
  a partial publication has a tail.
* the request channel of one makes every publication wait for the event loop, which
  is where a tick can be interrupted.
* `crashdump` has as many slots as dumps and two chunks per dump: an upload is cut
  between chunks, and another dump is waiting meanwhile. Empty records are
  dumps of 0 chunks. A retention of 0 in a clock of one step has both cases of the
  pruning at a restart: a delivery that is kept and one that is too old.
* `syslog` has a line in two parts with a rotation between them, and enough files for
  a rotation during the reopening after a rotation.
* `metrics` has a counter (raw), a gauge (aggregated), the uptime, and a custom stream
  that meets the limit of one open stream. Four clock steps give two windows and
  two periodic saves; four pending readings overflow after two ticks offline.

* `collector`: two readings make a difference, three show a device that a tick missed;
  three events are enough for a device to leave, come back and work, and for time to
  be taken back between two readings. All five groups are enabled. The list has one
  mount point twice, and the types of the zones are `pkg`, `acpi`, `pkg` and `pkg_0`, so
  both exceptions of `OneSamplePerStream` occur.
* `daemon`: each setting is unusable in some file, with each set of switches and
  each section left out or given; a channel of one fills at once. The second
  process meets the socket file of the first.
* `lines`: four units hold an escape, a bracket, a parameter and a final letter, or a
  second escape inside the first sequence.

### What the properties say

*Pipeline.* `NoSilentLoss`: while the daemon runs, what was received stays accounted
for; it excludes only the one case of the violation run `pipeline_drained`.
`DiskSurvives`: an entry leaves the disk only for a reason, over crashes and
restarts. `InFlightIntact`: the file under the number the publisher is working on is
the one it read. `BacklogVisible`: `may_have_chunks` is never wrongly false, as
long as no file-system call has failed (a directory that cannot be listed at the
start leaves it false). `BoundedDuplication`: one repetition per crash, signal or
failed call. A chunk that cannot be deleted is published again on every tick, which is
why failed calls count. `RamBounded`, `SpoolOvershoot`: the two limits, and by how
much they can be passed. `AgeOrder`: chunk numbers are in order of age, without
which eviction would drop the wrong chunk; only a run without signals checks it,
as pushing back a tail breaks the order by design. `BacklogDrains` and
`ShutdownTerminates` are the liveness properties. `ImplementsDelivery` is the
refinement: under `Place`, which calls an entry delivered, durable, volatile, given up
or lost, in this order, every step of the pipeline is a step of `LogDelivery` or a
stutter, crashes and cancelled ticks included. In particular nothing that is durable is
ever lost, and nothing at all is lost before a signal or a crash.

`SpoolOvershoot` has one chunk more for every write in a row whose listing failed.

*Crash dumps.* `DeletedOnlyAccepted`: of a record that was removed, every chunk was accepted by
the client, and has arrived or is still queued as long as no connection and no process has
ended. `SentOncePerLife`. `NoFreshResend`: what the state file holds is not sent again within
the retention by a process that could read it, or has written it since. An unreadable
file is an empty one, and its dumps are then sent again. `LastChunkMeansWhole`: the last chunk
arrives behind all the others of one upload, or, if a connection was lost on the way,
behind those that were sent since; that the middle of a dump can be missing behind a last
chunk is what QoS 0 does, and the receiver sees it by the ordinals. `PromptRetry`: the long
sleep is chosen only when nothing waits. `EventuallyCleared`: once the link stays up and the
process alive, every record is delivered and removed.

*Metrics.* `SamplesConserved`, `WindowsAgree`, `PendingIsNewest`. `NumbersGrow` is about every
hand-over: its number is above all that this process has handed over, and above those it
read at its start. A restart repeats what was handed over after the last save, and one that
cannot read the file begins at 1; the property does not claim otherwise.
`CleanMeansSaved`: what is not marked dirty is on disk, except after a write that failed,
which clears the mark as well (`mod.rs:200`), and after the end of the event loop.

*Syslog.* `OneLinePerEntry`: no entry mixes lines. `NothingSkipped`: no gap in the
file being read, but for lines that are no text and the one line, never more, that a closed
channel refuses. `RotationNoticed` and `ReadAtMostTwice` are about the order of stat
and open: after a reopening the remembered inode may be the one before the opened
file, never one after it, so that a race costs a second reading of one file and not
the sight of a rotation. `CatchesUp` is the liveness that rests on it. The start has
the other order (`syslog.rs:36-39`, open and then stat): a rotation in between
leaves the reader on the renamed file until the next rotation. The state is named
`Unaware` and the properties say where they exclude it. What is appended to the
old file after the last read of it is never read (`syslog.rs:49`), and no property
claims that it is.

*Collector.* `DeltasAreGrowth`: no delta exceeds what the counter grew by since it was
last read, and equals it for a device that two ticks in a row have read and that has not
restarted. `PercentInRange`: between 0 and 100 of something, and the processor's is the
busy share since the last reading that succeeded. `OneSamplePerStream`: two samples of a
tick never have one name and label, though zones share a type and some cannot be read;
except for a mount point that is listed twice, which `validate` lets pass, and for zones
of different types of which one reads as an index of the other.

*Process.* `StartedSoundly`: no component fails or panics over a configuration that was
accepted. `SocketComesBack`: the socket task ends without a socket only if the system refuses
one of its own calls, whatever file an earlier process has left. `ShutdownExits`.

*Lines.* `StripsSequences`: the body is the message without its escape sequences, by a
definition that says where a sequence begins and how far it reaches. `OriginKept`:
host, program and process are what was logged, with the journal's fallbacks, and the
severity is what the line states, or else the level behind a first word that looks like a
time, or none.

### Fairness

`LogPipeline!FairTasks`: weak fairness for each task, since tokio polls a woken task
and file-system calls return. Strong fairness for taking the lock (tokio's mutex
queues its waiters), for `CancelTick` (select! polls its branches in random order, so a
tick that is always ready does not hide the signal for ever) and for `LoopStop` (the
same of the event loop's `select!`). There is no fairness for the sources, the
broker connection, crashes or signals; `BacklogDrains` therefore assumes that the link
comes back for good. The number of entries is finite in the model: that endless new
entries keep every tick on the memory branch and starve the disk backlog
(`orchestrator.rs:199`) is visible in the code and not in this run.

`Crashdump!FairSpec`: the scan, which includes the timer of its loop, and the sending of the
client. Not the connection, which the network decides, and no restart: systemd starts the
daemon again after a failure only (`Restart=on-failure`), and the init script not at all.
`EventuallyCleared` has the rest as its premise: from some time on the link is up and
the process alive. Failures are finite by their bound, on which it relies as well: a removal
that fails for ever keeps its record.

`SyslogTail!FairSpec`: the thread, and the second half of a rotation that was begun.

`Daemon!FairSpec`: main, the source threads (the kernel runs them, and each of their
calls returns) and the end of the ingestion task. Nothing else: neither the channel
is drained nor do signals arrive by fairness.

`Metrics` has no liveness property: its clock is bounded, so that a fair behaviour is
one that has run out of time. `Disconnect` is unbounded there, and hence the runs
need no exemption from the deadlock check.

## 4. Proofs

`LogPipeline_proofs` proves, for all values of the constants that satisfy
`ConfigAssumption` (memory, chunk and spool limits are positive: what
`Config::validate` rejects, and nothing more) and `PipelineAssumption` (capacities are
positive, the bounds are naturals):

| theorem | says |
|---|---|
| `Invariance` | `Spec => []IInv` |
| `TypeCorrect` | every variable keeps its type |
| `MutualExclusion` | the mutex has one owner, the task that thinks it is, though a cancelled tick returns it by being dropped |
| `MemoryLimit` | `RamBounded`: no push, push-back or flush exceeds the memory limit |
| `BacklogIsSeen` | `BacklogVisible`: no chunk is hidden from the publisher |

The invariant is `TypeOK`, `LockOwnership`, `FlushState`, `ChunksBounded`,
`TaskState`, `RamBounded`, `BacklogVisible`. None of the last two is inductive alone.
That memory stays within its limit needs that no other task pushes while a flush
is in progress, which is the ownership of the lock; that a batch read from disk is
bounded needs the length of every chunk, which needs the length of every temporary
file, which exists when it is to be renamed (`FlushState`). That
`may_have_chunks` is set when a file appears is easy; that clearing it is right
needs that the listing which finds nothing runs under the lock, outside of a rename.
`ChunksBounded` also says that there is a largest chunk number, in place of the
finiteness of the directory: `Max` is a `CHOOSE` and has no value otherwise.
There is one lemma per part of the invariant and under it one step per action;
lemmas about slices, chunks and files (`ChunkCut`, `SliceTypes`, `WithType`,
`NextNumber`, ..) are stated once.

The second half of `LogPipeline_proofs`, under the same assumptions:

| theorem | says |
|---|---|
| `SpoolLimit` | `SpoolOvershoot`, for every limit, even one that a chunk exceeds |
| `RoomForAChunk` | with `EnoughRoom`, `Fits` is invariant: a flush that looks for room can have it by eviction |
| `AgeOrdered` | `Spec => [](signals = 0 => AgeOrder)` |

`Size` counts the entries of a directory, `Slots`. `Granted` is what a check of the limit
that let the flush through is worth until the next check: the directory is within the
limit but for one chunk, or it holds no other chunk at all. The temporary file is
written after the check and renamed later, so `Granted` counts it in between, and
the invariant says that its name is new and it has the length of a chunk (`RenameInv`).
`OrphansBounded` counts the temporary files that nobody is going to rename: each is the
remains of a crash or of a failed call, of at most one chunk.

For the order of age, an entry goes through layers: from the channel through the hands of
the ingestion task into the memory buffer or a flush, to the disk, and, with its chunk,
to what was evicted. `LayersOrder` says that every layer is older than the ones it
follows; a step either takes entries away (`Fade`: publishing, crashes, cancelled
flushes) or moves the oldest ones of a layer to the next, and there is one lemma for
each such move (`LayersStore`, `LayersPush`, ..). What makes them the oldest is the rest
of the invariant: the queues and the chunks are sorted (`QueuesOrder`, `ChunksOrder`), the
file about to be written has the largest number and the victim the smallest, even if
the publisher has deleted files since it was picked (`TargetOrder`). Without a signal
the event loop lives, so nothing is ever pushed back (`Undisturbed`); after one, the tail of
an older chunk may come to lie on newer entries, and the order is lost by design.

`LogDelivery_proofs`, as long as `Fits`, which `EnoughRoom` implies:

| theorem | says |
|---|---|
| `ChunkStaysItself` | `InFlightIntact` |
| `DiskIsSafe` | `DiskSurvives` |
| `NothingVanishes` | `NoSilentLoss` |
| `PipelineDelivers` | `ImplementsDelivery`, the refinement of `LogDelivery` |
| `EntriesAreSafe` | all four, assuming `EnoughRoom` of the constants and nothing of the behaviour |

`Fits` is not an artefact of the proof. If not even an empty directory has room for a chunk
(with TLC: `OtherBytes = 3`, `SpoolMax = 1`, `ChunkMax = 1`), eviction removes the chunk that the
publisher is reading and leaves none; numbering starts again at 1, a new chunk gets the
number of the old one, and the publisher then deletes it (`buffer.rs:54`, `:73`):
`InFlightIntact` and `ImplementsDelivery` are violated. The instance of `pipeline_crash`
satisfies `EnoughRoom`.

The invariant `DInv` adds to `IInv` and the spool's invariant what the two tasks owe each other.
`FlightInv`: while the publisher means a chunk, it is there or younger ones are, and
the flush in progress neither removes the last one nor creates one of that number; here
`Fits` is needed, because an eviction that is about to leave nothing must find room
(`OneChunk`). `ChunkRead` and `Accepted`: the batch is what the file holds or held before its
eviction, and what comes before the current place was handed over. `Dispensable`: each
entry of a chunk that is to be deleted is accepted, given up, back in RAM, or in another
chunk. `Settled`: who returns the lock, or waits for it, holds no entry. `Produced`:
the next entry is new.

The steps are then sorted by what they do to five sets (handed over, on disk, held in RAM,
given up, produced), the seven alternatives of `Kind`: nothing of an entry's place, taking one
in, delivering, storing, removing what is held or done, giving up, abandoning. There is one lemma per
step of a task that says of which kind it is, and one lemma per kind that says which
action of `LogDelivery` it is (`ShuffleStep`, `TakeInStep`, .. on `PlaceOf`). `NoSilentLoss` and
`DiskSurvives` are read off the same sets (`Effect`).

The last part of `LogDelivery_proofs`, without `Fits`:

| theorem | says |
|---|---|
| `CountInvariance` | `Spec => []CInv`, the invariant of the count |
| `DuplicationBound` | `BoundedDuplication` |

`Total` adds up, for one entry, how often it was handed over and in how many places it is:
in the queues of the ingestion task, in memory and in a flush (`Underway`), in what the tick
has not handed over yet (`InTick`), in chunks on disk other than the one the tick has read
(`InChunks`). `CountInv` says that this total never exceeds one and the number of crashes,
signals and failed calls. The interesting steps are the ones that copy without a failure:
a flush writes a chunk and takes the entries out of memory, reading a chunk leaves its
file, which therefore counts with the tick (`Aside`) and comes back into the count when
the tick is cancelled or fails. Between the signal and the end a shutdown can do that
once, and `Recurs` stands for this copy that may still come to light. That it is only
one needs the second half of `CountInv`: an entry is in one place of the memory side only,
and in no chunk twice; and `ShutdownInv`: a publishing fails only once the event loop is
gone, which only a shutdown does.

`Collector_proofs`, for all sets of devices, filters and enabled groups
(`CollectorAssumption`):

| theorem | says |
|---|---|
| `Remembered` | what is remembered of a device is its counter less its growth, unless it has restarted, and then its counter is at most its growth; the devices remembered are those of the last tick |
| `DeltasSound` | `DeltasAreGrowth` |
| `OneSampleTheorem` | `OneSamplePerStream` |
| `PercentTheorem` | `PercentInRange` |

The property is about one step, and needs the relation between the counter, the previous
reading and the history that `Remembered` states: with it the saturating difference is
right in both cases. `DeltasOfTick` collects what `collect` returns under the two names
that carry deltas.

`OneSampleTheorem` takes the samples of a tick apart by their names (`SingleUnion`); what is
left is that two samples of different places of a loop share a label only if they are
`Twins`. Zones of one type that can be read are numbered, so two zones with one label have
different types, and one is the other with a number behind it (`LabelsDiffer`). Nothing is
assumed of types and mount points; `ZoneAssumption` says what a type is.
For percentages, `CpuInv` relates the reading that is remembered to the present one: what
has passed is what the processor worked, and the idle time is within the total. The
subtractions that do not saturate wrap at the width of a counter (`Minus`), so the theorem
needs `WidthAssumption`: counters of 64 bits do not get there.

`Daemon_proofs`, for every capacity and bound, with and without journald:

| theorem | says |
|---|---|
| `Soundness` | the invariant: what is running was accepted by `validate`, the metrics task only runs when a switch asks for it, the path is free before `bind` unless the system refused the removal |
| `AcceptedMeansUsable` | `StartedSoundly` |
| `SocketComesBackTheorem` | `SocketComesBack` |

`SyslogTail_proofs`, for any number of files, lines, pieces and failing calls
(`SyslogAssumption`):

| theorem | says |
|---|---|
| `TypeCorrect` | `TypeOK` |
| `OneLineTheorem` | `OneLinePerEntry` |
| `NothingSkippedTheorem` | `NothingSkipped` |
| `RotationTheorem` | `RotationNoticed` |
| `ReadAtMostTwiceTheorem` | `ReadAtMostTwice` |

The invariant `SInv` holds the files and the reader apart. Of the files it says that the
pieces of a line are together (`LinesWhole`); of the reader, that the line it is
collecting is a run of pieces just before its position. `EnvironmentKeeps` proves once
for all steps of the syslog daemon and the rotation that files which only grow
(`Grows`) leave the reader's part alone; `ReaderKeeps` does it for steps that move only
`pc` and inodes. That a rotation is noticed rests on the order of two calls: the inode
is taken before the path is opened, so the inode remembered is never newer than the
open file, and the path never leads to an older one than before. For the same reason a file
is read a second time but not a third: `Pending` counts the openings of the file at the
path that may still come, one that is under way and one more as long as the inode
to be remembered is not that file's, and `OpenInv` bounds their sum with those that were.

`Crashdump_proofs`, for all slots, sizes, retentions and capacities, and any number of
dumps, faults, crashes and lost connections (`CrashdumpAssumption`):

| theorem | says |
|---|---|
| `SpecInv` | `Spec => []CInv` |
| `TypeCorrect` | `TypeOK` |
| `DeletedOnlyAcceptedTheorem` | `DeletedOnlyAccepted` |
| `SentOncePerLifeTheorem` | `SentOncePerLife` |
| `NoFreshResendTheorem` | `NoFreshResend`, a property of steps |
| `LastChunkMeansWholeTheorem` | `LastChunkMeansWhole` |
| `PromptRetryTheorem` | `PromptRetry` |

What each of them needs beyond itself is a part of `CInv`. A record that is removed was
handed over because an id is only known, in memory or in the file, when its dump was
(`Known`), and no two dumps share an id (`Numbered`). A dump is handed over again only
by a process that does not know of it, and a process forgets only by ending
(`UploadsInv`); one that could read the file, or has written it, knows at least its young
entries (`FreshKnown`). For the chunks, what has arrived and what is queued is one sequence:
every chunk in it comes right after those before it, or is the first to arrive since a
connection was lost; the end of a connection, a crash or a stop cuts it at the end, and a
prefix of such a sequence is one too. `OwedInv`
follows a record through the scan: not looked at yet, deferred, under way or delivered.
The theorems speak of ids without collisions, which is the assumption in `Panic`.

`Metrics_proofs`, for all streams, values, windows, limits and capacities, and any number
of samples, failed writes and restarts (`MetricsAssumption`):

| theorem | says |
|---|---|
| `IngestSound` | what `Aggregator::ingest` returns for any batch: each sample is in one window or reading, numbers follow each other |
| `Invariance` | `Spec => []Inv` |
| `TypeCorrect` | `TypeOK` |
| `ConservedTheorem` | `SamplesConserved` |
| `WindowsTheorem` | `WindowsAgree` |
| `NewestTheorem` | `PendingIsNewest` |
| `SavedTheorem` | `CleanMeansSaved` |
| `NumbersTheorem` | `NumbersGrow`, a property of steps |

`ingest` is a loop over samples and then one over the windows that have elapsed, and the
sums of `SamplesConserved` run over sequences and over the hash map; so this module needs
induction over data. The library's induction theorems take a predicate, which the provers
cannot instantiate; `SetInduction` says the same of a set, from the well-foundedness
of `<` on the naturals. The folds of the community modules choose a function that
satisfies their recursion. `FoldSamples`, `FoldWindows` and `PartialExists` build it up to
any length; from then on a fold is the last of a chain of results, and a sum may
start with any element (`PartialSums`), which is why the order of the hash map does not
matter.

The invariant adds two things to the properties. `InOrder` says of pending readings what
`PendingIsNewest` says, and that their count, sum, min and max agree; cutting off the
oldest keeps it (`SliceInOrder`), and so does appending readings that continue them
(`JoinInOrder`). `Ahead`: while the event loop lives, what is not handed over yet carries
higher numbers than what is, per stream. This is what a failed publishing would
break, as it starts again at the first reading: it fails only when the channel is
closed, and the event loop of a process never comes back. `Sound` is the same
for the aggregator in the middle of a batch: every sample and every window keep it
(`SampleSound`, `FlushSound`). A window that has elapsed is still open when its turn comes,
since the listing has no window twice (`Listing`).

`LogLine_proofs`, for every set of messages (`LogLineAssumption`):

| theorem | says |
|---|---|
| `StripIsReference` | what `strip_ansi` keeps is the reference's plain text, for every text |
| `LineInvariant` | `Spec => []LInv` |
| `StripsSequencesTheorem` | `StripsSequences` |
| `OriginKeptTheorem` | `OriginKept` |

The loop of `strip_ansi` is a function over the bytes read so far (`Scan`), and the
reference names sets of places (`Starts`, `Reach`). `Followed` ties them together: after i
bytes the output is what no sequence that starts by then covers, and the mode says whether
the last such sequence has ended, or how far it has got. One byte keeps this
(`FollowedStep`, a case per mode), and `SetInduction` does the rest. Both sides are
defined by recursion or choice; `ScanIs` and `StartsIs` show that what is chosen exists.

`LInv` says that a line is read in the format it was written in: the parsers that come
before leave it, and the one that takes it finds what was written. Fields and words are
the k-th of something, so the lemmas count (`SpaceNext`, `WordNext`) along the header of a
format up to the message, whatever comes behind (`EndsWith`); `Line5424`, `Line3164` and
`LineRsyslog` put this together. In RFC 3164 the padded day moves the fourth space into the
header but the words stay, and the first colon with a space is that of the tag
because the tag is one word. Whether the severity is stated or inferred, it is so from the
body that is left of the message: its first word reaches to the first space or the end
(`WordBounds`), and the level is the next word behind it (`InferredBehindTime`). The assumption
on messages says what tokens mean: which follow a `#`, and that no word is inside an
escape sequence.

Every invariant and action property of the runs that pass is thus proved. Only
model-checked: `BacklogDrains`, `ShutdownTerminates`, `ShutdownExits`, `EventuallyCleared`
and `CatchesUp`, which are liveness under fairness.

## 5. Where the code and its comments disagree

Checked by a run that finds the violation:

| run | property | what happens |
|---|---|---|
| `pipeline_drained` | `DrainedKept` | a shutdown that interrupts the publication of a memory batch loses the rest of it: the flush sees only the buffer, from which the batch was drained |
| `pipeline_abort` | `FlushNeverDrops` | the publisher deletes a chunk an eviction has picked; `remove_file` fails, and the flush gives up the entries it has drained |
| `lines_utf8` | `OnlyAsciiSkipped` | an escape before a character of several bytes leaves half of it; the text is no UTF-8 any more and the whole body becomes empty |

Visible in the models, without a run of their own:

* After a partial publication the unpublished tail is in RAM only, where the comment
  says the chunk is rewritten (`orchestrator.rs:201-207`); `LogDelivery!Remove` allows
  the move from durable to volatile for this reason.
* A delivery is forgotten after seven days though its record may still be there
  (`crashdump.rs:367`), and it is sent again after a restart; `NoFreshResend` speaks of
  younger deliveries.
* "Published" is "in the client's channel" (`crashdump.rs:14`): a record is removed
  before the broker has anything. `DeletedOnlyAccepted` names what may then lose it.
* Numbers handed out in a batch that failed half way are not saved at a clean shutdown
  (`metrics/mod.rs:203`, `:210`).
* The label of a thermal zone changes when another zone of its type cannot be read
  (`collector.rs:403-412`): labels are distinct within a tick only. And where the comment
  says "so each zone gets a unique stream key", zones of the types `pkg`, `pkg` and
  `pkg_0` do not (`Twins`).
* A mount point listed twice gives two samples of a stream per tick, which the aggregator
  adds up (`collector.rs:285`).
* The time of guests is counted twice in the processor's total (`collector.rs:355`).
* A state file or a file of numbers that cannot be read is replaced by an empty one at
  the next save (`crashdump.rs:343`, `aggregator.rs:232`).
* The spool limit does not hold while the directory cannot be listed (`buffer.rs:39`).

## 6. Not modelled

* Wire encodings, TLS, TOML, JSON and the text of `/proc`: conversions without control of
  their own. Timestamps of entries.
* The connections of the metrics socket; a sample enters `Metrics` where `try_send` puts
  it into the channel.
* A second writer in the spool directory other than the files counted by `OtherBytes`.
* Single entries of a directory that `read_dir` fails to give, or whose metadata cannot be
  had: `next_chunk_path` and `drop_oldest_chunk` would then choose from fewer files, and a
  number could be given out again (`buffer.rs:58`). In the model a listing fails as a whole.
* What rumqttc does with requests that it holds when the connection is lost: both outcomes are
  allowed, and nothing rests on one of them.
* Hash collisions of `coreDumpId`; and two panics with the same modification time in
  one slot, which `Panic` excludes.
* A syslog file that is truncated in place: the reader does not handle it. Its
  position stays behind the new end until the file has grown past it.
* RFC 5424 lines with structured data that has parameters.
* Several pstore directories, and names no configured kind matches.
* Counters of the kernel that wrap, and other times than that of waiting for I/O that go
  back: `total_d - idle_d` (`collector.rs:115`) would underflow if busy time did.
* Packaging.

## 7. Plan

Done: the pipeline with its refinement, crash dumps, metrics, the syslog file, lines,
the collector, the process; the proofs of section 4. Left, in order of importance:

1. One request channel shared by logs, crash dumps and metrics: who waits for whom.
2. The connections of the metrics socket and their limits.
