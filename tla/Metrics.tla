------------------------------ MODULE Metrics ------------------------------
(***************************************************************************)
(* The metrics task (src/src/metrics/mod.rs) and its aggregator            *)
(* (aggregator.rs).  A tick collects samples, aggregates them per stream   *)
(* over a window, numbers every reading that becomes ready and publishes   *)
(* all pending readings; the numbers are kept in a file so that a stream   *)
(* goes on counting after a restart.  The platform orders and deduplicates *)
(* the readings of a stream by those numbers.                              *)
(*                                                                         *)
(* Values are small naturals.  A reading carries the number of samples it  *)
(* stands for: 1 for a raw one, whose payload omits count, min and max.    *)
(***************************************************************************)
EXTENDS Integers, Sequences, FiniteSets, FiniteSetsExt, SequencesExt

CONSTANTS
    OsStreams,   (* streams the collector samples on every tick            *)
    RawStreams,  (* of these, cumulative counters and raw gauges           *)
    Uptime,      (* the stream of uptime_ms                                *)
    SendUptime,  (* cfg.enabled && cfg.groups.system                       *)
    Custom,      (* streams of applications, through the socket            *)
    Values,      (* values of a gauge; counters and the uptime follow the  *)
                 (* clock                                                  *)
    Window,      (* agg_duration, in clock steps; 0 for "none"             *)
    SaveEvery,   (* SEQ_SAVE_INTERVAL, in clock steps                      *)
    MaxStreams,  (* MAX_STREAMS                                            *)
    MaxPending,  (* MAX_PENDING                                            *)
    ChanCap,     (* capacity of the channel from the socket                *)
    QueueCap,    (* capacity of the MQTT client's request channel          *)
    MaxClock,    (* bound: the clock                                       *)
    MaxSamples,  (* bound: samples of applications                         *)
    MaxFaults,   (* bound: writes and reads of the file that fail          *)
    MaxCrashes   (* bound: ends of the process, by crash or by shutdown    *)

Streams == OsStreams \cup Custom \cup {Uptime}

ASSUME MetricsAssumption ==
    /\ IsFiniteSet(Streams)
    /\ RawStreams \subseteq OsStreams
    /\ Uptime \notin OsStreams \cup Custom
    /\ SendUptime \in BOOLEAN
    /\ Values \subseteq Nat
    /\ {Window, SaveEvery, MaxClock, MaxSamples, MaxFaults, MaxCrashes}
          \subseteq Nat
    /\ {MaxStreams, MaxPending, ChanCap, QueueCap} \subseteq Nat \ {0}

VARIABLES
    states,    (* Aggregator::states: stream -> its open window            *)
    seq,       (* Aggregator::seq: stream -> last number given out         *)
    seqFile,   (* metrics_seq.cbor                                         *)
    unsaved,   (* history: the last write of that file failed              *)
    pending,   (* readings that wait to be published                       *)
    pc,        (* idle (in the select), publish, save, stopped, down       *)
    pos,       (* the next of pending to publish                           *)
    dirty,     (* seq_dirty                                                *)
    lastSave,  (* last_seq_save                                            *)
    clock,
    nextTick,  (* when the ticker fires next                               *)
    chan,      (* samples received from applications                       *)
    queue,     (* requests the event loop has not sent yet                 *)
    connected, (* MqttPublisher::connected                                 *)
    loopAlive, (* the event loop has not seen the shutdown yet             *)
    samples, faults, crashes,
    accepted,  (* history: stream -> last number the client accepted from  *)
               (* this process, at first what it could read in its file    *)
    balance    (* history: count and sum of the samples taken in and       *)
               (* neither published nor discarded yet                      *)

aggVars   == <<states, seq>>
loopVars  == <<pending, pc, pos, dirty, lastSave, nextTick>>
fileVars  == <<seqFile, unsaved>>
linkVars  == <<queue, connected, loopAlive>>
appVars   == <<chan, samples>>
boundVars == <<clock, faults, crashes>>
histVars  == <<accepted, balance>>
vars      == <<aggVars, fileVars, loopVars, linkVars, appVars, boundVars, histVars>>

With(f, x, v) == [y \in DOMAIN f \cup {x} |-> IF y = x THEN v ELSE f[y]]

-----------------------------------------------------------------------------
(* The aggregator.  Its working state a is a record of the states, the     *)
(* numbers, the readings that became ready, and the samples it took in.    *)

Raw(s) == Window = 0 \/ s \in RawStreams

(* Number n of stream s for what window w holds.                           *)
Reading(s, n, w) == [stream |-> s, seq |-> n, count |-> w.count, sum |-> w.sum,
                     min |-> w.min, max |-> w.max]

(* StreamState::new                                                        *)
NewWindow(v, now) == [count |-> 1, sum |-> v, min |-> v, max |-> v, start |-> now]

(* A fault: min takes the latest value.                                    *)
UpdateLatest(w, v) ==
    [w EXCEPT !.count = @ + 1, !.sum = @ + v, !.min = v, !.max = Max({@, v})]

(* StreamState::update                                                     *)
Update(w, v) ==
    [w EXCEPT !.count = @ + 1, !.sum = @ + v, !.min = Min({@, v}), !.max = Max({@, v})]

LastNumber(numbers, s) == IF s \in DOMAIN numbers THEN numbers[s] ELSE 0

(* next_seq for a reading of s that becomes ready.                         *)
Emit(a, s, w) ==
    LET n == LastNumber(a.seq, s) + 1
    IN  [a EXCEPT !.seq = With(@, s, n), !.ready = Append(@, Reading(s, n, w))]

Take(a, v) == [a EXCEPT !.count = @ + 1, !.sum = @ + v]

(* One sample: raw at once, into its open window, or into a new one; over  *)
(* the limit of streams it is dropped.                                     *)
IngestSample(a, x) ==
    LET s == x.stream
        v == x.value
    IN  CASE Raw(s) -> Emit(Take(a, v), s, NewWindow(v, clock))
          [] ~Raw(s) /\ s \in DOMAIN a.states ->
               [Take(a, v) EXCEPT !.states[s] = Update(@, v)]
          [] ~Raw(s) /\ s \notin DOMAIN a.states
                /\ Cardinality(DOMAIN a.states) < MaxStreams ->
               [Take(a, v) EXCEPT !.states = With(@, s, NewWindow(v, clock))]
          [] OTHER -> a

Expired(a) ==
    {s \in DOMAIN a.states : Window > 0 /\ clock - a.states[s].start >= Window}

(* A fault: the window is reported and stays open.                         *)
FlushKeeping(a, s) == Emit(a, s, a.states[s])

(* A window that has elapsed is removed and reported.                      *)
FlushWindow(a, s) ==
    [Emit(a, s, a.states[s]) EXCEPT
        !.states = [t \in DOMAIN a.states \ {s} |-> a.states[t]]]

(* Aggregator::ingest: the samples in their order, then the windows that   *)
(* have elapsed, in the order of the hash map.                             *)
Ingest(batch) ==
    LET start == [states |-> states, seq |-> seq, ready |-> <<>>, count |-> 0, sum |-> 0]
        taken == FoldLeft(IngestSample, start, batch)
    IN  FoldLeft(FlushWindow, taken, SetToSeq(Expired(taken)))

-----------------------------------------------------------------------------
(* The task.                                                               *)

(* A fault: the newest readings are given up instead of the oldest.        *)
KeepOldest(readings) == SubSeq(readings, 1, Min({MaxPending, Len(readings)}))

(* A fault: the limit is passed by one.                                    *)
CapLate(readings) ==
    SubSeq(readings, Max({1, Len(readings) - MaxPending}), Len(readings))

(* pending keeps its MAX_PENDING newest readings.                          *)
CapPending(readings) ==
    SubSeq(readings, Max({1, Len(readings) - MaxPending + 1}), Len(readings))

(* Samples in the readings of a sequence, or in the windows of a function. *)
CountOf(f) == FoldFunction(+, 0, [x \in DOMAIN f |-> f[x].count])
SumOf(f)   == FoldFunction(+, 0, [x \in DOMAIN f |-> f[x].sum])

(* uptime_ms is never aggregated: a raw reading of its own on every tick.  *)
AddUptime(a) ==
    IF SendUptime THEN Emit(Take(a, clock), Uptime, NewWindow(clock, clock)) ELSE a

(* One tick: collect, drain the channel, aggregate, add the uptime, cap    *)
(* the pending readings, and publish them if the link is up.  There is no  *)
(* await before the publishing.                                            *)
Tick(values) ==
    LET os    == SetToSeq(OsStreams)
        batch == [i \in DOMAIN os |->
                    [stream |-> os[i],
                     value  |-> IF os[i] \in RawStreams THEN clock ELSE values[os[i]]]]
                    \o chan
        fed   == Ingest(batch)
        done  == AddUptime(fed)
        all   == pending \o done.ready
        kept  == CapPending(all)
    IN  /\ pc = "idle"
        /\ nextTick <= clock
        /\ nextTick' = clock + 1
        /\ chan' = <<>>
        /\ states' = done.states
        /\ seq' = done.seq
        /\ pending' = kept
        /\ pc' = IF kept # <<>> /\ connected THEN "publish" ELSE "idle"
        /\ pos' = 1
        /\ balance' = [count |-> balance.count + done.count
                                   - (CountOf(all) - CountOf(kept)),
                       sum   |-> balance.sum + done.sum - (SumOf(all) - SumOf(kept))]
        /\ UNCHANGED <<fileVars, dirty, lastSave, linkVars, samples, boundVars, accepted>>

(* publish_metrics hands over the next reading as soon as there is room.   *)
PublishReading ==
    /\ pc = "publish"
    /\ pos <= Len(pending)
    /\ loopAlive
    /\ Len(queue) < QueueCap
    /\ queue' = Append(queue, pending[pos])
    /\ pos' = pos + 1
    /\ accepted' = With(accepted, pending[pos].stream, pending[pos].seq)
    /\ UNCHANGED <<aggVars, fileVars, pending, pc, dirty, lastSave, nextTick, connected,
                   loopAlive, appVars, boundVars, balance>>

(* The request channel is closed once the event loop has stopped: the      *)
(* readings stay pending, also those that were already handed over.        *)
PublishFails ==
    /\ pc = "publish"
    /\ pos <= Len(pending)
    /\ ~loopAlive
    /\ pc' = "idle"
    /\ pos' = 1
    /\ UNCHANGED <<aggVars, fileVars, pending, dirty, lastSave, nextTick, linkVars,
                   appVars, boundVars, histVars>>

(* All are handed over; known says whether seq_dirty is set.               *)
PublishedLeaving(known) ==
    /\ pc = "publish"
    /\ pos > Len(pending)
    /\ pending' = <<>>
    /\ pos' = 1
    /\ dirty' = (dirty \/ known)
    /\ pc' = IF clock - lastSave >= SaveEvery THEN "save" ELSE "idle"
    /\ balance' = [count |-> balance.count - CountOf(pending),
                   sum   |-> balance.sum - SumOf(pending)]
    /\ UNCHANGED <<aggVars, fileVars, lastSave, nextTick, linkVars, appVars, boundVars,
                   accepted>>

(* A fault: seq_dirty is only set by a save.                               *)
PublishedClean == PublishedLeaving(FALSE)

Published == PublishedLeaving(TRUE)

(* save_seq: written aside and renamed, so it happens or does not.         *)
SaveSeq ==
    \/ seqFile' = seq /\ unsaved' = FALSE /\ UNCHANGED faults
    \/ faults < MaxFaults /\ faults' = faults + 1 /\ unsaved' = TRUE /\ UNCHANGED seqFile

(* At most once per interval; a write that fails counts as one that did    *)
(* not.                                                                    *)
PeriodicSave ==
    /\ pc = "save"
    /\ pc' = "idle"
    /\ SaveSeq
    /\ lastSave' = clock
    /\ dirty' = FALSE
    /\ UNCHANGED <<aggVars, pending, pos, nextTick, linkVars, appVars, clock, crashes,
                   histVars>>

(* The select sees the shutdown: the numbers are saved if they are dirty.  *)
Stop ==
    /\ pc = "idle"
    /\ ~loopAlive
    /\ pc' = "stopped"
    /\ IF dirty THEN SaveSeq ELSE UNCHANGED <<fileVars, faults>>
    /\ UNCHANGED <<aggVars, pending, pos, dirty, lastSave, nextTick, linkVars, appVars,
                   clock, crashes, histVars>>

-----------------------------------------------------------------------------
(* The socket, the client and the process.                                 *)

(* handle_connection: a sample enters the channel; when that is full it is *)
(* dropped and the connection closed, which no other task sees.            *)
Receive(s, v) ==
    /\ pc \notin {"stopped", "down"}
    /\ samples < MaxSamples
    /\ samples' = samples + 1
    /\ chan' = IF Len(chan) < ChanCap
               THEN Append(chan, [stream |-> s, value |-> v])
               ELSE chan
    /\ UNCHANGED <<aggVars, fileVars, loopVars, linkVars, boundVars, histVars>>

Connect ==
    /\ loopAlive
    /\ ~connected
    /\ connected' = TRUE
    /\ UNCHANGED <<aggVars, fileVars, loopVars, queue, loopAlive, appVars,
                   boundVars, histVars>>

(* The requests that wait are sent later, or go with the connection.       *)
Disconnect ==
    /\ loopAlive
    /\ connected
    /\ connected' = FALSE
    /\ queue' \in {queue, <<>>}
    /\ UNCHANGED <<aggVars, fileVars, loopVars, loopAlive, appVars, boundVars, histVars>>

Send ==
    /\ loopAlive
    /\ connected
    /\ queue # <<>>
    /\ queue' = Tail(queue)
    /\ UNCHANGED <<aggVars, fileVars, loopVars, connected, loopAlive, appVars,
                   boundVars, histVars>>

(* A shutdown signal ends the event loop; the flag keeps its value.        *)
LoopStop ==
    /\ pc # "down"
    /\ loopAlive
    /\ crashes < MaxCrashes
    /\ loopAlive' = FALSE
    /\ queue' = <<>>
    /\ UNCHANGED <<aggVars, fileVars, loopVars, connected, appVars, boundVars, histVars>>

(* The process ends: by a crash, or when the runtime drops the task at the *)
(* end of a shutdown.                                                      *)
Crash ==
    /\ pc # "down"
    /\ crashes < MaxCrashes
    /\ crashes' = crashes + 1
    /\ pc' = "down"
    /\ states' = << >> /\ seq' = << >> /\ pending' = <<>> /\ pos' = 1
    /\ dirty' = FALSE /\ lastSave' = 0 /\ nextTick' = 0
    /\ queue' = <<>> /\ connected' = FALSE /\ loopAlive' = FALSE
    /\ chan' = <<>>
    /\ accepted' = << >> /\ balance' = [count |-> 0, sum |-> 0]
    /\ unsaved' = FALSE
    /\ UNCHANGED <<seqFile, samples, clock, faults>>

(* A new process whose aggregator counts on from these numbers.            *)
StartFrom(numbers) ==
    /\ pc = "down"
    /\ pc' = "idle"
    /\ seq' = numbers
    /\ lastSave' = clock
    /\ nextTick' = clock
    /\ loopAlive' = TRUE
    /\ UNCHANGED <<states, fileVars, pending, pos, dirty, queue, connected,
                   appVars, clock, crashes, balance>>

(* A fault: the file is not loaded.                                        *)
StartAfresh == StartFrom(<< >>) /\ accepted' = seqFile /\ UNCHANGED faults

(* load_seq goes on without the entries that it cannot read: all of them   *)
(* when the file cannot be read or parsed.                                 *)
StartUnread ==
    /\ faults < MaxFaults
    /\ faults' = faults + 1
    /\ \E read \in SUBSET DOMAIN seqFile :
          LET numbers == [s \in read |-> seqFile[s]]
          IN  StartFrom(numbers) /\ accepted' = numbers

Start ==
    \/ StartFrom(seqFile) /\ accepted' = seqFile /\ UNCHANGED faults
    \/ StartUnread

TimePasses ==
    /\ clock < MaxClock
    /\ clock' = clock + 1
    /\ UNCHANGED <<aggVars, fileVars, loopVars, linkVars, appVars, faults, crashes,
                   histVars>>

-----------------------------------------------------------------------------
Init ==
    /\ states = << >> /\ seq = << >> /\ seqFile = << >> /\ unsaved = FALSE
    /\ pending = <<>> /\ pc = "down" /\ pos = 1
    /\ dirty = FALSE /\ lastSave = 0 /\ clock = 0 /\ nextTick = 0
    /\ queue = <<>> /\ connected = FALSE /\ loopAlive = FALSE
    /\ chan = <<>> /\ samples = 0 /\ faults = 0 /\ crashes = 0
    /\ accepted = << >> /\ balance = [count |-> 0, sum |-> 0]

Next ==
    \/ \E values \in [OsStreams \ RawStreams -> Values] : Tick(values)
    \/ PublishReading
    \/ PublishFails
    \/ Published
    \/ PeriodicSave
    \/ Stop
    \/ \E s \in Custom, v \in Values : Receive(s, v)
    \/ Connect
    \/ Disconnect
    \/ Send
    \/ LoopStop
    \/ Crash
    \/ Start
    \/ TimePasses

Spec == Init /\ [][Next]_vars

-----------------------------------------------------------------------------
(* Properties.                                                             *)

WindowTypeOK(w) == w.count > 0 /\ w.min \in Nat /\ w.max \in Nat /\ w.sum \in Nat

(* Types and capacities.                                                   *)
TypeOK ==
    /\ DOMAIN states \subseteq Streams \ RawStreams
    /\ Cardinality(DOMAIN states) <= MaxStreams
    /\ \A s \in DOMAIN states : WindowTypeOK(states[s]) /\ states[s].start <= clock
    /\ DOMAIN seq \subseteq Streams /\ DOMAIN seqFile \subseteq Streams
    /\ Len(pending) <= MaxPending
    /\ \A i \in DOMAIN pending : WindowTypeOK(pending[i])
    /\ pc \in {"idle", "publish", "save", "stopped", "down"}
    /\ pos \in 1..(MaxPending + 1)
    /\ {dirty, connected, loopAlive, unsaved} \subseteq BOOLEAN
    /\ Len(chan) <= ChanCap
    /\ Len(queue) <= QueueCap

(* aggregator.rs 103-172, mod.rs 173-180: every sample taken in is counted *)
(* in exactly one place, an open window or a pending reading, with its     *)
(* value, until its reading is published or given up: no window is         *)
(* reported twice, none is lost between two ticks.                         *)
SamplesConserved ==
    /\ balance.count = CountOf(pending) + CountOf(states)
    /\ balance.sum = SumOf(pending) + SumOf(states)

(* One of the samples was the smallest, and one the largest.               *)
Agrees(w) ==
    /\ w.min <= w.max
    /\ (w.count - 1) * w.min + w.max <= w.sum
    /\ w.sum <= (w.count - 1) * w.max + w.min

(* aggregator.rs 51-61: count, sum, min and max of a window and of the     *)
(* reading made from it agree with each other.                             *)
WindowsAgree ==
    /\ \A s \in DOMAIN states : Agrees(states[s])
    /\ \A i \in DOMAIN pending : Agrees(pending[i])

(* The numbers of stream s behind place i of a sequence of readings.       *)
Behind(readings, i, s) ==
    {readings[j].seq : j \in {k \in i + 1 .. Len(readings) : readings[k].stream = s}}

(* mod.rs 173-180, aggregator.rs 195-199: the pending readings of a stream *)
(* are its most recent ones, in order and without a gap, also after an     *)
(* overflow: behind each wait exactly those numbered after it.  What a     *)
(* long disconnection loses is the oldest.                                 *)
PendingIsNewest ==
    \A i \in DOMAIN pending :
       LET r    == pending[i]
           last == LastNumber(seq, r.stream)
       IN  r.seq <= last /\ Behind(pending, i, r.stream) = r.seq + 1 .. last

(* aggregator.rs 9-10: the number of every reading handed to the client is *)
(* above the number of its stream that this process handed over before it, *)
(* and above the one it read in the file when it started.  A restart goes  *)
(* on from what was saved and can be read: numbers handed over after the   *)
(* last save are given out again.                                          *)
NumbersGrow ==
    [][Len(queue') > Len(queue) =>
          LET r == Last(queue')
          IN  r.seq > LastNumber(accepted, r.stream)]_vars

(* mod.rs 190-201: while the event loop lives and unless the last write    *)
(* failed, numbers that are not marked dirty are all on disk.              *)
CleanMeansSaved ==
    pc = "idle" /\ loopAlive /\ ~unsaved /\ ~dirty =>
       \A s \in Streams : LastNumber(accepted, s) <= LastNumber(seqFile, s)
=============================================================================
