----------------------------- MODULE Crashdump -----------------------------
(***************************************************************************)
(* Upload of kernel crash dumps (src/src/sources/crashdump.rs).  The       *)
(* kernel leaves records in pstore; the task scans them, hands every       *)
(* record chunk by chunk to the MQTT client, notes the delivery in a state *)
(* file and only then removes the record.  pstore is the durable buffer:   *)
(* what survives a restart is pstore and the state file, never the task.   *)
(*                                                                         *)
(* A dump is numbered in the order of the panics.  Its record sits in a    *)
(* slot (its file name) with a modification time, and the coreDumpId is a  *)
(* hash of the two: the model takes the pair itself, so it excludes hash   *)
(* collisions, but not that two dumps share a pair.                        *)
(***************************************************************************)
EXTENDS Naturals, Sequences, FiniteSets

CONSTANTS
    Slots,       (* file names the configured kinds match                  *)
    None,        (* no slot                                                *)
    DeleteAfter, (* cfg.delete_after_capture                               *)
    Retention,   (* STATE_RETENTION_SECS                                   *)
    QueueCap,    (* capacity of the MQTT client's request channel          *)
    MaxDumps,    (* bound: dumps the kernel writes                         *)
    Sizes,       (* bound: chunks of a dump; 0 chunks is an empty record   *)
    MaxClock,    (* bound: the clock                                       *)
    MaxFaults,   (* bound: file-system calls that fail                     *)
    MaxCrashes,  (* bound: restarts of the daemon                          *)
    MaxDrops     (* bound: losses of the broker connection                 *)

ASSUME CrashdumpAssumption ==
    /\ IsFiniteSet(Slots)
    /\ None \notin Slots
    /\ DeleteAfter \in BOOLEAN
    /\ Retention \in Nat
    /\ QueueCap \in Nat \ {0}
    /\ {MaxDumps, MaxClock, MaxFaults, MaxCrashes, MaxDrops} \subseteq Nat
    /\ Sizes \subseteq Nat

VARIABLES
    pstore,     (* slot -> the dump whose record it holds                  *)
    written,    (* every dump so far: its coreDumpId and number of chunks  *)
    clock,      (* wall clock                                              *)
    stateFile,  (* crashdump_state.json: id -> time of delivery            *)
    unread,     (* history: the process could not read that file, and has  *)
                (* not written it since                                    *)
    delivered,  (* the State of the running task                           *)
    pc,         (* idle (between scans), scan, publish, save, delete,      *)
                (* stopped, or down when there is no process               *)
    todo,       (* slots this scan has still to look at                    *)
    online,     (* is_connected() as sampled when the scan began           *)
    deferred,   (* the scan passed over a dump it could not send           *)
    soon,       (* the last scan ended with RetrySoon                      *)
    slot,       (* the record being uploaded, or None                      *)
    chunk,      (* its next chunk                                          *)
    queue,      (* requests the event loop has not sent yet                *)
    connected,  (* MqttPublisher::connected                                *)
    loopAlive,  (* the event loop has not seen the shutdown yet            *)
    faults, crashes, drops,
    losses,     (* history: connections lost, or ended with the process    *)
    arrived,    (* history: what the broker receives, in order: a dump,    *)
                (* its chunk, and the connection it came on                *)
    uploads,    (* history: dump -> complete hand-overs to the client      *)
    owed        (* history: ids the last scan listed and could read        *)

kernelVars == <<pstore, written, clock>>
localVars  == <<todo, online, deferred, slot, chunk>>
taskVars   == <<delivered, pc, soon, localVars>>
linkVars   == <<queue, connected, loopAlive, drops, losses, arrived>>
fileVars   == <<stateFile, unread>>
histVars   == <<uploads, owed>>
boundVars  == <<faults, crashes>>
vars       == <<kernelVars, fileVars, taskVars, linkVars, histVars, boundVars>>

-----------------------------------------------------------------------------
(* The records and the delivered state.                                    *)

Id(s)   == written[pstore[s]].id
Size(s) == written[pstore[s]].chunks

With(f, x, v) == [y \in DOMAIN f \cup {x} |-> IF y = x THEN v ELSE f[y]]
Without(f, x) == [y \in DOMAIN f \ {x} |-> f[y]]

(* A fault: the retention compared the wrong way round.                    *)
PruneFresh(state, now) ==
    [id \in {i \in DOMAIN state : state[i] + Retention < now} |-> state[id]]

(* Deliveries no older than the retention are kept.                        *)
Prune(state, now) ==
    [id \in {i \in DOMAIN state : state[i] + Retention >= now} |-> state[id]]

Contains(s) == Id(s) \in DOMAIN delivered

(* Under insert a second delivery of an id keeps the first time.           *)
Insert(state, id, now) ==
    IF id \in DOMAIN state THEN state
    ELSE With(state, id, now)

(* maybe_delete: a failure is only logged.                                 *)
MaybeDelete(s) ==
    \/ /\ DeleteAfter
       /\ pstore' = Without(pstore, s)
       /\ UNCHANGED faults
    \/ /\ DeleteAfter
       /\ faults < MaxFaults
       /\ faults' = faults + 1
       /\ UNCHANGED pstore
    \/ /\ ~DeleteAfter
       /\ UNCHANGED <<pstore, faults>>

-----------------------------------------------------------------------------
(* One scan.                                                               *)

(* run enters the loop, or wakes from its sleep; the connection is sampled *)
(* once, before the directories are read.  A directory or an entry that    *)
(* cannot be read is passed over.                                          *)
StartScan ==
    /\ pc = "idle"
    /\ pc' = "scan"
    /\ online' = connected
    /\ \/ todo' = DOMAIN pstore /\ UNCHANGED faults
       \/ /\ faults < MaxFaults
          /\ faults' = faults + 1
          /\ todo' \in SUBSET DOMAIN pstore
    /\ owed' = {Id(s) : s \in todo'}
    /\ UNCHANGED <<kernelVars, fileVars, delivered, soon, deferred, slot, chunk,
                   linkVars, uploads, crashes>>

(* scan_and_publish comes to the record in slot s.                         *)
Examine(s) ==
    /\ pc = "scan"
    /\ s \in todo
    /\ todo' = todo \ {s}
    /\ UNCHANGED <<written, clock, fileVars, delivered, soon, online, linkVars,
                   uploads, crashes>>

(* A fault: a delivered record is passed over and never cleared.           *)
PassOver(s) ==
    /\ Examine(s)
    /\ Contains(s)
    /\ UNCHANGED <<pstore, pc, deferred, slot, chunk, owed, faults>>

(* Already delivered: make sure the record is cleared.                     *)
ClearDelivered(s) ==
    /\ Examine(s)
    /\ Contains(s)
    /\ MaybeDelete(s)
    /\ UNCHANGED <<pc, deferred, slot, chunk, owed>>

(* The link was down when the scan began.                                  *)
Defer(s) ==
    /\ Examine(s)
    /\ ~Contains(s)
    /\ ~online
    /\ deferred' = TRUE
    /\ UNCHANGED <<pstore, pc, slot, chunk, owed, faults>>

(* metadata fails, whatever is known of the record, or read_capped does,   *)
(* or the record is empty: it is skipped and does not count as waiting.    *)
SkipUnreadable(s) ==
    /\ Examine(s)
    /\ \/ faults < MaxFaults /\ faults' = faults + 1
       \/ ~Contains(s) /\ online /\ Size(s) = 0 /\ UNCHANGED faults
    /\ owed' = owed \ {Id(s)}
    /\ UNCHANGED <<pstore, pc, deferred, slot, chunk>>

BeginUpload(s) ==
    /\ Examine(s)
    /\ ~Contains(s)
    /\ online
    /\ Size(s) > 0
    /\ pc' = "publish"
    /\ slot' = s
    /\ chunk' = 1
    /\ UNCHANGED <<pstore, deferred, owed, faults>>

(* publish_payload has accepted, so that the requests are q; after the     *)
(* last chunk the state in memory is known, without a further await.       *)
Accepted(q, last, known) ==
    /\ pc = "publish"
    /\ loopAlive
    /\ queue' = q
    /\ pc' = IF last THEN "save" ELSE pc
    /\ chunk' = IF last THEN chunk ELSE chunk + 1
    /\ delivered' = IF last THEN known ELSE delivered
    /\ uploads' = IF last THEN [uploads EXCEPT ![pstore[slot]] = @ + 1] ELSE uploads
    /\ UNCHANGED <<kernelVars, fileVars, soon, todo, online, deferred, slot,
                   connected, loopAlive, drops, losses, arrived, owed, boundVars>>

LastChunk == chunk = Size(slot)
WithChunk == Append(queue, <<pstore[slot], chunk>>)
WithDump  == Insert(delivered, Id(slot), clock)

(* A fault: a full request channel loses the chunk instead of delaying it. *)
PublishNoWait ==
    Accepted(IF Len(queue) < QueueCap THEN WithChunk ELSE queue, LastChunk, WithDump)

(* A fault: the ordinals run one past the last chunk.                      *)
PublishOnePast ==
    Len(queue) < QueueCap /\ Accepted(WithChunk, chunk > Size(slot), WithDump)

(* A fault: the delivery is not remembered by the running task.            *)
PublishForgetting ==
    Len(queue) < QueueCap /\ Accepted(WithChunk, LastChunk, delivered)

(* publish_core_dump hands the next chunk over as soon as the request      *)
(* channel has room.                                                       *)
PublishChunk ==
    Len(queue) < QueueCap /\ Accepted(WithChunk, LastChunk, WithDump)

(* The scan returns; its locals go out of scope.                           *)
Return(retrySoon) ==
    /\ pc' = "idle"
    /\ soon' = retrySoon
    /\ todo' = {}
    /\ online' = FALSE
    /\ deferred' = FALSE
    /\ slot' = None
    /\ chunk' = 1
    /\ UNCHANGED <<kernelVars, fileVars, delivered, linkVars, histVars, boundVars>>

(* A fault: a failed upload goes on to remove the record.                  *)
UploadFailsDelivered ==
    /\ pc = "publish"
    /\ ~loopAlive
    /\ pc' = "delete"
    /\ UNCHANGED <<kernelVars, fileVars, delivered, soon, localVars, linkVars,
                   histVars, boundVars>>

(* A fault: a failed upload ends the scan as if nothing were waiting.      *)
UploadFailsIdle == pc = "publish" /\ ~loopAlive /\ Return(FALSE)

(* The request channel is closed once the event loop has stopped.  The     *)
(* scan ends at once, with the rest of the records unseen.                 *)
UploadFails == pc = "publish" /\ ~loopAlive /\ Return(TRUE)

(* State::save writes a temporary file and renames it: seen from a         *)
(* restart it happens at the rename or not at all.  A failure is logged.   *)
Save ==
    /\ pc = "save"
    /\ pc' = "delete"
    /\ \/ stateFile' = delivered /\ unread' = FALSE /\ UNCHANGED faults
       \/ faults < MaxFaults /\ faults' = faults + 1 /\ UNCHANGED fileVars
    /\ UNCHANGED <<kernelVars, delivered, soon, localVars, linkVars, histVars,
                   crashes>>

ClearUploaded ==
    /\ pc = "delete"
    /\ pc' = "scan"
    /\ MaybeDelete(slot)
    /\ slot' = None
    /\ chunk' = 1
    /\ UNCHANGED <<written, clock, fileVars, delivered, soon, todo, online, deferred,
                   linkVars, histVars, crashes>>

EndScan == pc = "scan" /\ todo = {} /\ Return(deferred)

-----------------------------------------------------------------------------
(* The process.                                                            *)

(* At QoS 0 a connection takes with it what was written on it last.        *)
LinkLost ==
    /\ losses' = losses + 1
    /\ \E k \in 0 .. Len(arrived) :
          /\ \A j \in k + 1 .. Len(arrived) : arrived[j][3] = losses
          /\ arrived' = SubSeq(arrived, 1, k)

(* The daemon dies: killed, powered off by the next panic, or dropped by   *)
(* the runtime at the end of a shutdown.  What the client had not sent is  *)
(* gone with it.                                                           *)
Crash ==
    /\ pc # "down"
    /\ crashes < MaxCrashes
    /\ crashes' = crashes + 1
    /\ pc' = "down"
    /\ LinkLost
    /\ queue' = <<>>
    /\ connected' = FALSE
    /\ loopAlive' = FALSE
    /\ delivered' = << >>
    /\ soon' = FALSE
    /\ todo' = {} /\ online' = FALSE /\ deferred' = FALSE /\ slot' = None /\ chunk' = 1
    /\ owed' = {} /\ unread' = FALSE
    /\ UNCHANGED <<kernelVars, stateFile, drops, uploads, faults>>

(* A new process knows the deliveries in state, and scans immediately.     *)
Begin(state) ==
    /\ pc = "down"
    /\ pc' = "idle"
    /\ delivered' = state
    /\ soon' = TRUE
    /\ loopAlive' = TRUE
    /\ UNCHANGED <<kernelVars, stateFile, localVars, queue, connected, drops, losses,
                   arrived, histVars, crashes>>

(* State::load cannot read the file, or cannot parse it: a fresh start.    *)
StartUnread ==
    /\ faults < MaxFaults
    /\ faults' = faults + 1
    /\ unread' = TRUE
    /\ Begin(<< >>)

(* run loads the state and prunes it, this once.                           *)
Start ==
    \/ Begin(Prune(stateFile, clock)) /\ unread' = FALSE /\ UNCHANGED faults
    \/ StartUnread

(* A shutdown signal ends the event loop, at the latest when the runtime   *)
(* drops its task, and the flag keeps its value; the scan in progress is   *)
(* not cancelled before that.                                              *)
LoopStop ==
    /\ pc # "down"
    /\ loopAlive
    /\ crashes < MaxCrashes
    /\ loopAlive' = FALSE
    /\ LinkLost
    /\ queue' = <<>>
    /\ UNCHANGED <<kernelVars, fileVars, taskVars, connected, drops, histVars, boundVars>>

(* run sees the shutdown in its sleep and returns.                         *)
Stop ==
    /\ pc = "idle"
    /\ ~loopAlive
    /\ pc' = "stopped"
    /\ UNCHANGED <<kernelVars, fileVars, delivered, soon, localVars, linkVars,
                   histVars, boundVars>>

(* The client reconnects on its own; a lost connection clears the flag.    *)
Connect ==
    /\ loopAlive
    /\ ~connected
    /\ connected' = TRUE
    /\ UNCHANGED <<kernelVars, fileVars, taskVars, queue, loopAlive, drops, losses,
                   arrived, histVars, boundVars>>

(* The requests that wait are sent later, or go with the connection.       *)
Disconnect ==
    /\ loopAlive
    /\ connected
    /\ drops < MaxDrops
    /\ drops' = drops + 1
    /\ connected' = FALSE
    /\ LinkLost
    /\ queue' \in {queue, <<>>}
    /\ UNCHANGED <<kernelVars, fileVars, taskVars, loopAlive, histVars, boundVars>>

(* The event loop writes the oldest request to the connection.             *)
Send ==
    /\ loopAlive
    /\ connected
    /\ queue # <<>>
    /\ queue' = Tail(queue)
    /\ arrived' = Append(arrived, <<Head(queue)[1], Head(queue)[2], losses>>)
    /\ UNCHANGED <<kernelVars, fileVars, taskVars, connected, loopAlive, drops, losses,
                   histVars, boundVars>>

(* The kernel: a record of n chunks appears in a free slot.  The clock has *)
(* moved on since that slot was last written.                              *)
Panic(s, n) ==
    /\ s \notin DOMAIN pstore
    /\ Cardinality(DOMAIN written) < MaxDumps
    /\ \A d \in DOMAIN written : written[d].id # <<s, clock>>
    /\ LET d == Cardinality(DOMAIN written) + 1
       IN  /\ pstore' = With(pstore, s, d)
           /\ written' = With(written, d, [id |-> <<s, clock>>, chunks |-> n])
           /\ uploads' = With(uploads, d, 0)
    /\ UNCHANGED <<clock, fileVars, taskVars, linkVars, owed, boundVars>>

TimePasses ==
    /\ clock < MaxClock
    /\ clock' = clock + 1
    /\ UNCHANGED <<pstore, written, fileVars, taskVars, linkVars, histVars,
                   boundVars>>

-----------------------------------------------------------------------------
Init ==
    /\ pstore = << >> /\ written = << >> /\ clock = 0
    /\ stateFile = << >> /\ unread = FALSE /\ delivered = << >>
    /\ pc = "down" /\ todo = {} /\ online = FALSE /\ deferred = FALSE
    /\ soon = FALSE /\ slot = None /\ chunk = 1
    /\ queue = <<>> /\ connected = FALSE /\ loopAlive = FALSE /\ drops = 0
    /\ losses = 0 /\ arrived = <<>> /\ uploads = << >> /\ owed = {}
    /\ faults = 0 /\ crashes = 0

Scan ==
    \/ StartScan
    \/ \E s \in Slots : \/ ClearDelivered(s)
                        \/ Defer(s)
                        \/ SkipUnreadable(s)
                        \/ BeginUpload(s)
    \/ PublishChunk
    \/ UploadFails
    \/ Save
    \/ ClearUploaded
    \/ EndScan

Next ==
    \/ Scan
    \/ Start
    \/ Crash
    \/ LoopStop
    \/ Stop
    \/ Connect
    \/ Disconnect
    \/ Send
    \/ \E s \in Slots, n \in Sizes : Panic(s, n)
    \/ TimePasses

Spec == Init /\ [][Next]_vars

(* The tasks of a running daemon are polled.  Nothing is assumed of the    *)
(* connection, or that a daemon that ended is started again.               *)
FairSpec == Spec /\ WF_vars(Scan) /\ WF_vars(Send)

-----------------------------------------------------------------------------
(* Properties.                                                             *)

(* Types, and the shape of the slots: no dump is in two of them.           *)
TypeOK ==
    /\ DOMAIN pstore \subseteq Slots
    /\ \A s, t \in DOMAIN pstore : pstore[s] = pstore[t] => s = t
    /\ \A s \in DOMAIN pstore : pstore[s] \in DOMAIN written
    /\ \A d \in DOMAIN written : written[d] \in [id : Slots \X (0..MaxClock),
                                                 chunks : Sizes]
    /\ clock \in 0..MaxClock
    /\ pc \in {"idle", "scan", "publish", "save", "delete", "stopped", "down"}
    /\ todo \subseteq Slots
    /\ slot \in Slots \cup {None}
    /\ {online, deferred, soon, connected, loopAlive, unread} \subseteq BOOLEAN
    /\ \A id \in DOMAIN delivered : delivered[id] \in 0..clock
    /\ \A id \in DOMAIN stateFile : stateFile[id] \in 0..clock
    /\ pc \in {"publish", "save", "delete"} =>
          slot \in DOMAIN pstore /\ chunk \in 1..Size(slot)
    /\ Len(queue) <= QueueCap
    /\ DOMAIN uploads = DOMAIN written

InPstore(d) == \E s \in DOMAIN pstore : pstore[s] = d

Arrived(c) == \E k \in DOMAIN arrived : arrived[k][1] = c[1] /\ arrived[k][2] = c[2]
Queued(c)  == \E k \in DOMAIN queue : queue[k] = c

(* crashdump.rs 14-15: a record is removed only when the client accepted   *)
(* every chunk of the dump it holds, whatever failed or died in between;   *)
(* and as long as no connection and no process has ended, what the client  *)
(* accepted arrives or is still queued.                                    *)
DeletedOnlyAccepted ==
    \A d \in DOMAIN written :
       \/ InPstore(d)
       \/ /\ uploads[d] > 0
          /\ losses = 0 =>
                \A i \in 1..written[d].chunks : Arrived(<<d, i>>) \/ Queued(<<d, i>>)

(* A process hands a dump over at most once, however often the removal of  *)
(* its record or the write of the state file fails: further hand-overs     *)
(* need a restart each (crashdump.rs 145-149, 175-181).                    *)
SentOncePerLife == \A d \in DOMAIN written : uploads[d] <= 1 + crashes

(* crashdump.rs 15-16, 175-176: an id the state file holds is not sent     *)
(* again within the retention, across restarts too, by a process that has  *)
(* read the file when it started or has written it since.                  *)
NoFreshResend ==
    [][\A d \in DOMAIN written :
         LET id == written[d].id
         IN  uploads'[d] > uploads[d] =>
               unread \/ ~(id \in DOMAIN stateFile /\ stateFile[id] + Retention >= clock)]_vars

(* The first chunk to arrive after a connection was lost.                  *)
FirstOnLink(k) == arrived[k][3] > 0 /\ (k = 1 \/ arrived[k - 1][3] < arrived[k][3])

(* publish_core_dump 210-214: whenever isLastChunk reaches the broker, the *)
(* dump did, in order and in one piece, although uploads are cut short by  *)
(* crashes and start again from the first chunk: from its first chunk on,  *)
(* or from the first on this connection when one was lost in between.      *)
LastChunkMeansWhole ==
    \A k \in DOMAIN arrived :
       LET d == arrived[k][1]
           n == written[d].chunks
       IN  arrived[k][2] = n =>
             \E a \in 1..k :
                /\ arrived[a][2] = 1 \/ FirstOnLink(a)
                /\ \A x \in a..k : arrived[x] = <<d, n - (k - x), arrived[k][3]>>

(* crashdump.rs 49-53: the task sleeps for the full poll interval only     *)
(* when no readable dump the scan listed is waiting to be sent.            *)
PromptRetry ==
    pc = "idle" /\ ~soon =>
       \A s \in DOMAIN pstore :
          Id(s) \in owed => Id(s) \in DOMAIN delivered

(* When the connection stays up in the end, every dump is delivered and    *)
(* its record removed, whatever failed before: empty records are all that  *)
(* pstore still holds.                                                     *)
EventuallyCleared ==
    DeleteAfter /\ <>[](connected /\ loopAlive) =>
       <>[](\A s \in DOMAIN pstore : Size(s) = 0)
=============================================================================
