------------------------- MODULE Crashdump_proofs -------------------------
(***************************************************************************)
(* The upload of crash dumps, for every number of slots, dumps, chunks,    *)
(* failures and restarts, and every retention: the invariants that         *)
(* Crashdump states, and that a fresh delivery is not repeated.            *)
(***************************************************************************)
EXTENDS Crashdump, FiniteSetTheorems, SequenceTheorems, TLAPS

Chunks    == Nat \X Nat
Arrivals  == Nat \X Nat \X Nat
Uploading == pc \in {"publish", "save", "delete"}

(* What is behind TypeOK: the dumps are numbered without a gap and have an *)
(* id each, and everything in the channel is a chunk.                      *)
Numbered ==
    /\ \E n \in Nat : DOMAIN written = 1 .. n
    /\ \A d, e \in DOMAIN written : written[d].id = written[e].id => d = e
    /\ \A d \in DOMAIN written : uploads[d] \in Nat
    /\ queue \in Seq(Chunks) /\ arrived \in Seq(Arrivals)
    /\ crashes \in Nat /\ faults \in Nat /\ losses \in Nat

(* What a scan has still to look at is there.                              *)
ScanInv ==
    /\ todo \subseteq DOMAIN pstore
    /\ Uploading => slot \notin todo

(* What the task knows of the records.                                     *)
Known ==
    /\ pc = "down" => delivered = << >> /\ ~loopAlive
    /\ pc = "publish" => ~Contains(slot)
    /\ pc \in {"save", "delete"} => Contains(slot)
    /\ \A id \in DOMAIN delivered \cup DOMAIN stateFile :
          \E d \in DOMAIN written : written[d].id = id /\ uploads[d] > 0
    /\ owed \subseteq {written[d].id : d \in DOMAIN written}

(* A hand-over needs a process that does not know of an earlier one.       *)
UploadsInv ==
    \A d \in DOMAIN written :
       uploads[d] <= crashes + (IF written[d].id \in DOMAIN delivered THEN 1 ELSE 0)

(* A running task that has read the state file, or written it, knows at    *)
(* least what the file has.                                                *)
FreshKnown ==
    pc # "down" /\ ~unread =>
       \A id \in DOMAIN stateFile : stateFile[id] + Retention >= clock => id \in DOMAIN delivered

(* Chunk c is the one after b.                                             *)
Follows(c, b) == c[1] = b[1] /\ c[2] = b[2] + 1

First(f, k) == f[k][3] > 0 /\ (k = 1 \/ f[k - 1][3] < f[k][3])

(* What came in one piece before the k-th of the arrivals f, and with it.  *)
Run(f, k) ==
    \E a \in 1 .. k :
       /\ f[a][2] = 1 \/ First(f, a)
       /\ \A x \in a .. k : f[x] = <<f[k][1], f[k][2] - (k - x), f[k][3]>>

InOnePiece == \A k \in 1 .. Len(arrived) : Run(arrived, k)

(* Nothing has arrived since the last connection was lost.                 *)
NewLink == losses > 0 /\ \A k \in 1 .. Len(arrived) : arrived[k][3] < losses

(* A chunk that may be the next to arrive.                                 *)
MayArrive(c) ==
    \/ c[2] = 1
    \/ NewLink
    \/ /\ arrived # <<>>
       /\ arrived[Len(arrived)][3] = losses
       /\ Follows(c, arrived[Len(arrived)])

QueueJoined == \A k \in 2 .. Len(queue) : queue[k][2] = 1 \/ Follows(queue[k], queue[k - 1])

(* The chunk that is handed over next comes after the last one that was,   *)
(* wherever that is.                                                       *)
NextJoins ==
    pc = "publish" /\ loopAlive /\ chunk > 1 =>
       IF queue = <<>> THEN MayArrive(<<pstore[slot], chunk>>)
       ELSE Follows(<<pstore[slot], chunk>>, queue[Len(queue)])

FlowInv ==
    /\ InOnePiece
    /\ \A k \in 1 .. Len(arrived) : arrived[k][3] <= losses
    /\ QueueJoined
    /\ queue # <<>> => MayArrive(queue[1])
    /\ NextJoins

(* A record that is gone has been handed over.                             *)
AcceptedInv == \A d \in DOMAIN written : InPstore(d) \/ uploads[d] > 0

(* The first n chunks of d have arrived or are queued.                     *)
Holds(d, n) == \A i \in 1 .. n : Arrived(<<d, i>>) \/ Queued(<<d, i>>)

(* Nothing the client accepted is lost while no connection or process is.  *)
OnItsWay ==
    /\ crashes <= losses
    /\ losses = 0 =>
       /\ \A d \in DOMAIN written : uploads[d] > 0 => Holds(d, written[d].chunks)
       /\ pc = "publish" => Holds(pstore[slot], chunk - 1)

(* What the scan owes is still to be looked at, deferred, or delivered.    *)
OwedInv ==
    /\ PromptRetry
    /\ pc = "scan" \/ Uploading =>
          \/ deferred
          \/ \A s \in DOMAIN pstore :
                \/ Id(s) \notin owed
                \/ s \in todo
                \/ Contains(s)
                \/ pc = "publish" /\ s = slot

CInv == /\ TypeOK /\ Numbered /\ ScanInv /\ Known /\ UploadsInv /\ FreshKnown /\ FlowInv
        /\ AcceptedInv /\ OnItsWay /\ OwedInv
-----------------------------------------------------------------------------
(* Functions with one element more or less.                                *)

LEMMA WithFacts ==
    ASSUME NEW f, NEW x, NEW v
    PROVE  /\ DOMAIN With(f, x, v) = DOMAIN f \cup {x}
           /\ With(f, x, v)[x] = v
           /\ \A y \in DOMAIN f : y # x => With(f, x, v)[y] = f[y]
BY DEF With

(* A record that is cleared, or not: the others stay.                      *)
LEMMA ClearFacts ==
    ASSUME NEW s, MaybeDelete(s), faults \in Nat
    PROVE  /\ DOMAIN pstore \ {s} \subseteq DOMAIN pstore'
           /\ DOMAIN pstore' \subseteq DOMAIN pstore
           /\ \A t \in DOMAIN pstore' : pstore'[t] = pstore[t]
           /\ faults' \in Nat
BY DEF MaybeDelete, Without

(* A panic writes the next dump into a free slot, under a new id.          *)
Appeared(s, d, n) ==
    /\ d \in Nat /\ d > 0 /\ d \notin DOMAIN written
    /\ DOMAIN written' = 1 .. d /\ DOMAIN written' = DOMAIN written \cup {d}
    /\ DOMAIN uploads' = DOMAIN uploads \cup {d} /\ uploads'[d] = 0
    /\ written'[d] = [id |-> <<s, clock>>, chunks |-> n]
    /\ \A e \in DOMAIN written :
          written'[e] = written[e] /\ uploads'[e] = uploads[e] /\ written[e].id # <<s, clock>>
    /\ s \notin DOMAIN pstore
    /\ DOMAIN pstore' = DOMAIN pstore \cup {s} /\ pstore'[s] = d
    /\ \A t \in DOMAIN pstore : pstore'[t] = pstore[t]

LEMMA PanicFacts ==
    ASSUME TypeOK, Numbered, NEW s \in Slots, NEW n \in Sizes, Panic(s, n)
    PROVE  \E d : Appeared(s, d, n)
<1>1. PICK m \in Nat : DOMAIN written = 1 .. m
  BY DEF Numbered
<1>2. Cardinality(DOMAIN written) = m
  BY <1>1, FS_Interval
<1> DEFINE d == m + 1
<1>3. d \in Nat /\ d > 0 /\ d \notin DOMAIN written /\ DOMAIN written \cup {d} = 1 .. d
  BY <1>1
<1>4. /\ pstore' = With(pstore, s, d)
      /\ written' = With(written, d, [id |-> <<s, clock>>, chunks |-> n])
      /\ uploads' = With(uploads, d, 0)
      /\ s \notin DOMAIN pstore
      /\ \A e \in DOMAIN written : written[e].id # <<s, clock>>
  BY <1>2 DEF Panic
<1> HIDE DEF d
<1>5. DOMAIN uploads = DOMAIN written
  BY DEF TypeOK
<1>6. /\ DOMAIN written' = DOMAIN written \cup {d}
      /\ written'[d] = [id |-> <<s, clock>>, chunks |-> n]
      /\ \A e \in DOMAIN written : written'[e] = written[e]
  BY <1>3, <1>4 DEF With
<1>7. /\ DOMAIN uploads' = DOMAIN uploads \cup {d} /\ uploads'[d] = 0
      /\ \A e \in DOMAIN written : uploads'[e] = uploads[e]
  BY <1>3, <1>4, <1>5 DEF With
<1>8. /\ s \notin DOMAIN pstore
      /\ DOMAIN pstore' = DOMAIN pstore \cup {s} /\ pstore'[s] = d
      /\ \A t \in DOMAIN pstore : pstore'[t] = pstore[t]
  BY <1>4 DEF With
<1> QED
  BY <1>3, <1>4, <1>6, <1>7, <1>8 DEF Appeared

(* The steps that leave the records alone, those that may clear one, and   *)
(* the panic that adds one.                                                *)
Calm == \/ StartScan \/ PublishChunk \/ UploadFails \/ Save \/ EndScan
        \/ Start \/ Crash \/ LoopStop \/ Stop \/ Connect \/ Disconnect \/ Send
        \/ TimePasses
        \/ UNCHANGED vars
        \/ \E s \in Slots : Defer(s) \/ SkipUnreadable(s) \/ BeginUpload(s)

Clearing == ClearUploaded \/ \E s \in Slots : ClearDelivered(s)

LEMMA Steps ==
    ASSUME [Next]_vars
    PROVE  Calm \/ Clearing \/ \E s \in Slots, n \in Sizes : Panic(s, n)
BY DEF Next, Scan, Calm, Clearing

LEMMA CalmRecords ==
    ASSUME Calm
    PROVE  UNCHANGED <<pstore, written>>
BY DEF Calm, StartScan, PublishChunk, Accepted, UploadFails, Return, Save, EndScan, Start, StartUnread, Begin,
       Crash, LoopStop, Stop, Connect, Disconnect, Send, TimePasses, Defer, SkipUnreadable,
       BeginUpload, Examine, kernelVars, vars

-----------------------------------------------------------------------------
(* Types.                                                                  *)

LEMMA InitInv == Init => CInv
<1> SUFFICES ASSUME Init PROVE CInv
  OBVIOUS
<1> USE DEF Init
<1>1. /\ DOMAIN pstore = {} /\ DOMAIN written = {} /\ DOMAIN stateFile = {}
      /\ DOMAIN delivered = {} /\ DOMAIN uploads = {}
  OBVIOUS
<1>2. /\ queue \in Seq(Chunks) /\ arrived \in Seq(Arrivals)
      /\ Len(queue) = 0 /\ Len(arrived) = 0
  OBVIOUS
<1>3. TypeOK
  <2>1. {online, deferred, soon, connected, loopAlive, unread} \subseteq BOOLEAN
    OBVIOUS
  <2>2. clock \in 0 .. MaxClock /\ Len(queue) <= QueueCap
    BY <1>2, CrashdumpAssumption
  <2> QED
    BY <1>1, <2>1, <2>2 DEF TypeOK
<1>4. Numbered
  <2>1. DOMAIN written = 1 .. 0
    BY <1>1
  <2> QED
    BY <1>1, <1>2, <2>1 DEF Numbered
<1>5. ScanInv /\ Known /\ UploadsInv /\ FreshKnown
  BY <1>1 DEF ScanInv, Uploading, Known, UploadsInv, FreshKnown
<1>6. FlowInv /\ AcceptedInv /\ OnItsWay /\ OwedInv
  <2>1. FlowInv
    BY <1>2 DEF FlowInv, InOnePiece, QueueJoined, NextJoins
  <2> QED
    BY <1>1, <1>2, <2>1 DEF AcceptedInv, OnItsWay, OwedInv, PromptRetry, Uploading
<1> QED
  BY <1>3, <1>4, <1>5, <1>6 DEF CInv

(* The parts of TypeOK.                                                    *)
RecordTypes ==
    /\ DOMAIN pstore \subseteq Slots
    /\ \A s, t \in DOMAIN pstore : pstore[s] = pstore[t] => s = t
    /\ \A s \in DOMAIN pstore : pstore[s] \in DOMAIN written
    /\ \A d \in DOMAIN written : written[d] \in [id : Slots \X (0..MaxClock), chunks : Sizes]
    /\ DOMAIN uploads = DOMAIN written

ControlTypes ==
    /\ pc \in {"idle", "scan", "publish", "save", "delete", "stopped", "down"}
    /\ todo \subseteq Slots
    /\ slot \in Slots \cup {None}
    /\ Uploading => slot \in DOMAIN pstore /\ chunk \in 1..Size(slot)

TimeTypes ==
    /\ clock \in 0..MaxClock
    /\ \A id \in DOMAIN delivered : delivered[id] \in 0..clock
    /\ \A id \in DOMAIN stateFile : stateFile[id] \in 0..clock

Flags == {online, deferred, soon, connected, loopAlive, unread} \subseteq BOOLEAN

LEMMA TypeParts ==
    TypeOK <=> /\ RecordTypes /\ ControlTypes /\ TimeTypes /\ Flags
               /\ Len(queue) <= QueueCap
BY DEF TypeOK, RecordTypes, ControlTypes, TimeTypes, Flags, Uploading

LEMMA FlagsStep ==
    ASSUME Flags, [Next]_vars
    PROVE  Flags'
<1> USE DEF Flags, kernelVars, fileVars, localVars, taskVars, linkVars, histVars, boundVars, vars
<1>1. CASE Calm
  <2>1. UNCHANGED <<online, deferred, soon, connected, loopAlive, unread>>
          \/ StartScan \/ UploadFails \/ EndScan \/ Save \/ Start \/ Crash \/ LoopStop
          \/ Connect \/ Disconnect \/ \E s \in Slots : Defer(s)
    BY <1>1 DEF Calm, PublishChunk, Accepted, Stop, Send, TimePasses,
                SkipUnreadable, BeginUpload, Examine
  <2>2. CASE StartScan
    BY <2>2 DEF StartScan
  <2>3. CASE UploadFails \/ EndScan
    BY <2>3 DEF UploadFails, EndScan, Return
  <2>4. CASE Save \/ Start \/ Crash
    BY <2>4 DEF Save, Start, StartUnread, Begin, Crash
  <2>5. CASE LoopStop \/ Connect \/ Disconnect
    BY <2>5 DEF LoopStop, Connect, Disconnect
  <2>6. ASSUME NEW s \in Slots, Defer(s) PROVE Flags'
    BY <2>6 DEF Defer, Examine
  <2> QED
    BY <2>1, <2>2, <2>3, <2>4, <2>5, <2>6
<1>2. CASE Clearing
  BY <1>2 DEF Clearing, ClearUploaded, ClearDelivered, Examine
<1>3. CASE \E s \in Slots, n \in Sizes : Panic(s, n)
  BY <1>3 DEF Panic
<1> QED
  BY <1>1, <1>2, <1>3, Steps

LEMMA RecordTypesStep ==
    ASSUME RecordTypes, Numbered, TypeOK, [Next]_vars
    PROVE  RecordTypes'
<1>1. CASE Calm
  <2>1. UNCHANGED <<pstore, written>>
    BY <1>1, CalmRecords
  <2>2. DOMAIN uploads' = DOMAIN uploads
    BY <1>1 DEF Calm, StartScan, PublishChunk, Accepted, UploadFails, Return, Save, EndScan,
       Start, StartUnread, Begin, Crash, LoopStop, Stop, Connect, Disconnect, Send, TimePasses, Defer,
       SkipUnreadable, BeginUpload, Examine, histVars, vars
  <2> QED
    BY <2>1, <2>2 DEF RecordTypes
<1>2. CASE Clearing
  <2>1. UNCHANGED <<written, uploads>>
    BY <1>2 DEF Clearing, ClearUploaded, ClearDelivered, Examine, histVars
  <2>2. /\ DOMAIN pstore' \subseteq DOMAIN pstore
        /\ \A t \in DOMAIN pstore' : pstore'[t] = pstore[t]
    BY <1>2, ClearFacts DEF Clearing, ClearUploaded, ClearDelivered, Numbered
  <2> QED
    BY <2>1, <2>2 DEF RecordTypes
<1>3. ASSUME NEW s \in Slots, NEW n \in Sizes, Panic(s, n)
      PROVE  RecordTypes'
  <2>1. PICK d : Appeared(s, d, n)
    BY <1>3, PanicFacts
  <2>2. <<s, clock>> \in Slots \X (0..MaxClock)
    BY DEF TypeOK
  <2>3. written'[d] \in [id : Slots \X (0..MaxClock), chunks : Sizes]
    BY <2>1, <2>2 DEF Appeared
  <2>4. DOMAIN uploads' = DOMAIN written' /\ DOMAIN pstore' \subseteq Slots
    BY <2>1 DEF RecordTypes, Appeared
  <2>5. \A e \in DOMAIN written' :
           written'[e] \in [id : Slots \X (0..MaxClock), chunks : Sizes]
    BY <2>1, <2>3 DEF RecordTypes, Appeared
  <2>6. \A t \in DOMAIN pstore' : pstore'[t] \in DOMAIN written'
    BY <2>1 DEF RecordTypes, Appeared
  <2>7. \A t, u \in DOMAIN pstore' : pstore'[t] = pstore'[u] => t = u
    BY <2>1 DEF RecordTypes, Appeared
  <2> QED
    BY <2>4, <2>5, <2>6, <2>7 DEF RecordTypes
<1> QED
  BY <1>1, <1>2, <1>3, Steps

LEMMA ControlTypesStep ==
    ASSUME TypeOK, Numbered, ScanInv, [Next]_vars
    PROVE  ControlTypes'
<1> USE DEF kernelVars, fileVars, localVars, taskVars, linkVars, histVars, boundVars, vars, ControlTypes,
            Uploading, Size
<1>1. RecordTypes /\ ControlTypes
  BY TypeParts
<1>2. CASE UNCHANGED <<pc, todo, slot, chunk, pstore, written>>
  BY <1>1, <1>2
<1>3. UNCHANGED <<pc, todo, slot, chunk, pstore, written>>
        \/ StartScan \/ PublishChunk \/ UploadFails \/ Save \/ EndScan \/ Start \/ Crash \/ Stop
        \/ ClearUploaded
        \/ (\E s \in Slots : ClearDelivered(s) \/ Defer(s) \/ SkipUnreadable(s) \/ BeginUpload(s))
        \/ (\E s \in Slots, n \in Sizes : Panic(s, n))
  BY DEF Next, Scan, LoopStop, Connect, Disconnect, Send, TimePasses
<1>4. CASE StartScan
  BY <1>1, <1>4 DEF StartScan, RecordTypes
<1>5. CASE PublishChunk
  <2>1. slot \in DOMAIN pstore /\ Size(slot) \in Nat /\ chunk \in 1 .. Size(slot)
    <3>1. chunk \in 1 .. Size(slot) /\ written[pstore[slot]].chunks \in Sizes
      BY <1>1, <1>5 DEF PublishChunk, Accepted, RecordTypes
    <3> QED
      BY <1>1, <1>5, <3>1, CrashdumpAssumption DEF PublishChunk, Accepted
  <2>2. LastChunk \/ chunk + 1 \in 1 .. Size(slot)
    BY <2>1 DEF LastChunk
  <2>3. /\ UNCHANGED <<pstore, written, slot, todo>>
        /\ LastChunk => pc' = "save" /\ chunk' = chunk
        /\ ~LastChunk => pc' = pc /\ chunk' = chunk + 1
    BY <1>5 DEF PublishChunk, Accepted
  <2> QED
    BY <1>1, <2>1, <2>2, <2>3
<1>6. CASE UploadFails \/ EndScan
  BY <1>1, <1>6 DEF UploadFails, EndScan, Return
<1>7. CASE Save
  BY <1>1, <1>7 DEF Save
<1>8. CASE Start \/ Crash \/ Stop
  BY <1>1, <1>8 DEF Start, StartUnread, Begin, Crash, Stop
<1>9. CASE ClearUploaded
  BY <1>1, <1>9 DEF ClearUploaded
<1>10. ASSUME NEW s \in Slots, ClearDelivered(s) \/ Defer(s) \/ SkipUnreadable(s)
       PROVE  ControlTypes'
  BY <1>1, <1>10 DEF ClearDelivered, Defer, SkipUnreadable, Examine
<1>11. ASSUME NEW s \in Slots, BeginUpload(s)
       PROVE  ControlTypes'
  <2>1. s \in DOMAIN pstore /\ Size(s) > 0
    BY <1>11 DEF BeginUpload, Examine, ScanInv
  <2>2. Size(s) \in Nat
    BY <1>1, <2>1, CrashdumpAssumption DEF RecordTypes
  <2> QED
    BY <1>1, <1>11, <2>1, <2>2 DEF BeginUpload, Examine
<1>12. ASSUME NEW s \in Slots, NEW n \in Sizes, Panic(s, n)
       PROVE  ControlTypes'
  <2>1. PICK d : Appeared(s, d, n)
    BY <1>12, PanicFacts
  <2>2. UNCHANGED <<pc, todo, slot, chunk>>
    BY <1>12 DEF Panic
  <2>3. ASSUME Uploading
        PROVE  slot \in DOMAIN pstore' /\ pstore'[slot] = pstore[slot]
                 /\ written'[pstore[slot]] = written[pstore[slot]]
    BY <1>1, <2>1, <2>3 DEF Appeared, RecordTypes
  <2> QED
    BY <1>1, <2>2, <2>3
<1> QED
  BY <1>2, <1>3, <1>4, <1>5, <1>6, <1>7, <1>8, <1>9, <1>10, <1>11, <1>12

(* A delivery of now, and a clock that goes on.                            *)
LEMMA TimeTypesStep ==
    ASSUME TimeTypes, [Next]_vars
    PROVE  TimeTypes'
<1> USE DEF kernelVars, fileVars, localVars, taskVars, linkVars, histVars, boundVars, vars, TimeTypes
<1>0. clock \in Nat /\ MaxClock \in Nat /\ clock <= MaxClock
  BY CrashdumpAssumption
<1>1. CASE UNCHANGED <<clock, delivered, stateFile>>
  BY <1>1
<1>2. UNCHANGED <<clock, delivered, stateFile>>
        \/ PublishChunk \/ Save \/ Start \/ Crash \/ TimePasses
  BY DEF Next, Scan, StartScan, UploadFails, Return, EndScan, LoopStop, Stop, Connect, Disconnect,
         Send, Panic, ClearUploaded, ClearDelivered, Defer, SkipUnreadable, BeginUpload, Examine
<1>3. CASE PublishChunk
  <2>1. delivered' = delivered \/ delivered' = Insert(delivered, Id(slot), clock)
    BY <1>3 DEF PublishChunk, Accepted, WithDump
  <2>2. \A id \in DOMAIN delivered' : delivered'[id] \in 0 .. clock
    BY <1>0, <2>1 DEF Insert, With
  <2> QED
    BY <1>3, <2>2 DEF PublishChunk, Accepted
<1>4. CASE Save
  BY <1>4 DEF Save
<1>5. CASE Start
  BY <1>5 DEF Start, StartUnread, Begin, Prune
<1>6. CASE Crash
  <2>1. DOMAIN delivered' = {}
    BY <1>6 DEF Crash
  <2> QED
    BY <1>6, <2>1 DEF Crash
<1>7. CASE TimePasses
  <2>1. clock' \in 0 .. MaxClock /\ \A t \in 0 .. clock : t \in 0 .. clock'
    BY <1>0, <1>7 DEF TimePasses
  <2> QED
    BY <1>7, <2>1 DEF TimePasses
<1> QED
  BY <1>1, <1>2, <1>3, <1>4, <1>5, <1>6, <1>7

(* A lost connection leaves a prefix of what has arrived.                  *)
LEMMA LostPrefix ==
    ASSUME Numbered, LinkLost
    PROVE  /\ arrived' \in Seq(Arrivals) /\ Len(arrived') <= Len(arrived)
           /\ \A k \in 1 .. Len(arrived') : arrived'[k] = arrived[k]
           /\ losses' = losses + 1 /\ losses' \in Nat
<1>1. PICK k \in 0 .. Len(arrived) : arrived' = SubSeq(arrived, 1, k)
  BY DEF LinkLost
<1>2. arrived \in Seq(Arrivals) /\ losses \in Nat /\ losses' = losses + 1
  BY DEF Numbered, LinkLost
<1>3. Len(arrived') = k /\ \A i \in 1 .. k : arrived'[i] = arrived[i]
  BY <1>1, <1>2
<1>4. arrived' \in Seq(Arrivals)
  BY <1>1, <1>2
<1> QED
  BY <1>1, <1>2, <1>3, <1>4

(* How a step moves the chunks: one is handed over, one is written on the  *)
(* connection, or the connection is lost.                                  *)
LEMMA FlowChange ==
    ASSUME [Next]_vars
    PROVE  \/ UNCHANGED <<queue, arrived, losses, crashes>> /\ ~PublishChunk
           \/ /\ PublishChunk /\ UNCHANGED <<arrived, losses, crashes>>
              /\ queue' = Append(queue, <<pstore[slot], chunk>>) /\ Len(queue) < QueueCap
           \/ /\ Send /\ queue # <<>> /\ queue' = Tail(queue) /\ ~PublishChunk
              /\ arrived' = Append(arrived, <<Head(queue)[1], Head(queue)[2], losses>>)
              /\ UNCHANGED <<losses, crashes>>
           \/ /\ LinkLost /\ ~PublishChunk
              /\ \/ Disconnect /\ queue' \in {queue, <<>>} /\ crashes' = crashes
                 \/ queue' = <<>> /\ ~loopAlive' /\ crashes' \in {crashes, crashes + 1}
<1> USE DEF kernelVars, fileVars, localVars, taskVars, linkVars, histVars, boundVars, vars
<1>1. UNCHANGED <<queue, arrived, losses, crashes>> \/ PublishChunk \/ Crash \/ LoopStop \/ Send
        \/ Disconnect
  BY DEF Next, Scan, StartScan, UploadFails, Return, EndScan, Save, Start, StartUnread, Begin, Stop,
         Connect, TimePasses, Panic, ClearUploaded, ClearDelivered, Defer, SkipUnreadable,
         BeginUpload, Examine
<1>2. CASE PublishChunk
  BY <1>2 DEF PublishChunk, Accepted, WithChunk
<1>3. CASE Send
  BY <1>3 DEF Send, PublishChunk, Accepted
<1>4. CASE Crash
  BY <1>4 DEF Crash, PublishChunk, Accepted
<1>5. CASE LoopStop
  BY <1>5 DEF LoopStop, PublishChunk, Accepted
<1>6. CASE Disconnect
  BY <1>6 DEF Disconnect, PublishChunk, Accepted
<1> QED
  BY <1>1, <1>2, <1>3, <1>4, <1>5, <1>6

(* The chunk that is handed over.                                          *)
LEMMA NextChunk ==
    ASSUME Numbered, TypeOK, PublishChunk
    PROVE  /\ <<pstore[slot], chunk>> \in Chunks /\ chunk >= 1 /\ pc = "publish" /\ loopAlive
           /\ pstore[slot] \in Nat /\ chunk \in Nat
<1>1. slot \in DOMAIN pstore /\ chunk \in 1 .. Size(slot) /\ pc = "publish" /\ loopAlive
  BY DEF PublishChunk, Accepted, TypeOK
<1>2. pstore[slot] \in DOMAIN written
  BY <1>1 DEF TypeOK
<1> QED
  BY <1>1, <1>2 DEF Numbered, Chunks

(* The requests that a step adds to the channel or takes from it.          *)
LEMMA QueueStep ==
    ASSUME Numbered, TypeOK, [Next]_vars
    PROVE  /\ queue' \in Seq(Chunks) /\ arrived' \in Seq(Arrivals) /\ losses' \in Nat
           /\ Len(queue') <= QueueCap
<1>1. /\ queue \in Seq(Chunks) /\ arrived \in Seq(Arrivals) /\ losses \in Nat
      /\ Len(queue) <= QueueCap /\ QueueCap \in Nat
  BY CrashdumpAssumption DEF Numbered, TypeOK
<1>2. CASE UNCHANGED <<queue, arrived, losses>>
  BY <1>1, <1>2
<1>3. CASE /\ PublishChunk /\ UNCHANGED <<arrived, losses>>
           /\ queue' = Append(queue, <<pstore[slot], chunk>>) /\ Len(queue) < QueueCap
  BY <1>1, <1>3, NextChunk
<1>4. CASE /\ queue # <<>> /\ queue' = Tail(queue) /\ UNCHANGED losses
           /\ arrived' = Append(arrived, <<Head(queue)[1], Head(queue)[2], losses>>)
  <2>1. Head(queue) \in Chunks /\ Tail(queue) \in Seq(Chunks) /\ Len(Tail(queue)) = Len(queue) - 1
    BY <1>1, <1>4
  <2>2. <<Head(queue)[1], Head(queue)[2], losses>> \in Arrivals
    BY <1>1, <2>1 DEF Chunks, Arrivals
  <2>3. arrived' \in Seq(Arrivals)
    BY <1>1, <1>4, <2>2
  <2>4. Len(queue) \in Nat /\ Len(queue) - 1 <= QueueCap
    BY <1>1
  <2> QED
    BY <1>1, <1>4, <2>1, <2>3, <2>4
<1>5. CASE LinkLost /\ queue' \in {queue, <<>>}
  <2>1. arrived' \in Seq(Arrivals) /\ losses' \in Nat
    BY <1>5, LostPrefix
  <2>2. <<>> \in Seq(Chunks) /\ Len(<<>>) <= QueueCap
    BY <1>1
  <2> QED
    BY <1>1, <1>5, <2>1, <2>2
<1> QED
  BY <1>2, <1>3, <1>4, <1>5, FlowChange

LEMMA NumberedStep ==
    ASSUME Numbered, TypeOK, [Next]_vars
    PROVE  Numbered'
<1> USE DEF kernelVars, fileVars, localVars, taskVars, linkVars, histVars, boundVars, vars
<1>1. crashes' \in Nat /\ faults' \in Nat
  <2>1. crashes' \in {crashes, crashes + 1} /\ faults' \in {faults, faults + 1}
    BY DEF Next, Scan, StartScan, PublishChunk, Accepted, UploadFails, Return, EndScan, Save,
         Start, StartUnread, Begin, Crash, LoopStop, Stop, Connect, Disconnect, Send, TimePasses, Panic,
         ClearUploaded, ClearDelivered, Defer, SkipUnreadable, BeginUpload, Examine, MaybeDelete
  <2> QED
    BY <2>1 DEF Numbered
<1>2. CASE Calm
  <2>1. written' = written
    BY <1>2, CalmRecords
  <2>2. \A d \in DOMAIN written : uploads'[d] \in Nat
    <3>1. CASE PublishChunk
      BY <3>1 DEF PublishChunk, Accepted, Numbered, TypeOK
    <3>2. CASE uploads' = uploads
      BY <3>2 DEF Numbered
    <3> QED
      BY <1>2, <3>1, <3>2 DEF Calm, StartScan, UploadFails, Return, EndScan, Save, Start, StartUnread, Begin,
         Crash, LoopStop, Stop, Connect, Disconnect, Send, TimePasses, Defer, SkipUnreadable,
         BeginUpload, Examine
  <2> QED
    BY <1>1, <2>1, <2>2, QueueStep DEF Numbered
<1>3. CASE Clearing
  <2>1. UNCHANGED <<written, uploads>>
    BY <1>3 DEF Clearing, ClearUploaded, ClearDelivered, Examine
  <2> QED
    BY <1>1, <2>1, QueueStep DEF Numbered
<1>4. ASSUME NEW s \in Slots, NEW n \in Sizes, Panic(s, n)
      PROVE  Numbered'
  <2>1. PICK d : Appeared(s, d, n)
    BY <1>4, PanicFacts
  <2>2. d \in Nat /\ DOMAIN written' = 1 .. d
    BY <2>1 DEF Appeared
  <2>3. \A c, e \in DOMAIN written : written[c].id = written[e].id => c = e
    BY DEF Numbered
  <2>4. \A e \in DOMAIN written : uploads[e] \in Nat
    BY DEF Numbered
  <2>5. /\ DOMAIN written' = DOMAIN written \cup {d} /\ written'[d].id = <<s, clock>>
        /\ \A e \in DOMAIN written : written'[e] = written[e] /\ written[e].id # <<s, clock>>
    <3>1. DOMAIN written' = DOMAIN written \cup {d}
      BY <2>1, Zenon DEF Appeared
    <3>2. written'[d] = [id |-> <<s, clock>>, chunks |-> n]
      BY <2>1, Zenon DEF Appeared
    <3>3. \A e \in DOMAIN written : written'[e] = written[e] /\ written[e].id # <<s, clock>>
      BY <2>1, Zenon DEF Appeared
    <3> QED
      BY <3>1, <3>2, <3>3
  <2>6. \A c, e \in DOMAIN written' : written'[c].id = written'[e].id => c = e
    BY <2>3, <2>5
  <2>7. \A e \in DOMAIN written' : uploads'[e] \in Nat
    <3>1. uploads'[d] = 0 /\ \A e \in DOMAIN written : uploads'[e] = uploads[e]
      BY <2>1, Zenon DEF Appeared
    <3> QED
      BY <2>4, <2>5, <3>1
  <2> QED
    BY <1>1, <2>2, <2>6, <2>7, QueueStep DEF Numbered
<1> QED
  BY <1>2, <1>3, <1>4, Steps

-----------------------------------------------------------------------------
(* The scan and what it knows.                                             *)

(* A dump keeps its id and size, and its hand-overs only become more, by   *)
(* its last chunk.                                                         *)
LEMMA HistoryGrows ==
    ASSUME TypeOK, Numbered, [Next]_vars
    PROVE  \A d \in DOMAIN written :
              /\ d \in DOMAIN written'
              /\ written'[d] = written[d]
              /\ uploads'[d] # uploads[d] =>
                   /\ PublishChunk /\ LastChunk /\ d = pstore[slot]
                   /\ uploads'[d] = uploads[d] + 1
<1> USE DEF kernelVars, fileVars, localVars, taskVars, linkVars, histVars, boundVars, vars
<1>1. CASE Calm
  <2>1. written' = written
    BY <1>1, CalmRecords
  <2>2. CASE PublishChunk
    BY <2>1, <2>2 DEF PublishChunk, Accepted, TypeOK
  <2>3. CASE uploads' = uploads
    BY <2>1, <2>3
  <2> QED
    BY <1>1, <2>2, <2>3 DEF Calm, StartScan, UploadFails, Return, EndScan, Save, Start, StartUnread, Begin,
       Crash, LoopStop, Stop, Connect, Disconnect, Send, TimePasses, Defer, SkipUnreadable,
       BeginUpload, Examine
<1>2. CASE Clearing
  BY <1>2 DEF Clearing, ClearUploaded, ClearDelivered, Examine
<1>3. ASSUME NEW s \in Slots, NEW n \in Sizes, Panic(s, n)
      PROVE  \A d \in DOMAIN written :
                d \in DOMAIN written' /\ written'[d] = written[d] /\ uploads'[d] = uploads[d]
  <2>1. PICK d : Appeared(s, d, n)
    BY <1>3, PanicFacts
  <2>2. /\ DOMAIN written' = DOMAIN written \cup {d}
        /\ \A e \in DOMAIN written : written'[e] = written[e] /\ uploads'[e] = uploads[e]
    BY <2>1, Zenon DEF Appeared
  <2> QED
    BY <2>2
<1> QED
  BY <1>1, <1>2, <1>3, Steps

(* The records that stay hold what they held.                              *)
LEMMA RecordsStay ==
    ASSUME TypeOK, Numbered, [Next]_vars
    PROVE  \A s \in DOMAIN pstore \cap DOMAIN pstore' :
              pstore'[s] = pstore[s] /\ Id(s)' = Id(s) /\ Size(s)' = Size(s)
<1>1. \A s \in DOMAIN pstore \cap DOMAIN pstore' : pstore'[s] = pstore[s]
  <2>1. CASE Calm
    BY <2>1, CalmRecords
  <2>2. CASE Clearing
    BY <2>2, ClearFacts DEF Clearing, ClearUploaded, ClearDelivered, Numbered
  <2>3. ASSUME NEW s \in Slots, NEW n \in Sizes, Panic(s, n)
        PROVE  \A t \in DOMAIN pstore : pstore'[t] = pstore[t]
    BY <2>3, PanicFacts DEF Appeared
  <2> QED
    BY <2>1, <2>2, <2>3, Steps
<1>2. \A s \in DOMAIN pstore : written'[pstore[s]] = written[pstore[s]]
  BY HistoryGrows DEF TypeOK
<1> QED
  BY <1>1, <1>2 DEF Id, Size

LEMMA ScanStep ==
    ASSUME TypeOK, Numbered, ScanInv, [Next]_vars
    PROVE  ScanInv'
<1> USE DEF kernelVars, fileVars, localVars, taskVars, linkVars, histVars, boundVars, vars, ScanInv, Uploading
<1>1. CASE Calm
  <2>1. pstore' = pstore
    BY <1>1, CalmRecords
  <2> QED
    BY <1>1, <2>1
    DEF Calm, StartScan, PublishChunk, Accepted, UploadFails, Return, EndScan, Save, Start, StartUnread, Begin,
        Crash, LoopStop, Stop, Connect, Disconnect, Send, TimePasses, Defer, SkipUnreadable,
        BeginUpload, Examine
<1>2. CASE ClearUploaded
  BY <1>2, ClearFacts DEF ClearUploaded, Numbered
<1>3. ASSUME NEW s \in Slots, ClearDelivered(s)
      PROVE  ScanInv'
  <2>1. todo' = todo \ {s} /\ pc' = "scan" /\ DOMAIN pstore \ {s} \subseteq DOMAIN pstore'
    BY <1>3, ClearFacts DEF ClearDelivered, Examine, Numbered
  <2> QED
    BY <2>1
<1>4. ASSUME NEW s \in Slots, NEW n \in Sizes, Panic(s, n)
      PROVE  ScanInv'
  <2>1. DOMAIN pstore \subseteq DOMAIN pstore'
    BY <1>4, PanicFacts DEF Appeared
  <2> QED
    BY <1>4, <2>1 DEF Panic
<1> QED
  BY <1>1, <1>2, <1>3, <1>4, Steps DEF Clearing

(* How the deliveries that are known, in memory and in the file, change.   *)
LEMMA DeliveriesChange ==
    ASSUME [Next]_vars
    PROVE  /\ \/ delivered' = delivered /\ (pc = "down" <=> pc' = "down")
              \/ /\ PublishChunk /\ LastChunk
                 /\ DOMAIN delivered' = DOMAIN delivered \cup {Id(slot)}
              \/ /\ Start /\ DOMAIN delivered' \subseteq DOMAIN stateFile
                 /\ ~unread' => DOMAIN delivered' =
                                  {id \in DOMAIN stateFile : stateFile[id] + Retention >= clock}
              \/ Crash /\ DOMAIN delivered' = {}
           /\ \/ stateFile' = stateFile /\ (unread' = unread \/ Start \/ Crash)
              \/ Save /\ stateFile' = delivered
<1> USE DEF kernelVars, fileVars, localVars, taskVars, linkVars, histVars, boundVars, vars
<1>1. \/ delivered' = delivered /\ (pc = "down" <=> pc' = "down")
      \/ PublishChunk /\ LastChunk
      \/ Start
      \/ Crash
  BY DEF Next, Scan, StartScan, UploadFails, Return, EndScan, LoopStop, Stop, Connect, Disconnect,
         Send, Panic, ClearUploaded, ClearDelivered, Defer, SkipUnreadable, BeginUpload, Examine,
         PublishChunk, Accepted, Save, TimePasses
<1>2. ASSUME PublishChunk, LastChunk
      PROVE  DOMAIN delivered' = DOMAIN delivered \cup {Id(slot)}
  <2>1. delivered' = Insert(delivered, Id(slot), clock)
    BY <1>2 DEF PublishChunk, Accepted, WithDump
  <2> QED
    BY <2>1 DEF Insert, With
<1>3. ASSUME Start
      PROVE  /\ DOMAIN delivered' \subseteq DOMAIN stateFile
             /\ ~unread' => DOMAIN delivered' =
                              {id \in DOMAIN stateFile : stateFile[id] + Retention >= clock}
  BY <1>3 DEF Start, StartUnread, Begin, Prune
<1>4. ASSUME Crash
      PROVE  DOMAIN delivered' = {}
  BY <1>4 DEF Crash
<1>5. \/ stateFile' = stateFile /\ (unread' = unread \/ Start \/ Crash)
      \/ Save /\ stateFile' = delivered
  BY DEF Next, Scan, StartScan, UploadFails, Return, EndScan, LoopStop, Stop, Connect, Disconnect,
         Send, Panic, ClearUploaded, ClearDelivered, Defer, SkipUnreadable, BeginUpload, Examine,
         PublishChunk, Accepted, Save, TimePasses, Start, StartUnread, Begin, Crash
<1> QED
  BY <1>1, <1>2, <1>3, <1>4, <1>5

(* The step that ends an upload, as the histories see it.                  *)
LEMMA LastChunkFacts ==
    ASSUME TypeOK, Numbered, Known, PublishChunk
    PROVE  /\ pc = "publish" /\ pstore[slot] \in DOMAIN written /\ slot \in DOMAIN pstore
           /\ Id(slot) \notin DOMAIN delivered /\ Id(slot) = written[pstore[slot]].id
           /\ UNCHANGED <<pstore, written, crashes, clock, stateFile, todo, slot, owed, deferred>>
           /\ LastChunk => uploads'[pstore[slot]] = uploads[pstore[slot]] + 1 /\ pc' = "save"
           /\ ~LastChunk => delivered' = delivered /\ uploads' = uploads /\ pc' = "publish"
BY DEF PublishChunk, Accepted, TypeOK, Known, Contains, Id, kernelVars, fileVars, boundVars

LEMMA FreshStep ==
    ASSUME TypeOK, Numbered, Known, FreshKnown, [Next]_vars
    PROVE  FreshKnown'
<1> USE DEF kernelVars, fileVars, localVars, taskVars, linkVars, histVars, boundVars, vars
<1>1. clock \in Nat /\ clock' \in Nat /\ clock <= clock' /\ Retention \in Nat
  <2>1. clock \in Nat
    BY CrashdumpAssumption DEF TypeOK
  <2>2. clock' = clock \/ clock' = clock + 1
    BY DEF Next, Scan, StartScan, UploadFails, Return, EndScan, LoopStop, Stop, Connect,
           Disconnect, Send, Panic, ClearUploaded, ClearDelivered, Defer, SkipUnreadable,
           BeginUpload, Examine, PublishChunk, Accepted, Save, TimePasses, Start, StartUnread, Begin, Crash
  <2> QED
    BY <2>1, <2>2, CrashdumpAssumption
<1>2. CASE Save /\ stateFile' = delivered
  BY <1>2 DEF Save, FreshKnown
<1>3. CASE Crash
  BY <1>3 DEF Crash, FreshKnown
<1>4. CASE Start
  BY <1>4, DeliveriesChange DEF Start, StartUnread, Begin, FreshKnown, Crash, PublishChunk, Accepted
<1>5. CASE /\ stateFile' = stateFile /\ unread' = unread /\ pc # "down"
           /\ DOMAIN delivered \subseteq DOMAIN delivered'
  <2>1. \A id \in DOMAIN stateFile : stateFile[id] \in Nat
    BY CrashdumpAssumption, <1>1 DEF TypeOK
  <2> QED
    BY <1>1, <1>5, <2>1 DEF FreshKnown
<1>6. CASE pc' = "down"
  BY <1>6 DEF FreshKnown
<1> QED
  BY <1>2, <1>3, <1>4, <1>5, <1>6, DeliveriesChange, LastChunkFacts

LEMMA UploadsStep ==
    ASSUME TypeOK, Numbered, Known, UploadsInv, [Next]_vars
    PROVE  UploadsInv'
<1>1. crashes \in Nat /\ \A d \in DOMAIN written : uploads[d] \in Nat
  BY DEF Numbered
<1>2. crashes' = crashes \/ (Crash /\ crashes' = crashes + 1)
  BY DEF Next, Scan, StartScan, UploadFails, Return, EndScan, LoopStop, Stop, Connect, Disconnect,
         Send, Panic, ClearUploaded, ClearDelivered, Defer, SkipUnreadable, BeginUpload, Examine,
         PublishChunk, Accepted, Save, TimePasses, Start, StartUnread, Begin, Crash, boundVars, vars
<1>3. ASSUME NEW d \in DOMAIN written
      PROVE  uploads'[d] <= crashes' + (IF written'[d].id \in DOMAIN delivered' THEN 1 ELSE 0)
  <2>1. /\ written'[d] = written[d]
        /\ uploads'[d] # uploads[d] =>
             /\ PublishChunk /\ LastChunk /\ d = pstore[slot]
             /\ uploads'[d] = uploads[d] + 1
    BY HistoryGrows
  <2>2. /\ uploads[d] \in Nat
        /\ uploads[d] <= crashes + (IF written[d].id \in DOMAIN delivered THEN 1 ELSE 0)
    BY <1>1 DEF UploadsInv
  <2>3. CASE PublishChunk /\ LastChunk
    <3>1. DOMAIN delivered' = DOMAIN delivered \cup {Id(slot)} /\ crashes' = crashes
      BY <2>3, LastChunkFacts DEF PublishChunk, Accepted, WithDump, Insert, With
    <3>2. CASE d = pstore[slot]
      <4>1. written[d].id = Id(slot) /\ Id(slot) \notin DOMAIN delivered
        BY <2>3, <3>2, LastChunkFacts
      <4> QED
        BY <1>1, <2>1, <2>2, <3>1, <4>1
    <3>3. CASE d # pstore[slot]
      BY <1>1, <2>1, <2>2, <3>1, <3>3
    <3> QED
      BY <3>2, <3>3
  <2>4. CASE Crash
    <3>1. crashes' = crashes + 1
      BY <2>4 DEF Crash
    <3>2. uploads'[d] = uploads[d]
      BY <2>1, <2>4 DEF Crash, PublishChunk, Accepted
    <3> QED
      BY <1>1, <2>2, <3>1, <3>2
  <2>5. CASE ~Crash /\ ~(PublishChunk /\ LastChunk)
    <3>1. crashes' = crashes /\ uploads'[d] = uploads[d]
      BY <1>2, <2>1, <2>5
    <3>2. CASE delivered' = delivered
      BY <2>1, <2>2, <3>1, <3>2
    <3>3. CASE Start
      <4>1. DOMAIN delivered = {}
        BY <3>3 DEF Start, StartUnread, Begin, Known
      <4> QED
        BY <1>1, <2>2, <3>1, <4>1
    <3> QED
      BY <2>5, <3>2, <3>3, DeliveriesChange
  <2> QED
    BY <2>3, <2>4, <2>5
<1>4. ASSUME NEW s \in Slots, NEW n \in Sizes, Panic(s, n), NEW d \in DOMAIN written' \ DOMAIN written
      PROVE  uploads'[d] = 0
  <2>1. PICK e : Appeared(s, e, n)
    BY <1>4, PanicFacts
  <2>2. DOMAIN written' = DOMAIN written \cup {e} /\ uploads'[e] = 0
    BY <2>1, Zenon DEF Appeared
  <2> QED
    BY <2>2
<1>5. DOMAIN written' \subseteq DOMAIN written \/ \E s \in Slots, n \in Sizes : Panic(s, n)
  BY CalmRecords, Steps DEF Clearing, ClearUploaded, ClearDelivered, Examine
<1>6. crashes' \in Nat
  BY <1>1, <1>2
<1> QED
  BY <1>3, <1>4, <1>5, <1>6 DEF UploadsInv

LEMMA KnownStep ==
    ASSUME TypeOK, Numbered, ScanInv, Known, [Next]_vars
    PROVE  Known'
<1> USE DEF kernelVars, fileVars, localVars, taskVars, linkVars, histVars, boundVars, vars
<1>1. pc' = "down" => delivered' = << >> /\ ~loopAlive'
  BY DEF Known, Next, Scan, StartScan, UploadFails, Return, EndScan, LoopStop, Stop, Connect,
         Disconnect, Send, Panic, ClearUploaded, ClearDelivered, Defer, SkipUnreadable, BeginUpload,
         Examine, PublishChunk, Accepted, Save, TimePasses, Start, StartUnread, Begin, Crash
<1>2. ASSUME pc' \in {"publish", "save", "delete"}
      PROVE  /\ pc' = "publish" => ~Contains(slot)'
             /\ pc' \in {"save", "delete"} => Contains(slot)'
  <2>1. \/ /\ Uploading /\ slot' = slot /\ delivered' = delivered
           /\ pc' = pc \/ (pc = "save" /\ pc' = "delete")
        \/ PublishChunk /\ LastChunk
        \/ \E s \in Slots : BeginUpload(s)
    BY <1>2
    DEF Next, Scan, StartScan, UploadFails, Return, EndScan, LoopStop, Stop, Connect, Disconnect,
        Send, Panic, ClearUploaded, ClearDelivered, Defer, SkipUnreadable, Examine, Uploading,
        PublishChunk, Accepted, Save, TimePasses, Start, StartUnread, Begin, Crash
  <2>2. CASE Uploading /\ slot' = slot /\ delivered' = delivered
             /\ (pc' = pc \/ (pc = "save" /\ pc' = "delete"))
    <3>1. slot \in DOMAIN pstore /\ slot \in DOMAIN pstore'
      BY <1>2, <2>2, TypeParts, ControlTypesStep DEF ControlTypes, Uploading
    <3>2. Id(slot)' = Id(slot)
      BY <2>2, <3>1, RecordsStay DEF Id
    <3> QED
      BY <2>2, <3>2 DEF Known, Contains, Uploading
  <2>3. CASE PublishChunk /\ LastChunk
    <3>1. Id(slot)' = Id(slot) /\ pc' = "save" /\ Id(slot) \in DOMAIN delivered'
      BY <2>3, DeliveriesChange, LastChunkFacts
      DEF Id, PublishChunk, Accepted, WithDump, Insert, With
    <3> QED
      BY <3>1 DEF Contains
  <2>4. ASSUME NEW s \in Slots, BeginUpload(s)
        PROVE  pc' = "publish" /\ ~Contains(slot)'
    BY <2>4 DEF BeginUpload, Examine, Contains, Id
  <2> QED
    BY <2>1, <2>2, <2>3, <2>4
<1>3. ASSUME NEW id \in DOMAIN delivered' \cup DOMAIN stateFile'
      PROVE  \E d \in DOMAIN written' : written'[d].id = id /\ uploads'[d] > 0
  <2>1. CASE id \in DOMAIN delivered \cup DOMAIN stateFile
    <3>1. PICK d \in DOMAIN written : written[d].id = id /\ uploads[d] > 0 /\ uploads[d] \in Nat
      BY <2>1 DEF Known, Numbered
    <3>2. d \in DOMAIN written' /\ written'[d] = written[d] /\ uploads'[d] > 0
      BY <3>1, HistoryGrows
    <3> QED
      BY <3>1, <3>2
  <2>2. CASE PublishChunk /\ LastChunk /\ id = Id(slot)
    <3> DEFINE d == pstore[slot]
    <3>1. /\ d \in DOMAIN written /\ written'[d].id = id /\ d \in DOMAIN written'
          /\ uploads'[d] = uploads[d] + 1 /\ uploads[d] \in Nat
      BY <2>2, LastChunkFacts DEF Numbered
    <3> QED
      BY <3>1
  <2> QED
    BY <2>1, <2>2, DeliveriesChange
<1>4. owed' \subseteq {written'[d].id : d \in DOMAIN written'}
  <2>1. owed' \subseteq owed \/ StartScan
    BY DEF Next, Scan, UploadFails, Return, EndScan, LoopStop, Stop, Connect, Disconnect, Send,
           Panic, ClearUploaded, ClearDelivered, Defer, SkipUnreadable, BeginUpload, Examine,
           PublishChunk, Accepted, Save, TimePasses, Start, StartUnread, Begin, Crash
  <2>2. CASE StartScan
    BY <2>2 DEF StartScan, Id, TypeOK
  <2>3. CASE owed' \subseteq owed
    BY <2>3, HistoryGrows DEF Known
  <2> QED
    BY <2>1, <2>2, <2>3
<1> QED
  BY <1>1, <1>2, <1>3, <1>4 DEF Known, Contains

-----------------------------------------------------------------------------
(* The way to the broker.                                                  *)

(* A run grows by the chunk that follows, and a new one may begin.         *)
LEMMA RunGrows ==
    ASSUME NEW f \in Seq(Arrivals), NEW c \in Arrivals,
           \A k \in 1 .. Len(f) : Run(f, k),
           \/ c[2] = 1
           \/ c[3] > 0 /\ \A k \in 1 .. Len(f) : f[k][3] < c[3]
           \/ f # <<>> /\ f[Len(f)][3] = c[3] /\ Follows(c, f[Len(f)])
    PROVE  \A k \in 1 .. Len(f) + 1 : Run(Append(f, c), k)
<1> DEFINE g == Append(f, c)
           n == Len(f) + 1
<1>1. /\ Len(f) \in Nat /\ n \in Nat /\ n >= 1 /\ g[n] = c
      /\ \A i \in 1 .. Len(f) : g[i] = f[i] /\ f[i] \in Arrivals
  OBVIOUS
<1>2. \A i \in 1 .. Len(f) : \A m \in 1 .. i : m \in 1 .. Len(f)
  BY <1>1
<1>3. c = <<c[1], c[2], c[3]>> /\ c[1] \in Nat /\ c[2] \in Nat /\ c[3] \in Nat
  BY DEF Arrivals
<1> HIDE DEF g
<1>4. ASSUME NEW k \in 1 .. Len(f)
      PROVE  Run(g, k)
  <2>1. PICK a \in 1 .. k : /\ f[a][2] = 1 \/ First(f, a)
                            /\ \A x \in a .. k : f[x] = <<f[k][1], f[k][2] - (k - x), f[k][3]>>
    BY DEF Run
  <2>2. \A x \in a .. k : x \in 1 .. Len(f)
    BY <1>1, <2>1
  <2>3. g[k] = f[k] /\ g[a] = f[a] /\ (a # 1 => g[a - 1] = f[a - 1])
    BY <1>1, <2>1
  <2>4. g[a][2] = 1 \/ First(g, a)
    BY <2>1, <2>3 DEF First
  <2>5. \A x \in a .. k : g[x] = <<g[k][1], g[k][2] - (k - x), g[k][3]>>
    BY <1>1, <2>1, <2>2, <2>3
  <2> QED
    BY <2>4, <2>5 DEF Run
<1>5. Run(g, n)
  <2>1. ASSUME g[n][2] = 1 \/ First(g, n)
        PROVE  Run(g, n)
    <3>1. n \in 1 .. n /\ \A x \in n .. n : x = n
      BY <1>1
    <3>2. g[n] = <<g[n][1], g[n][2] - (n - n), g[n][3]>>
      BY <1>1, <1>3
    <3> QED
      BY <2>1, <3>1, <3>2 DEF Run
  <2>2. CASE c[2] = 1
    BY <1>1, <2>1, <2>2
  <2>3. CASE c[3] > 0 /\ \A k \in 1 .. Len(f) : f[k][3] < c[3]
    <3>1. n = 1 \/ (n - 1 = Len(f) /\ Len(f) \in 1 .. Len(f))
      BY <1>1
    <3>2. First(g, n)
      BY <1>1, <2>3, <3>1 DEF First
    <3> QED
      BY <2>1, <3>2
  <2>4. CASE f # <<>> /\ f[Len(f)][3] = c[3] /\ Follows(c, f[Len(f)])
    <3> DEFINE l == Len(f)
    <3>1. l \in 1 .. Len(f) /\ n = l + 1
      BY <1>1, <2>4
    <3>2. PICK a \in 1 .. l : /\ g[a][2] = 1 \/ First(g, a)
                              /\ \A x \in a .. l : g[x] = <<g[l][1], g[l][2] - (l - x), g[l][3]>>
      BY <1>4, <3>1 DEF Run
    <3>3. /\ g[l] = f[l] /\ f[l] \in Arrivals
          /\ c[1] = g[l][1] /\ c[2] = g[l][2] + 1 /\ c[3] = g[l][3]
      BY <1>1, <2>4, <3>1 DEF Follows
    <3>4. g[l][2] \in Nat
      BY <3>3 DEF Arrivals
    <3>5. ASSUME NEW x \in a .. n
          PROVE  g[x] = <<g[n][1], g[n][2] - (n - x), g[n][3]>>
      <4>1. CASE x = n
        BY <1>1, <1>3, <4>1
      <4>2. CASE x # n
        <5>1. a \in Int /\ l \in Int /\ n = l + 1
          BY <3>1, <3>2
        <5>2. x \in a .. l
          BY <3>5, <4>2, <5>1
        <5>3. c[2] - (n - x) = g[l][2] - (l - x)
          <6>1. PICK i \in Int, j \in Int : i = l /\ j = n /\ j = i + 1
            BY <5>1
          <6>2. PICK p \in Int, q \in Int : p = g[l][2] /\ q = c[2] /\ q = p + 1
            BY <3>3, <3>4
          <6>3. x \in Int
            BY <5>1, <5>2
          <6> HIDE DEF l, n
          <6>4. q - (j - x) = p - (i - x)
            BY <6>1, <6>2, <6>3
          <6> QED
            BY <6>1, <6>2, <6>4, Zenon
        <5>4. g[n] = c /\ c = <<c[1], c[2], c[3]>>
          BY <1>1, <1>3
        <5>5. g[x] = <<g[l][1], g[l][2] - (l - x), g[l][3]>>
          BY <3>2, <5>2
        <5> HIDE DEF l, n
        <5> QED
          BY <3>3, <5>3, <5>4, <5>5
      <4> QED
        BY <4>1, <4>2
    <3>6. a \in 1 .. n
      BY <1>1, <3>1, <3>2
    <3> QED
      BY <3>2, <3>5, <3>6 DEF Run
  <2> QED
    BY <2>2, <2>3, <2>4
<1>6. \A k \in 1 .. n : k \in 1 .. Len(f) \/ k = n
  BY <1>1
<1> QED
  BY <1>4, <1>5, <1>6 DEF g

(* A sequence with one element more.                                       *)
Grown(f, c, g) ==
    /\ Len(f) \in Nat /\ Len(g) = Len(f) + 1 /\ g # <<>>
    /\ g[Len(g)] = c /\ g[Len(f) + 1] = c
    /\ \A k \in 1 .. Len(f) : g[k] = f[k]

LEMMA AppendGrows ==
    ASSUME NEW S, NEW f \in Seq(S), NEW c \in S
    PROVE  Grown(f, c, Append(f, c))
BY AppendProperties DEF Grown

LEMMA RunPrefix ==
    ASSUME NEW f \in Seq(Arrivals), NEW g \in Seq(Arrivals), Len(g) <= Len(f),
           \A k \in 1 .. Len(g) : g[k] = f[k], \A k \in 1 .. Len(f) : Run(f, k)
    PROVE  \A k \in 1 .. Len(g) : Run(g, k)
<1>1. Len(g) \in Nat /\ Len(f) \in Nat
  OBVIOUS
<1> SUFFICES ASSUME NEW k \in 1 .. Len(g)
             PROVE  Run(g, k)
  OBVIOUS
<1>2. k \in 1 .. Len(f)
  BY <1>1
<1>3. PICK a \in 1 .. k : /\ f[a][2] = 1 \/ First(f, a)
                          /\ \A x \in a .. k : f[x] = <<f[k][1], f[k][2] - (k - x), f[k][3]>>
  BY <1>2 DEF Run
<1>4. \A x \in a .. k : x \in 1 .. Len(g)
  BY <1>1, <1>3
<1>5. g[k] = f[k] /\ g[a] = f[a] /\ (a # 1 => g[a - 1] = f[a - 1])
  BY <1>1, <1>3
<1>6. g[a][2] = 1 \/ First(g, a)
  BY <1>3, <1>5 DEF First
<1>7. \A x \in a .. k : g[x] = <<g[k][1], g[k][2] - (k - x), g[k][3]>>
  BY <1>3, <1>4, <1>5
<1> QED
  BY <1>6, <1>7 DEF Run

(* A step after which an upload is under way.                              *)
LEMMA StillPublishing ==
    ASSUME TypeOK, Numbered, ScanInv, Known, [Next]_vars, pc' = "publish"
    PROVE  \/ \E s \in Slots : BeginUpload(s)
           \/ /\ PublishChunk /\ ~LastChunk /\ slot \in DOMAIN pstore
              /\ UNCHANGED <<pstore, slot>> /\ chunk' = chunk + 1
           \/ /\ pc = "publish" /\ UNCHANGED <<slot, chunk>> /\ ~PublishChunk
              /\ slot \in DOMAIN pstore /\ pstore'[slot] = pstore[slot]
              /\ loopAlive' => loopAlive
<1> USE DEF kernelVars, fileVars, localVars, taskVars, linkVars, histVars, boundVars, vars
<1>1. \/ \E s \in Slots : BeginUpload(s)
      \/ PublishChunk
      \/ /\ pc = "publish" /\ UNCHANGED <<slot, chunk>> /\ ~PublishChunk
         /\ loopAlive' => loopAlive
  BY DEF Next, Scan, StartScan, UploadFails, Return, EndScan, LoopStop, Stop, Connect, Disconnect,
         Send, Panic, ClearUploaded, ClearDelivered, Defer, SkipUnreadable, Examine, Save,
         TimePasses, Start, StartUnread, Begin, Crash
<1>2. CASE PublishChunk
  BY <1>2, LastChunkFacts DEF PublishChunk, Accepted
<1>3. CASE pc = "publish" /\ UNCHANGED <<slot, chunk>> /\ ~PublishChunk /\ (loopAlive' => loopAlive)
  <2>1. slot \in DOMAIN pstore /\ slot \in DOMAIN pstore'
    BY <1>3, TypeParts, ControlTypesStep DEF ControlTypes, Uploading
  <2> QED
    BY <1>3, <2>1, RecordsStay
<1> QED
  BY <1>1, <1>2, <1>3

(* A chunk is handed over.                                                 *)
LEMMA FlowPublish ==
    ASSUME TypeOK, Numbered, FlowInv, PublishChunk, UNCHANGED <<arrived, losses>>,
           queue' = Append(queue, <<pstore[slot], chunk>>)
    PROVE  FlowInv'
<1> DEFINE c == <<pstore[slot], chunk>>
<1>1. /\ c \in Chunks /\ chunk >= 1 /\ pc = "publish" /\ loopAlive /\ queue \in Seq(Chunks)
      /\ pstore[slot] \in Nat /\ chunk \in Nat
  BY NextChunk DEF Numbered
<1>2. /\ Len(queue) \in Nat /\ Len(queue') = Len(queue) + 1 /\ queue'[Len(queue) + 1] = c
      /\ \A k \in 1 .. Len(queue) : queue'[k] = queue[k]
      /\ queue' # <<>> /\ (queue = <<>> => Len(queue) = 0)
  BY <1>1
<1>3. c[2] = 1 \/ (IF queue = <<>> THEN MayArrive(c) ELSE Follows(c, queue[Len(queue)]))
  BY <1>1 DEF FlowInv, NextJoins
<1>4. c[1] = pstore[slot] /\ c[2] = chunk
  OBVIOUS
<1> HIDE DEF c
<1>5. QueueJoined'
  <2> SUFFICES ASSUME NEW k \in 2 .. Len(queue')
               PROVE  queue'[k][2] = 1 \/ Follows(queue'[k], queue'[k - 1])
    BY DEF QueueJoined, Follows
  <2>1. CASE k \in 2 .. Len(queue)
    <3>1. k \in 1 .. Len(queue) /\ k - 1 \in 1 .. Len(queue)
      BY <1>2, <2>1
    <3> QED
      BY <1>2, <2>1, <3>1 DEF FlowInv, QueueJoined
  <2>2. CASE k = Len(queue) + 1
    <3>1. queue # <<>> /\ k - 1 = Len(queue) /\ Len(queue) \in 1 .. Len(queue)
      BY <1>1, <1>2, <2>2
    <3> QED
      BY <1>2, <1>3, <2>2, <3>1
  <2> QED
    BY <1>2, <2>1, <2>2
<1>6. MayArrive(queue[1])'
  <2>1. CASE queue = <<>>
    <3>1. queue'[1] = c
      BY <1>2, <2>1
    <3> QED
      BY <1>3, <2>1, <3>1 DEF MayArrive, NewLink, Follows
  <2>2. CASE queue # <<>>
    <3>1. queue'[1] = queue[1]
      BY <1>1, <1>2, <2>2
    <3>2. MayArrive(queue[1])
      BY <2>2 DEF FlowInv
    <3> QED
      BY <3>1, <3>2 DEF MayArrive, NewLink, Follows
  <2> QED
    BY <2>1, <2>2
<1>7. NextJoins'
  <2>1. ASSUME pc' = "publish"
        PROVE  UNCHANGED <<pstore, slot>> /\ chunk' = chunk + 1
    BY <2>1 DEF PublishChunk, Accepted, kernelVars
  <2>2. ASSUME pc' = "publish"
        PROVE  Follows(<<pstore'[slot'], chunk'>>, queue'[Len(queue')])
    BY <1>1, <1>2, <1>4, <2>1, <2>2 DEF Follows
  <2> QED
    BY <1>2, <2>2 DEF NextJoins, Follows
<1> QED
  BY <1>5, <1>6, <1>7 DEF FlowInv, InOnePiece, Run, First

(* The oldest request is written on the connection.                        *)
LEMMA FlowSend ==
    ASSUME TypeOK, Numbered, FlowInv, queue # <<>>, queue' = Tail(queue),
           arrived' = Append(arrived, <<Head(queue)[1], Head(queue)[2], losses>>),
           UNCHANGED losses,
           pc' = "publish" /\ chunk' > 1 => /\ pc = "publish" /\ chunk' = chunk
                                             /\ pstore'[slot'] = pstore[slot],
           loopAlive' => loopAlive
    PROVE  FlowInv'
<1> DEFINE c == <<Head(queue)[1], Head(queue)[2], losses>>
<1>1. queue \in Seq(Chunks) /\ arrived \in Seq(Arrivals) /\ losses \in Nat
  BY DEF Numbered
<1>2. /\ Head(queue) = queue[1] /\ queue[1] \in Chunks /\ Len(queue) \in Nat /\ Len(queue) >= 1
      /\ Len(queue') = Len(queue) - 1
      /\ \A k \in 1 .. Len(queue') : queue'[k] = queue[k + 1]
      /\ queue' = <<>> <=> Len(queue) = 1
  <2>1. queue' \in Seq(Chunks) /\ Len(queue') = Len(queue) - 1
    BY <1>1, HeadTailProperties
  <2>2. \A k \in 1 .. Len(queue') : queue'[k] = queue[k + 1]
    BY <1>1, <2>1
  <2>3. Head(queue) = queue[1] /\ queue[1] \in Chunks /\ Len(queue) \in Nat /\ Len(queue) >= 1
    BY <1>1
  <2>4. queue' = <<>> <=> Len(queue') = 0
    BY <2>1
  <2> QED
    BY <2>1, <2>2, <2>3, <2>4
<1>3. /\ c \in Arrivals /\ c[1] = queue[1][1] /\ c[2] = queue[1][2] /\ c[3] = losses
  BY <1>1, <1>2 DEF Chunks, Arrivals
<1> HIDE DEF c
<1>4. arrived' = Append(arrived, c)
  BY DEF c
<1>5. /\ Len(arrived) \in Nat /\ Len(arrived') = Len(arrived) + 1 /\ arrived' # <<>>
      /\ arrived'[Len(arrived')] = c /\ arrived'[Len(arrived) + 1] = c
      /\ \A k \in 1 .. Len(arrived) : arrived'[k] = arrived[k]
  <2>1. arrived \in Seq(Arrivals) /\ c \in Arrivals
    BY <1>1, <1>3
  <2>2. Grown(arrived, c, arrived')
    BY <1>4, <2>1, AppendGrows
  <2> QED
    BY <2>2 DEF Grown
<1>6. MayArrive(queue[1])
  BY DEF FlowInv
<1>7. InOnePiece'
  <2>1. \A k \in 1 .. Len(arrived) : Run(arrived, k)
    BY DEF FlowInv, InOnePiece
  <2>2. \/ c[2] = 1
        \/ c[3] > 0 /\ \A k \in 1 .. Len(arrived) : arrived[k][3] < c[3]
        \/ arrived # <<>> /\ arrived[Len(arrived)][3] = c[3] /\ Follows(c, arrived[Len(arrived)])
    BY <1>3, <1>6 DEF MayArrive, NewLink, Follows
  <2>3. \A k \in 1 .. Len(arrived) + 1 : Run(Append(arrived, c), k)
    BY <1>1, <1>3, <2>1, <2>2, RunGrows
  <2> QED
    BY <1>4, <1>5, <2>3 DEF InOnePiece, Run, First
<1>8. \A k \in 1 .. Len(arrived') : arrived'[k][3] <= losses'
  <2>1. \A k \in 1 .. Len(arrived) : arrived[k][3] <= losses
    BY DEF FlowInv
  <2>2. \A k \in 1 .. Len(arrived') : k \in 1 .. Len(arrived) \/ k = Len(arrived) + 1
    BY <1>5
  <2> QED
    BY <1>1, <1>3, <1>5, <2>1, <2>2
(* What follows the request that has just left may arrive now.             *)
<1>9. ASSUME NEW e, Follows(e, queue[1])
      PROVE  MayArrive(e)'
  <2>1. Follows(e, c)
    BY <1>3, <1>9 DEF Follows
  <2> QED
    BY <1>3, <1>5, <2>1 DEF MayArrive, Follows
<1>10. QueueJoined'
  <2> SUFFICES ASSUME NEW k \in 2 .. Len(queue')
               PROVE  queue'[k][2] = 1 \/ Follows(queue'[k], queue'[k - 1])
    BY DEF QueueJoined, Follows
  <2>1. /\ k \in 1 .. Len(queue') /\ k - 1 \in 1 .. Len(queue')
        /\ k + 1 \in 2 .. Len(queue) /\ (k + 1) - 1 = k /\ (k - 1) + 1 = k
    BY <1>2
  <2>2. queue'[k] = queue[k + 1] /\ queue'[k - 1] = queue[k]
    BY <1>2, <2>1
  <2> QED
    BY <2>1, <2>2 DEF FlowInv, QueueJoined
<1>11. ASSUME queue' # <<>>
       PROVE  MayArrive(queue[1])'
  <2>1. 2 \in 2 .. Len(queue) /\ 1 \in 1 .. Len(queue') /\ queue'[1] = queue[2]
    BY <1>2, <1>11
  <2>2. queue[2][2] = 1 \/ Follows(queue[2], queue[1])
    BY <2>1 DEF FlowInv, QueueJoined
  <2>3. CASE queue[2][2] = 1
    BY <2>1, <2>3 DEF MayArrive
  <2>4. CASE Follows(queue[2], queue[1])
    BY <1>9, <2>1, <2>4
  <2> QED
    BY <2>2, <2>3, <2>4
<1>12. NextJoins'
  <2> SUFFICES ASSUME pc' = "publish", loopAlive', chunk' > 1
               PROVE  IF queue' = <<>> THEN MayArrive(<<pstore[slot], chunk>>)'
                      ELSE Follows(<<pstore'[slot'], chunk'>>, queue'[Len(queue')])
    BY DEF NextJoins, Follows
  <2>1. Follows(<<pstore'[slot'], chunk'>>, queue[Len(queue)])
    BY DEF FlowInv, NextJoins
  <2>2. CASE queue' = <<>>
    BY <1>2, <1>9, <2>1, <2>2
  <2>3. CASE queue' # <<>>
    <3>1. Len(queue') \in 1 .. Len(queue') /\ Len(queue') + 1 = Len(queue)
      BY <1>2, <2>3
    <3> QED
      BY <1>2, <2>1, <2>3, <3>1
  <2> QED
    BY <2>2, <2>3
<1> QED
  BY <1>7, <1>8, <1>10, <1>11, <1>12 DEF FlowInv

(* A connection is lost.                                                   *)
LEMMA FlowLost ==
    ASSUME TypeOK, Numbered, FlowInv, LinkLost, queue' \in {queue, <<>>},
           pc' = "publish" /\ chunk' > 1 /\ loopAlive' =>
              /\ pc = "publish" /\ loopAlive /\ chunk' = chunk /\ pstore'[slot'] = pstore[slot]
    PROVE  FlowInv'
<1>1. /\ arrived \in Seq(Arrivals) /\ losses \in Nat /\ queue \in Seq(Chunks)
      /\ \A k \in 1 .. Len(arrived) : arrived[k] \in Arrivals
  BY DEF Numbered
<1>2. /\ arrived' \in Seq(Arrivals) /\ Len(arrived') <= Len(arrived)
      /\ \A k \in 1 .. Len(arrived') : arrived'[k] = arrived[k]
      /\ losses' = losses + 1
  BY LostPrefix
<1>3. \A k \in 1 .. Len(arrived') : Run(arrived', k)
  BY <1>1, <1>2, RunPrefix DEF FlowInv, InOnePiece
<1>4. \A k \in 1 .. Len(arrived') : arrived'[k][3] < losses'
  <2>1. \A k \in 1 .. Len(arrived') : k \in 1 .. Len(arrived)
    BY <1>1, <1>2
  <2>2. \A k \in 1 .. Len(arrived) : arrived[k][3] <= losses /\ arrived[k][3] \in Nat
    BY <1>1 DEF FlowInv, Arrivals
  <2> QED
    BY <1>1, <1>2, <2>1, <2>2
<1>5. NewLink'
  BY <1>1, <1>2, <1>4 DEF NewLink
<1>6. \A k \in 1 .. Len(arrived') : arrived'[k][3] <= losses'
  <2>1. \A k \in 1 .. Len(arrived') : arrived'[k][3] \in Nat
    BY <1>2 DEF Arrivals
  <2> QED
    BY <1>1, <1>2, <1>4, <2>1
<1>7. QueueJoined'
  <2>1. CASE queue' = queue
    BY <2>1 DEF FlowInv, QueueJoined, Follows
  <2>2. CASE queue' = <<>>
    <3>1. Len(queue') = 0
      BY <2>2
    <3> QED
      BY <3>1 DEF QueueJoined
  <2> QED
    BY <2>1, <2>2
<1>8. NextJoins'
  <2> SUFFICES ASSUME pc' = "publish", loopAlive', chunk' > 1, queue' # <<>>
               PROVE  Follows(<<pstore'[slot'], chunk'>>, queue'[Len(queue')])
    BY <1>5 DEF NextJoins, Follows, MayArrive
  <2>1. queue' = queue
    OBVIOUS
  <2> QED
    BY <2>1 DEF FlowInv, NextJoins
<1>9. InOnePiece'
  BY <1>3 DEF InOnePiece, Run, First
<1> QED
  BY <1>5, <1>6, <1>7, <1>8, <1>9 DEF FlowInv, MayArrive

LEMMA FlowStep ==
    ASSUME TypeOK, Numbered, ScanInv, Known, FlowInv, [Next]_vars
    PROVE  FlowInv'
<1>1. CASE PublishChunk
  BY <1>1, FlowChange, FlowPublish
<1>2. CASE ~PublishChunk
  <2>1. pc' = "publish" /\ chunk' > 1 =>
           /\ pc = "publish" /\ chunk' = chunk /\ slot' = slot /\ pstore'[slot'] = pstore[slot]
           /\ loopAlive' => loopAlive
    BY <1>2, StillPublishing DEF BeginUpload
  <2>2. CASE UNCHANGED <<queue, arrived, losses>>
    <3>1. NextJoins'
      <4> SUFFICES ASSUME pc' = "publish", loopAlive', chunk' > 1
                   PROVE  NextJoins'
        BY DEF NextJoins
      <4>1. /\ pc = "publish" /\ loopAlive /\ chunk' = chunk /\ pstore'[slot'] = pstore[slot]
        BY <2>1
      <4> QED
        BY <2>2, <4>1 DEF FlowInv, NextJoins, MayArrive, NewLink, Follows
    <3>2. queue' # <<>> => MayArrive(queue[1])'
      BY <2>2 DEF FlowInv, MayArrive, NewLink, Follows
    <3>3. InOnePiece' /\ QueueJoined'
      BY <2>2 DEF FlowInv, InOnePiece, QueueJoined, Run, First, Follows
    <3>4. \A k \in 1 .. Len(arrived') : arrived'[k][3] <= losses'
      BY <2>2 DEF FlowInv
    <3> QED
      BY <3>1, <3>2, <3>3, <3>4 DEF FlowInv
  <2>3. CASE /\ Send /\ queue # <<>> /\ queue' = Tail(queue)
             /\ arrived' = Append(arrived, <<Head(queue)[1], Head(queue)[2], losses>>)
             /\ UNCHANGED losses
    <3>1. loopAlive' => loopAlive
      BY <2>3 DEF Send
    <3> QED
      BY <2>1, <2>3, <3>1, FlowSend
  <2>4. CASE LinkLost /\ queue' \in {queue, <<>>}
    BY <2>1, <2>4, FlowLost
  <2> QED
    BY <1>2, <2>2, <2>3, <2>4, FlowChange
<1> QED
  BY <1>1, <1>2

(* What is on its way stays so while no connection is lost.                *)
LEMMA HoldsStays ==
    ASSUME TypeOK, Numbered, [Next]_vars, losses' = 0
    PROVE  /\ losses = 0 /\ crashes' = crashes
           /\ \A d, n : Holds(d, n) => Holds(d, n)'
<1>1. /\ queue \in Seq(Chunks) /\ arrived \in Seq(Arrivals) /\ losses \in Nat
  BY DEF Numbered
<1>2. ~LinkLost
  BY <1>1 DEF LinkLost
<1>3. losses = 0 /\ crashes' = crashes
  BY <1>2, FlowChange
<1>4. DOMAIN queue = 1 .. Len(queue) /\ DOMAIN arrived = 1 .. Len(arrived)
      /\ Len(queue) \in Nat /\ Len(arrived) \in Nat
  BY <1>1
<1>5. ASSUME NEW d, NEW i, Arrived(<<d, i>>) \/ Queued(<<d, i>>)
      PROVE  Arrived(<<d, i>>)' \/ Queued(<<d, i>>)'
  <2>1. CASE UNCHANGED <<queue, arrived>>
    BY <1>5, <2>1 DEF Arrived, Queued
  <2>2. CASE PublishChunk /\ UNCHANGED arrived /\ queue' = Append(queue, <<pstore[slot], chunk>>)
    <3>1. \A k \in DOMAIN queue : k \in DOMAIN queue' /\ queue'[k] = queue[k]
      BY <1>1, <2>2, NextChunk
    <3> QED
      BY <1>5, <2>2, <3>1 DEF Arrived, Queued
  <2>3. CASE /\ queue # <<>> /\ queue' = Tail(queue)
             /\ arrived' = Append(arrived, <<Head(queue)[1], Head(queue)[2], losses>>)
    <3> DEFINE c == <<Head(queue)[1], Head(queue)[2], losses>>
    <3>1. Head(queue) = queue[1] /\ queue[1] \in Chunks /\ c \in Arrivals
          /\ c[1] = queue[1][1] /\ c[2] = queue[1][2]
      BY <1>1, <2>3 DEF Chunks, Arrivals
    <3>2. arrived' = Append(arrived, c)
      BY <2>3
    <3> HIDE DEF c
    <3>3. /\ DOMAIN arrived' = 1 .. Len(arrived) + 1 /\ arrived'[Len(arrived) + 1] = c
          /\ \A k \in 1 .. Len(arrived) : arrived'[k] = arrived[k]
      BY <1>1, <3>1, <3>2
    <3>4. CASE Arrived(<<d, i>>)
      <4>1. PICK k \in 1 .. Len(arrived) : arrived[k][1] = d /\ arrived[k][2] = i
        BY <1>4, <3>4 DEF Arrived
      <4>2. k \in DOMAIN arrived' /\ arrived'[k] = arrived[k]
        BY <1>4, <3>3
      <4> QED
        BY <4>1, <4>2 DEF Arrived
    <3>5. CASE Queued(<<d, i>>)
      <4>1. PICK k \in 1 .. Len(queue) : queue[k] = <<d, i>>
        BY <1>4, <3>5 DEF Queued
      <4>2. CASE k = 1
        <5>1. Len(arrived) + 1 \in DOMAIN arrived' /\ c[1] = d /\ c[2] = i
          BY <1>4, <3>1, <3>3, <4>1, <4>2
        <5> QED
          BY <3>3, <5>1 DEF Arrived
      <4>3. CASE k # 1
        <5>1. k - 1 \in DOMAIN queue' /\ queue'[k - 1] = queue[k]
          BY <1>1, <1>4, <2>3, <4>1, <4>3
        <5> QED
          BY <4>1, <5>1 DEF Queued
      <4> QED
        BY <4>2, <4>3
    <3> QED
      BY <1>5, <3>4, <3>5
  <2> QED
    BY <1>2, <2>1, <2>2, <2>3, FlowChange
<1> QED
  BY <1>3, <1>5 DEF Holds

(* The chunk that is handed over joins those before it.                    *)
LEMMA ChunkJoins ==
    ASSUME TypeOK, Numbered, OnItsWay, PublishChunk, [Next]_vars, losses' = 0
    PROVE  \A d, n : d = pstore[slot] /\ n = chunk => Holds(d, n)'
<1> SUFFICES ASSUME NEW d, NEW n, d = pstore[slot], n = chunk
             PROVE  Holds(d, n)'
  OBVIOUS
<1>1. pc = "publish" /\ n \in Nat /\ n >= 1 /\ <<d, n>> \in Chunks
  BY NextChunk
<1>2. queue' = Append(queue, <<d, n>>) /\ queue \in Seq(Chunks)
  BY DEF PublishChunk, Accepted, WithChunk, Numbered
<1>3. Holds(d, n - 1)
  BY <1>1, HoldsStays DEF OnItsWay
<1>4. Holds(d, n - 1)'
  BY <1>3, HoldsStays
<1>5. Queued(<<d, n>>)'
  <2>1. Len(queue) + 1 \in DOMAIN queue' /\ queue'[Len(queue) + 1] = <<d, n>>
    BY <1>1, <1>2
  <2> QED
    BY <2>1 DEF Queued
<1>6. \A i \in 1 .. n : i \in 1 .. n - 1 \/ i = n
  BY <1>1
<1> QED
  BY <1>4, <1>5, <1>6 DEF Holds

(* A record that goes was delivered.                                       *)
LEMMA ClearedWasDelivered ==
    ASSUME TypeOK, Numbered, Known, [Next]_vars, NEW s \in DOMAIN pstore \ DOMAIN pstore'
    PROVE  pstore[s] \in DOMAIN written /\ uploads[pstore[s]] > 0
<1>1. pstore[s] \in DOMAIN written
  BY DEF TypeOK
<1>2. Contains(s)
  <2>1. CASE Calm
    BY <2>1, CalmRecords
  <2>2. CASE ClearUploaded
    BY <2>2, ClearFacts DEF ClearUploaded, Known, Numbered
  <2>3. ASSUME NEW t \in Slots, ClearDelivered(t)
        PROVE  Contains(s)
    <3>1. DOMAIN pstore \ {t} \subseteq DOMAIN pstore' /\ Contains(t)
      BY <2>3, ClearFacts DEF ClearDelivered, Numbered
    <3> QED
      BY <3>1
  <2>4. ASSUME NEW t \in Slots, NEW n \in Sizes, Panic(t, n)
        PROVE  FALSE
    BY <2>4, PanicFacts DEF Appeared
  <2> QED
    BY <2>1, <2>2, <2>3, <2>4, Steps DEF Clearing
<1>3. PICK e \in DOMAIN written : written[e].id = written[pstore[s]].id /\ uploads[e] > 0
  BY <1>2 DEF Known, Contains, Id
<1>4. e = pstore[s]
  BY <1>1, <1>3 DEF Numbered
<1> QED
  BY <1>1, <1>3, <1>4

LEMMA NewDump ==
    ASSUME TypeOK, Numbered, [Next]_vars, NEW d \in DOMAIN written' \ DOMAIN written
    PROVE  InPstore(d)' /\ uploads'[d] = 0
<1>1. PICK s \in Slots, n \in Sizes : Panic(s, n)
  BY CalmRecords, Steps DEF Clearing, ClearUploaded, ClearDelivered, Examine
<1>2. PICK e : Appeared(s, e, n)
  BY <1>1, PanicFacts
<1>3. /\ DOMAIN written' = DOMAIN written \cup {e} /\ uploads'[e] = 0
      /\ DOMAIN pstore' = DOMAIN pstore \cup {s} /\ pstore'[s] = e
  BY <1>2, Zenon DEF Appeared
<1> QED
  BY <1>3 DEF InPstore

LEMMA AcceptedStep ==
    ASSUME TypeOK, Numbered, Known, AcceptedInv, [Next]_vars
    PROVE  AcceptedInv'
<1>1. ASSUME NEW d \in DOMAIN written
      PROVE  InPstore(d)' \/ uploads'[d] > 0
  <2>1. uploads[d] \in Nat /\ (uploads'[d] # uploads[d] => uploads'[d] = uploads[d] + 1)
    BY HistoryGrows DEF Numbered
  <2>2. CASE uploads[d] > 0
    BY <2>1, <2>2
  <2>3. CASE InPstore(d)
    <3>1. PICK s \in DOMAIN pstore : pstore[s] = d
      BY <2>3 DEF InPstore
    <3>2. CASE s \in DOMAIN pstore'
      BY <3>1, <3>2, RecordsStay DEF InPstore
    <3>3. CASE s \notin DOMAIN pstore'
      BY <2>1, <3>1, <3>3, ClearedWasDelivered
    <3> QED
      BY <3>2, <3>3
  <2> QED
    BY <2>2, <2>3 DEF AcceptedInv
<1> QED
  BY <1>1, NewDump DEF AcceptedInv, InPstore

LEMMA OnItsWayStep ==
    ASSUME TypeOK, Numbered, ScanInv, Known, UploadsInv, OnItsWay, [Next]_vars
    PROVE  OnItsWay'
<1>0. crashes' <= losses'
  <2>1. crashes \in Nat /\ losses \in Nat /\ crashes <= losses
    BY DEF Numbered, OnItsWay
  <2>2. \/ crashes' = crashes /\ losses' = losses
        \/ losses' = losses + 1 /\ crashes' \in {crashes, crashes + 1}
    BY FlowChange DEF LinkLost
  <2> QED
    BY <2>1, <2>2
<1> SUFFICES ASSUME losses' = 0
             PROVE  /\ \A d \in DOMAIN written' :
                          uploads'[d] > 0 => Holds(d, written[d].chunks)'
                    /\ pc' = "publish" => Holds(pstore[slot], chunk - 1)'
  BY <1>0 DEF OnItsWay
<1>1. ASSUME NEW d \in DOMAIN written, uploads'[d] > 0
      PROVE  Holds(d, written[d].chunks)'
  <2>1. /\ uploads[d] \in Nat /\ written'[d] = written[d]
        /\ uploads'[d] # uploads[d] =>
             /\ PublishChunk /\ LastChunk /\ d = pstore[slot]
             /\ uploads'[d] = uploads[d] + 1
    BY HistoryGrows DEF Numbered
  <2>2. PICK n : n = written[d].chunks
    OBVIOUS
  <2>3. Holds(d, n)'
    <3>1. CASE uploads[d] > 0
      <4>1. Holds(d, n)
        BY <2>2, <3>1, HoldsStays DEF OnItsWay
      <4> QED
        BY <4>1, HoldsStays
    <3>2. CASE PublishChunk /\ LastChunk /\ d = pstore[slot]
      BY <2>2, <3>2, ChunkJoins DEF LastChunk, Size
    <3> QED
      BY <1>1, <2>1, <3>1, <3>2
  <2> QED
    BY <2>1, <2>2, <2>3
<1>2. ASSUME pc' = "publish"
      PROVE  Holds(pstore[slot], chunk - 1)'
  <2>1. PICK d, n : d = pstore'[slot'] /\ n = chunk' - 1
    OBVIOUS
  <2>2. Holds(d, n)'
    <3>1. CASE \E s \in Slots : BeginUpload(s)
      <4>1. n = 0
        BY <2>1, <3>1 DEF BeginUpload
      <4> QED
        BY <4>1 DEF Holds
    <3>2. CASE PublishChunk /\ UNCHANGED <<pstore, slot>> /\ chunk' = chunk + 1
      <4>1. n = chunk /\ d = pstore[slot]
        BY <2>1, <3>2, NextChunk
      <4> QED
        BY <3>2, <4>1, ChunkJoins
    <3>3. CASE pc = "publish" /\ UNCHANGED <<slot, chunk>> /\ pstore'[slot] = pstore[slot]
      <4>1. Holds(d, n)
        BY <2>1, <3>3, HoldsStays DEF OnItsWay
      <4> QED
        BY <4>1, HoldsStays
    <3> QED
      BY <1>2, <3>1, <3>2, <3>3, StillPublishing
  <2> QED
    BY <2>1, <2>2
<1> QED
  BY <1>1, <1>2, NewDump

(* A record that is owed within a scan was owed before the step.           *)
LEMMA OwesStays ==
    ASSUME TypeOK, Numbered, ScanInv, Known, [Next]_vars, ~StartScan,
           NEW s \in DOMAIN pstore', Id(s)' \in owed', Id(s)' \notin DOMAIN delivered',
           pc' \notin {"down", "stopped"}, ~Start
    PROVE  /\ s \in DOMAIN pstore /\ Id(s) \in owed /\ ~Contains(s) /\ Id(s)' = Id(s)
           /\ PublishChunk /\ LastChunk => s # slot
<1> USE DEF kernelVars, fileVars, localVars, taskVars, linkVars, histVars, boundVars, vars
<1>1. owed' \subseteq owed
  BY DEF Next, Scan, UploadFails, Return, EndScan, LoopStop, Stop, Connect, Disconnect, Send,
         Panic, ClearUploaded, ClearDelivered, Defer, SkipUnreadable, BeginUpload, Examine,
         PublishChunk, Accepted, Save, TimePasses, Crash
<1>2. s \in DOMAIN pstore
  <2>1. CASE Calm \/ Clearing
    BY <2>1, CalmRecords, ClearFacts DEF Clearing, ClearUploaded, ClearDelivered, Numbered
  <2>2. ASSUME NEW t \in Slots, NEW n \in Sizes, Panic(t, n), s \notin DOMAIN pstore
        PROVE  FALSE
    <3>1. PICK d : Appeared(t, d, n)
      BY <2>2, PanicFacts
    <3>2. DOMAIN pstore' = DOMAIN pstore \cup {t} /\ pstore'[t] = d
      BY <3>1, Zenon DEF Appeared
    <3>3. written'[d] = [id |-> <<t, clock>>, chunks |-> n]
      BY <3>1, Zenon DEF Appeared
    <3>4. \A e \in DOMAIN written : written[e].id # <<t, clock>>
      BY <3>1, Zenon DEF Appeared
    <3>5. Id(s)' = <<t, clock>>
      BY <2>2, <3>2, <3>3 DEF Id
    <3> QED
      BY <1>1, <3>4, <3>5 DEF Known
  <2> QED
    BY <2>1, <2>2, Steps
<1>3. Id(s)' = Id(s)
  BY <1>2, RecordsStay
<1>4. ~Contains(s)
  BY <1>3, DeliveriesChange DEF Contains, Crash
<1>5. PublishChunk /\ LastChunk => s # slot
  BY <1>3 DEF PublishChunk, Accepted, WithDump, Insert, With
<1> QED
  BY <1>1, <1>2, <1>3, <1>4, <1>5

LEMMA OwedStep ==
    ASSUME TypeOK, Numbered, ScanInv, Known, OwedInv, [Next]_vars
    PROVE  OwedInv'
<1> USE DEF kernelVars, fileVars, localVars, taskVars, linkVars, histVars, boundVars, vars
<1>1. ASSUME pc' = "idle", ~soon', NEW s \in DOMAIN pstore', Id(s)' \in owed',
             Id(s)' \notin DOMAIN delivered'
      PROVE  FALSE
  <2>1. /\ ~StartScan /\ ~Start
        /\ \/ pc = "idle" /\ ~soon
           \/ EndScan /\ ~deferred
    <3>1. UNCHANGED <<pc, soon>> \/ EndScan \/ UploadFails \/ Start \/ pc' # "idle"
      BY DEF Next, Scan, StartScan, LoopStop, Stop, Connect, Disconnect, Send, Panic, ClearUploaded,
         ClearDelivered, Defer, SkipUnreadable, BeginUpload, Examine, PublishChunk, Accepted, Save,
         TimePasses, Crash
    <3>2. ~StartScan /\ ~Start /\ ~UploadFails
      BY <1>1 DEF StartScan, Start, StartUnread, Begin, UploadFails, Return
    <3>3. EndScan => ~deferred
      BY <1>1 DEF EndScan, Return
    <3> QED
      BY <1>1, <3>1, <3>2, <3>3
  <2>2. s \in DOMAIN pstore /\ Id(s) \in owed /\ ~Contains(s)
    BY <1>1, <2>1, OwesStays
  <2>3. CASE pc = "idle" /\ ~soon
    BY <2>2, <2>3 DEF OwedInv, PromptRetry, Contains
  <2>4. CASE EndScan /\ ~deferred
    BY <2>2, <2>4 DEF OwedInv, EndScan
  <2> QED
    BY <2>1, <2>3, <2>4
<1>2. ASSUME pc' = "scan" \/ Uploading', ~deferred', NEW s \in DOMAIN pstore',
             Id(s)' \in owed', Id(s)' \notin DOMAIN delivered'
      PROVE  s \in todo' \/ (pc' = "publish" /\ s = slot')
  <2>1. CASE StartScan
    <3>1. s \in DOMAIN pstore /\ Id(s)' = Id(s) /\ todo' \subseteq DOMAIN pstore
      BY <2>1 DEF StartScan, Id
    <3>2. PICK t \in todo' : Id(t) = Id(s)
      BY <1>2, <2>1, <3>1 DEF StartScan
    <3>3. pstore[t] = pstore[s]
      BY <3>1, <3>2 DEF Id, Numbered, TypeOK
    <3> QED
      BY <3>1, <3>3 DEF TypeOK
  <2>2. CASE ~StartScan
    <3>1. ~Start /\ ~deferred /\ (pc = "scan" \/ Uploading)
      <4>1. pc' \in {"scan", "publish", "save", "delete"}
        BY <1>2 DEF Uploading
      <4>2. ~Start /\ ~Crash /\ ~UploadFails /\ ~EndScan
        BY <4>1 DEF Start, StartUnread, Begin, Crash, UploadFails, EndScan, Return
      <4>3. \/ UNCHANGED <<pc, deferred>>
            \/ pc \in {"scan", "publish", "save", "delete"} /\ (deferred' = deferred \/ deferred')
            \/ pc' = "stopped"
        BY <2>2, <4>2 DEF Next, Scan, LoopStop, Stop, Connect, Disconnect, Send, Panic,
           ClearUploaded, ClearDelivered, Defer, SkipUnreadable, BeginUpload, Examine,
           PublishChunk, Accepted, Save, TimePasses
      <4> QED
        BY <1>2, <4>1, <4>2, <4>3 DEF Uploading
    <3>2. /\ s \in DOMAIN pstore /\ Id(s) \in owed /\ ~Contains(s) /\ Id(s)' = Id(s)
          /\ PublishChunk /\ LastChunk => s # slot
      BY <1>2, <2>2, <3>1, OwesStays DEF Uploading
    <3>3. s \in todo \/ (pc = "publish" /\ s = slot)
      BY <3>1, <3>2 DEF OwedInv
    <3>4. CASE s \in todo
      <4>1. \/ todo' = todo
            \/ \E t \in Slots : \/ ClearDelivered(t) \/ Defer(t)
                                \/ SkipUnreadable(t) \/ BeginUpload(t)
        BY <1>2, <2>2, <3>1 DEF Next, Scan, UploadFails, Return, EndScan, LoopStop, Stop, Connect,
           Disconnect, Send, Panic, ClearUploaded, PublishChunk, Accepted, Save, TimePasses,
           Crash, Uploading
      <4>2. ASSUME NEW t \in Slots,
                   ClearDelivered(t) \/ Defer(t) \/ SkipUnreadable(t) \/ BeginUpload(t)
            PROVE  s \in todo' \/ (pc' = "publish" /\ s = slot')
        <5>1. todo' = todo \ {t} /\ ~Defer(t)
          BY <1>2, <4>2 DEF ClearDelivered, Defer, SkipUnreadable, BeginUpload, Examine
        <5>2. CASE s # t
          BY <3>4, <5>1, <5>2
        <5>3. CASE s = t
          BY <1>2, <3>2, <4>2, <5>1, <5>3 DEF ClearDelivered, SkipUnreadable, BeginUpload
        <5> QED
          BY <5>2, <5>3
      <4> QED
        BY <3>4, <4>1, <4>2
    <3>5. CASE pc = "publish" /\ s = slot
      <4>1. pc' = "publish" /\ slot' = slot
        BY <1>2, <2>2, <3>1, <3>2, <3>5 DEF Next, Scan, UploadFails, Return, EndScan, LoopStop,
           Stop, Connect, Disconnect, Send, Panic, ClearUploaded, ClearDelivered, Defer,
           SkipUnreadable, BeginUpload, Examine, PublishChunk, Accepted, Save, TimePasses, Crash,
           Uploading
      <4> QED
        BY <3>5, <4>1
    <3> QED
      BY <3>3, <3>4, <3>5
  <2> QED
    BY <2>1, <2>2
<1> QED
  BY <1>1, <1>2 DEF OwedInv, PromptRetry, Contains

-----------------------------------------------------------------------------
(* The theorems.                                                           *)

(* Every state of the task has the invariant, whatever fails or restarts,  *)
(* and whether or not the state file can be read.                          *)
THEOREM SpecInv == Spec => []CInv
<1>1. ASSUME CInv, [Next]_vars
      PROVE  CInv'
  <2> USE <1>1 DEF CInv
  <2>1. RecordTypes /\ TimeTypes /\ Flags
    BY TypeParts
  <2>2. RecordTypes' /\ TimeTypes' /\ Flags'
    BY <2>1, RecordTypesStep, TimeTypesStep, FlagsStep
  <2>3. ControlTypes' /\ Len(queue') <= QueueCap
    BY ControlTypesStep, QueueStep
  <2>4. (RecordTypes /\ ControlTypes /\ TimeTypes /\ Flags /\ Len(queue) <= QueueCap => TypeOK)'
    BY TypeParts, PTL
  <2>5. TypeOK'
    BY <2>2, <2>3, <2>4
  <2>6. Numbered' /\ ScanInv' /\ Known' /\ UploadsInv'
    BY NumberedStep, ScanStep, KnownStep, UploadsStep
  <2>7. FreshKnown' /\ FlowInv' /\ AcceptedInv' /\ OnItsWay' /\ OwedInv'
    BY FreshStep, FlowStep, AcceptedStep, OnItsWayStep, OwedStep
  <2> QED
    BY <2>5, <2>6, <2>7
<1> QED
  BY <1>1, InitInv, PTL DEF Spec

(* Types, whatever is written, fails or restarts.                          *)
THEOREM TypeCorrect == Spec => []TypeOK
<1>1. CInv => TypeOK
  BY DEF CInv
<1> QED
  BY <1>1, SpecInv, PTL

(* A record is removed only when every chunk of its dump was handed over;  *)
(* while no connection and no process has ended each arrives or is queued. *)
THEOREM DeletedOnlyAcceptedTheorem == Spec => []DeletedOnlyAccepted
<1>1. CInv => DeletedOnlyAccepted
  BY DEF CInv, AcceptedInv, OnItsWay, Holds, DeletedOnlyAccepted
<1> QED
  BY <1>1, SpecInv, PTL

(* A dump is handed over at most once in the life of a process.            *)
THEOREM SentOncePerLifeTheorem == Spec => []SentOncePerLife
<1>1. ASSUME CInv, NEW d \in DOMAIN written
      PROVE  uploads[d] <= 1 + crashes
  <2>1. /\ uploads[d] \in Nat /\ crashes \in Nat
        /\ uploads[d] <= crashes + (IF written[d].id \in DOMAIN delivered THEN 1 ELSE 0)
    BY <1>1 DEF CInv, Numbered, UploadsInv
  <2> QED
    BY <2>1
<1>2. CInv => SentOncePerLife
  BY <1>1 DEF SentOncePerLife
<1> QED
  BY <1>2, SpecInv, PTL

(* A delivery the state file holds, within the retention, is not repeated  *)
(* by a process that has read the file or written it.                      *)
THEOREM NoFreshResendTheorem == Spec => NoFreshResend
<1> DEFINE Repeats ==
      \E d \in DOMAIN written :
         /\ uploads'[d] > uploads[d]
         /\ written[d].id \in DOMAIN stateFile
         /\ stateFile[written[d].id] + Retention >= clock
         /\ ~unread
<1>1. ASSUME CInv, [Next]_vars, NEW d \in DOMAIN written, uploads'[d] > uploads[d],
             written[d].id \in DOMAIN stateFile,
             stateFile[written[d].id] + Retention >= clock, ~unread
      PROVE  FALSE
  <2>1. uploads[d] \in Nat
    BY <1>1 DEF CInv, Numbered
  <2>2. PublishChunk /\ d = pstore[slot]
    BY <1>1, <2>1, HistoryGrows DEF CInv
  <2>3. pc = "publish" /\ written[d].id \notin DOMAIN delivered
    BY <1>1, <2>2, LastChunkFacts DEF CInv
  <2> QED
    BY <1>1, <2>3 DEF CInv, FreshKnown
<1>2. CInv /\ [Next]_vars => ~Repeats
  BY <1>1
<1>3. CInv /\ [Next]_vars =>
        [\A d \in DOMAIN written :
           LET id == written[d].id
           IN  uploads'[d] > uploads[d] =>
                 unread \/ ~(id \in DOMAIN stateFile /\ stateFile[id] + Retention >= clock)]_vars
  BY <1>2
<1> QED
  BY <1>3, SpecInv, PTL DEF Spec, NoFreshResend

(* When the last chunk of a dump arrives, what came before it on that      *)
(* connection is the rest of the dump, from its first chunk or from the    *)
(* first on the connection when one was lost in between.                   *)
THEOREM LastChunkMeansWholeTheorem == Spec => []LastChunkMeansWhole
<1>1. ASSUME CInv, NEW k \in DOMAIN arrived, arrived[k][2] = written[arrived[k][1]].chunks
      PROVE  LET d == arrived[k][1]
                 n == written[d].chunks
             IN  \E a \in 1 .. k :
                    /\ arrived[a][2] = 1 \/ FirstOnLink(a)
                    /\ \A x \in a .. k : arrived[x] = <<d, n - (k - x), arrived[k][3]>>
  <2>1. k \in 1 .. Len(arrived)
    BY <1>1 DEF CInv, Numbered
  <2>2. Run(arrived, k)
    BY <1>1, <2>1 DEF CInv, FlowInv, InOnePiece
  <2> QED
    BY <1>1, <2>2 DEF Run, First, FirstOnLink
<1>2. CInv => LastChunkMeansWhole
  BY <1>1 DEF LastChunkMeansWhole
<1> QED
  BY <1>2, SpecInv, PTL

(* The task sleeps long only when no readable dump of the scan waits.      *)
THEOREM PromptRetryTheorem == Spec => []PromptRetry
<1>1. CInv => PromptRetry
  BY DEF CInv, OwedInv
<1> QED
  BY <1>1, SpecInv, PTL
=============================================================================
