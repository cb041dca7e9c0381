------------------------- MODULE LogPipeline_proofs -------------------------
(***************************************************************************)
(* Theorems about LogPipeline for every configuration that Config accepts, *)
(* every number of entries, crashes, signals and failing file-system calls *)
(* and every capacity.                                                     *)
(*                                                                         *)
(* The argument is one inductive invariant, IInv of LogPipeline: the types *)
(* of the variables, who owns the lock, what a flush in progress implies,  *)
(* the lengths of chunks and batches, and the flag of the backlog.         *)
(*                                                                         *)
(* The second half is about the spool directory: how far it can outgrow    *)
(* its limit, how much of it orphaned temporary files can take, when there *)
(* is room for one chunk, and that its chunks are in order of age.         *)
(***************************************************************************)
EXTENDS LogPipeline, TLAPS, SequenceTheorems, WellFoundedInduction,
        FiniteSetTheorems

-----------------------------------------------------------------------------
(* Minima and maxima.                                                      *)

(* The smaller of two naturals.                                            *)
LEMMA MinOfTwo ==
    ASSUME NEW a \in Nat, NEW b \in Nat
    PROVE  /\ Min({a, b}) \in {a, b}
           /\ Min({a, b}) <= a
           /\ Min({a, b}) <= b
<1>1. \E x \in {a, b} : \A y \in {a, b} : x =< y
  <2>1. CASE a <= b BY <2>1
  <2>2. CASE b <= a BY <2>2
  <2>3. QED BY <2>1, <2>2
<1>2. QED BY <1>1 DEF Min

(* The larger of two naturals.                                             *)
LEMMA MaxOfTwo ==
    ASSUME NEW a \in Nat, NEW b \in Nat
    PROVE  /\ Max({a, b}) \in {a, b}
           /\ Max({a, b}) >= a
           /\ Max({a, b}) >= b
<1>1. \E x \in {a, b} : \A y \in {a, b} : x >= y
  <2>1. CASE a <= b BY <2>1
  <2>2. CASE b <= a BY <2>2
  <2>3. QED BY <2>1, <2>2
<1>2. QED BY <1>1 DEF Max

(* A nonempty bounded set of naturals has a largest element: its distance  *)
(* to the bound cannot decrease for ever.                                  *)
LEMMA MaxExists ==
    ASSUME NEW S \in SUBSET Nat, S # {}, NEW b \in Nat, \A n \in S : n <= b
    PROVE  /\ Max(S) \in S
           /\ \A n \in S : n <= Max(S)
<1> DEFINE T == {b - n : n \in S}
<1>1. T \subseteq Nat /\ T # {}
  OBVIOUS
<1>2. PICK t \in T : \A u \in T : ~ (<<u, t>> \in OpToRel(<, Nat))
  BY <1>1, NatLessThanWellFounded, WFMin, Zenon
<1>3. PICK m \in S : t = b - m
  OBVIOUS
<1>4. \A n \in S : m >= n
  <2> TAKE n \in S
  <2>1. b - n \in T /\ b - n \in Nat /\ b - m \in Nat
    OBVIOUS
  <2>2. ~ (b - n < b - m)
    BY <2>1, <1>2, <1>3 DEF OpToRel
  <2>3. QED BY <2>2
<1>5. \E x \in S : \A y \in S : x >= y
  BY <1>4
<1>6. QED BY <1>5 DEF Max

-----------------------------------------------------------------------------
(* Sequences of entries, and how write_chunk cuts them.                    *)

(* A slice of a sequence of entries.                                       *)
LEMMA SliceType ==
    ASSUME NEW s \in Seq(Entries), NEW m \in Nat \ {0}, NEW n \in Nat, n <= Len(s)
    PROVE  /\ SubSeq(s, m, n) \in Seq(Entries)
           /\ Len(SubSeq(s, m, n)) = IF m <= n THEN n - m + 1 ELSE 0
           /\ Len(SubSeq(s, m, n)) <= n
           /\ Len(SubSeq(s, m, n)) <= Len(s)
<1>1. Len(s) \in Nat /\ \A i \in 1 .. Len(s) : s[i] \in Entries
  BY LenProperties, ElementOfSeq
<1>2. \A i \in m .. n : s[i] \in Entries
  BY <1>1
<1>3. m \in Int /\ n \in Int
  OBVIOUS
<1>4. /\ SubSeq(s, m, n) \in Seq(Entries)
      /\ Len(SubSeq(s, m, n)) = IF m <= n THEN n - m + 1 ELSE 0
  BY <1>2, <1>3, SubSeqProperties
<1>5. QED BY <1>1, <1>4

(* One chunk is cut off the front of the drained entries.                  *)
LEMMA ChunkCut ==
    ASSUME NEW s \in Seq(Entries)
    PROVE  /\ FirstChunk(s) \in Seq(Entries)
           /\ Len(FirstChunk(s)) <= ChunkMax
           /\ AfterChunk(s) \in Seq(Entries)
           /\ Len(AfterChunk(s)) <= Len(s)
<1>1. ChunkMax \in Nat /\ Len(s) \in Nat
  BY LenProperties, ConfigAssumption
<1>2. PICK k \in Nat : k = Min({ChunkMax, Len(s)}) /\ k <= ChunkMax /\ k <= Len(s)
  BY <1>1, MinOfTwo
<1>3. /\ SubSeq(s, 1, k) \in Seq(Entries)
      /\ Len(SubSeq(s, 1, k)) <= k
  <2>1. 1 \in Nat \ {0}
    OBVIOUS
  <2>2. QED BY <1>2, <2>1, SliceType
<1>4. /\ SubSeq(s, k + 1, Len(s)) \in Seq(Entries)
      /\ Len(SubSeq(s, k + 1, Len(s))) <= Len(s)
  <2>1. k + 1 \in Nat \ {0}
    BY <1>2
  <2>2. QED BY <1>1, <2>1, SliceType
<1>5. FirstChunk(s) \in Seq(Entries) /\ Len(FirstChunk(s)) <= ChunkMax
  <2>1. Len(SubSeq(s, 1, k)) \in Nat
    BY <1>3, LenProperties
  <2>2. FirstChunk(s) = SubSeq(s, 1, k)
    BY <1>2 DEF FirstChunk
  <2>3. Len(SubSeq(s, 1, k)) <= ChunkMax
    BY <1>1, <1>2, <1>3, <2>1
  <2>4. QED BY <1>3, <2>2, <2>3
<1>6. QED BY <1>2, <1>4, <1>5 DEF AfterChunk

(* What the publish loop puts back is part of the batch.                   *)
LEMMA SliceTypes ==
    ASSUME batch \in Seq(Entries), pos \in 0 .. Len(batch)
    PROVE  /\ FailedSlice \in Seq(Entries)
           /\ Len(FailedSlice) <= Len(batch)
           /\ UnpublishedTail \in Seq(Entries)
           /\ Len(UnpublishedTail) <= Len(batch)
<1>1. pos \in Nat /\ Len(batch) \in Nat
  BY LenProperties
<1>2. SliceStart \in Nat
  BY <1>1, PipelineAssumption DEF SliceStart
<1>3. SliceStart + PubBatch \in Nat
  BY <1>2, PipelineAssumption
<1>4. SliceStart + 1 \in Nat \ {0}
  BY <1>2
<1>5. PICK k \in Nat : k = Min({SliceStart + PubBatch, Len(batch)}) /\ k <= Len(batch)
  BY <1>1, <1>3, MinOfTwo
<1>6. FailedSlice \in Seq(Entries) /\ Len(FailedSlice) <= Len(batch)
  <2>1. FailedSlice = SubSeq(batch, SliceStart + 1, k)
    BY <1>5 DEF FailedSlice
  <2>2. /\ SubSeq(batch, SliceStart + 1, k) \in Seq(Entries)
        /\ Len(SubSeq(batch, SliceStart + 1, k)) <= Len(batch)
    <3>1. k <= Len(batch)
      BY <1>5
    <3>2. QED BY <1>4, <3>1, SliceType
  <2>3. QED BY <2>1, <2>2
<1>7. UnpublishedTail \in Seq(Entries) /\ Len(UnpublishedTail) <= Len(batch)
  BY <1>1, <1>4, SliceType DEF UnpublishedTail
<1>8. QED BY <1>6, <1>7

(* Reversing keeps the elements.                                           *)
LEMMA ReverseType ==
    ASSUME NEW s \in Seq(Entries)
    PROVE  Reverse(s) \in Seq(Entries)
<1>1. Len(s) \in Nat /\ s \in [1 .. Len(s) -> Entries]
  BY LenProperties
<1>2. Reverse(s) \in [1 .. Len(s) -> Entries]
  BY <1>1 DEF Reverse
<1>3. QED BY <1>1, <1>2, IsASeq

-----------------------------------------------------------------------------
(* The files of the spool directory.                                       *)

(* What the history variables collect are entries.                         *)
LEMMA ToSetType ==
    ASSUME NEW s \in Seq(Entries)
    PROVE  ToSet(s) \subseteq Entries
<1>1. \A i \in DOMAIN s : s[i] \in Entries
  BY ElementOfSeq, LenProperties
<1>2. QED BY <1>1 DEF ToSet

(* Replacing or removing one file leaves the others.                       *)
LEMMA WithType ==
    ASSUME NEW files, NEW n \in Nat \ {0}, NEW c \in Seq(Entries),
           DOMAIN files \subseteq Nat \ {0}, \A m \in DOMAIN files : files[m] \in Seq(Entries)
    PROVE  /\ DOMAIN With(files, n, c) = DOMAIN files \cup {n}
           /\ DOMAIN With(files, n, c) \subseteq Nat \ {0}
           /\ \A m \in DOMAIN With(files, n, c) : With(files, n, c)[m] \in Seq(Entries)
           /\ With(files, n, c)[n] = c
           /\ \A m \in DOMAIN files \ {n} : With(files, n, c)[m] = files[m]
BY DEF With

(* Removing one file leaves the types of the others.                       *)
LEMMA WithoutType ==
    ASSUME NEW files, NEW n,
           DOMAIN files \subseteq Nat \ {0}, \A m \in DOMAIN files : files[m] \in Seq(Entries)
    PROVE  /\ DOMAIN Without(files, n) = DOMAIN files \ {n}
           /\ DOMAIN Without(files, n) \subseteq Nat \ {0}
           /\ \A m \in DOMAIN Without(files, n) : Without(files, n)[m] \in Seq(Entries)
           /\ \A m \in DOMAIN Without(files, n) : Without(files, n)[m] = files[m]
BY DEF Without

(* A new chunk gets a number larger than every number present.             *)
LEMMA NextNumber ==
    ASSUME FilesTypeOK, ChunksBounded
    PROVE  /\ NextChunkNumber(spool) \in Nat \ {0}
           /\ \A n \in DOMAIN spool : n < NextChunkNumber(spool)
<1> DEFINE S == DOMAIN spool \cup {0}
<1>1. S \in SUBSET Nat /\ S # {}
  BY DEF FilesTypeOK
<1>2. PICK b \in S : \A n \in DOMAIN spool : n <= b
  BY DEF ChunksBounded
<1>3. b \in Nat /\ \A n \in S : n <= b
  BY <1>1, <1>2
<1>4. Max(S) \in S /\ \A n \in S : n <= Max(S)
  BY <1>1, <1>3, MaxExists
<1>5. QED BY <1>1, <1>4 DEF NextChunkNumber

(* The least element of a nonempty set of naturals exists.                 *)
LEMMA MinExists ==
    ASSUME NEW S \in SUBSET Nat, S # {}
    PROVE  /\ Min(S) \in S
           /\ \A n \in S : Min(S) <= n
<1>1. PICK m \in S : \A n \in S : ~ (<<n, m>> \in OpToRel(<, Nat))
  BY NatLessThanWellFounded, WFMin, Zenon
<1>2. \A n \in S : m =< n
  <2> TAKE n \in S
  <2>1. ~ (n < m) /\ n \in Nat /\ m \in Nat
    BY <1>1 DEF OpToRel
  <2>2. QED BY <2>1
<1>3. QED BY <1>2 DEF Min

(* The chunk drop_oldest_chunk picks is one of the spool.                  *)
LEMMA OldestInSpool ==
    ASSUME FilesTypeOK, DOMAIN spool # {}
    PROVE  /\ OldestChunk(spool) \in DOMAIN spool
           /\ OldestChunk(spool) \in Nat
           /\ \A n \in DOMAIN spool : OldestChunk(spool) <= n
BY MinExists DEF FilesTypeOK, OldestChunk

(* The chunk next_disk_chunk picks is the one with the largest number.     *)
LEMMA NewestInSpool ==
    ASSUME FilesTypeOK, ChunksBounded, DOMAIN spool # {}
    PROVE  /\ NewestChunk(spool) \in DOMAIN spool
           /\ NewestChunk(spool) \in Nat \ {0}
           /\ \A n \in DOMAIN spool : n <= NewestChunk(spool)
<1>1. PICK b \in DOMAIN spool \cup {0} : \A n \in DOMAIN spool : n <= b
  BY DEF ChunksBounded
<1>2. DOMAIN spool \in SUBSET Nat /\ b \in Nat
  BY <1>1 DEF FilesTypeOK
<1>3. QED BY <1>1, <1>2, MaxExists DEF NewestChunk, FilesTypeOK

(* Removing a chunk leaves a largest number, the bound of a smaller set.   *)
LEMMA DeleteKeepsBounds ==
    ASSUME FilesTypeOK, ChunksBounded, NEW n, spool' = Without(spool, n), UNCHANGED tmp
    PROVE  ChunksBounded'
<1>1. PICK b \in DOMAIN spool \cup {0} : \A m \in DOMAIN spool : m <= b
  BY DEF ChunksBounded
<1>2. DOMAIN spool' = DOMAIN spool \ {n} /\ \A m \in DOMAIN spool' : spool'[m] = spool[m]
  <2>1. DOMAIN spool \subseteq Nat \ {0} /\ \A m \in DOMAIN spool : spool[m] \in Seq(Entries)
    BY DEF FilesTypeOK
  <2>2. /\ DOMAIN Without(spool, n) = DOMAIN spool \ {n}
        /\ \A m \in DOMAIN Without(spool, n) : Without(spool, n)[m] = spool[m]
    BY <2>1, WithoutType
  <2>3. QED BY <2>2
<1>3. b \in Nat /\ DOMAIN spool' \in SUBSET Nat /\ \A m \in DOMAIN spool' : m <= b
  BY <1>1, <1>2 DEF FilesTypeOK
<1>4. \E c \in DOMAIN spool' \cup {0} : \A m \in DOMAIN spool' : m <= c
  <2>1. CASE DOMAIN spool' = {}
    BY <2>1
  <2>2. CASE DOMAIN spool' # {}
    BY <1>3, <2>2, MaxExists
  <2>3. QED BY <2>1, <2>2
<1>5. \A m \in DOMAIN spool' : Len(spool'[m]) <= ChunkMax
  BY <1>2 DEF ChunksBounded
<1>6. QED BY <1>4, <1>5 DEF ChunksBounded

-----------------------------------------------------------------------------
(* The initial state.                                                      *)

(* A fresh process and an empty directory satisfy the invariant.           *)
LEMMA InitIInv == Init => IInv
<1> SUFFICES ASSUME Init PROVE IInv
  OBVIOUS
<1> USE EmptySeq DEF Init, InitBuffer
<1>0. /\ 0 \in 0 .. MaxFaults /\ 0 \in 0 .. MaxEntries /\ 0 \in 0 .. QueueCap
      /\ 0 \in 0 .. MaxCrashes /\ 0 \in 0 .. MaxSignals
  BY ConfigAssumption, PipelineAssumption
<1>1. FilesTypeOK
  BY DEF FilesTypeOK
<1>2. BufferTypeOK
  BY <1>0 DEF BufferTypeOK
<1>3. TaskTypeOK
  BY DEF TaskTypeOK
<1>4. ProcessTypeOK
  BY <1>0 DEF ProcessTypeOK
<1>5. LockOwnership /\ FlushState /\ ChunksBounded /\ TaskState
  BY DEF LockOwnership, FlushState, ChunksBounded, TaskState
<1>6. RamBounded
  <2>1. Max({MemoryMax, ChunkMax}) \in Nat /\ Len(<<>>) = 0
    BY MaxOfTwo, ConfigAssumption
  <2>2. QED BY <2>1, ConfigAssumption DEF RamBounded
<1>7. BacklogVisible
  BY DEF BacklogVisible
<1>8. QED BY <1>1, <1>2, <1>3, <1>4, <1>5, <1>6, <1>7 DEF IInv, TypeOK

-----------------------------------------------------------------------------
(* Every step preserves each conjunct of the invariant.                    *)

(* Files hold entries, whoever writes or deletes them.                     *)
LEMMA FilesTypeStep == IInv /\ [Next]_vars => FilesTypeOK'
<1> SUFFICES ASSUME FilesTypeOK, BufferTypeOK, FlushState, ChunksBounded, [Next]_vars PROVE FilesTypeOK'
  BY DEF IInv, TypeOK
<1> USE DEF FilesTypeOK, BufferTypeOK, FlushState, bufVars, diskVars, writeVars,
   ingestVars, tickVars, mqttVars, procVars
<1>1. CASE IngestRecv
  BY <1>1 DEF IngestRecv
<1>2. CASE IngestLock
  BY <1>2 DEF IngestLock
<1>3. CASE IngestPush
  BY <1>3 DEF IngestPush, PushToMemory, FlushForPush, BeginFlush, MemoryFull
<1>4. CASE IngestRelease
  BY <1>4 DEF IngestRelease
<1>5. CASE IngestStop
  BY <1>5 DEF IngestStop
<1>6. CASE TickStart
  BY <1>6 DEF TickStart
<1>7. CASE DrainMemory
  BY <1>7 DEF DrainMemory
<1>8. CASE NextDiskChunk
  BY <1>8 DEF NextDiskChunk
<1>9. CASE ListFault
  BY <1>9 DEF ListFault, EndTick
<1>10. CASE ReadChunk
  BY <1>10 DEF ReadChunk
<1>11. CASE ReadFault
  <2>1. ToSet(spool[path]) \subseteq Entries
    BY <1>11, ToSetType DEF ReadFault
  <2>2. QED BY <1>11, <2>1 DEF ReadFault
<1>12. CASE PublishEntry
  BY <1>12 DEF PublishEntry, Publishing
<1>13. CASE FinishMemory
  BY <1>13 DEF FinishMemory, EndTick
<1>14. CASE FinishDisk
  BY <1>14 DEF FinishDisk, EndTick, DeleteChunk, DeleteFile, Without
<1>15. CASE Discard
  BY <1>15 DEF Discard, EndTick, DeleteChunk, DeleteFile, Without
<1>16. CASE PublishFailMemory
  BY <1>16 DEF PublishFailMemory
<1>17. CASE PublishFailDisk
  BY <1>17 DEF PublishFailDisk, EndTick
<1>18. CASE Relock
  BY <1>18 DEF Relock
<1>19. CASE Repush
  BY <1>19 DEF Repush, PushToMemory, FlushForPush, BeginFlush, MemoryFull
<1>20. CASE Backoff
  BY <1>20 DEF Backoff, EndTick, Repushed
<1>21. CASE DeletePartial
  BY <1>21 DEF DeletePartial, EndTick, DeleteChunk, DeleteFile, Without, Repushed
<1>22. CASE Write
  <2>1. CASE EvictPick
    BY <1>22, <2>1 DEF Write, EvictPick
  <2>2. CASE EvictRemove
    <3>1. ToSet(spool[target]) \subseteq Entries
      BY <2>2, ToSetType DEF EvictRemove
    <3>2. QED BY <1>22, <2>2, <3>1, WithoutType DEF Write, EvictRemove
  <2>3. CASE WriteTmp
    <3>1. FirstChunk(flushing) \in Seq(Entries)
      BY ChunkCut
    <3>2. NextChunkNumber(spool) \in Nat \ {0}
      BY NextNumber
    <3>3. uncounted' \in Nat
      BY <2>3 DEF WriteTmp, RoomFound
    <3>4. QED BY <1>22, <2>3, <3>1, <3>2, <3>3, WithType DEF Write, WriteTmp
  <2>4. CASE RenameChunk
    <3>1. target \in Nat \ {0} /\ tmp[target] \in Seq(Entries)
      BY <2>4 DEF RenameChunk
    <3>2. QED BY <1>22, <2>4, <3>1, WithType, WithoutType DEF Write, RenameChunk
  <2>5. CASE EvictGone
    <3>1. dropped' \subseteq Entries
      <4>1. ToSet(flushing) \subseteq Entries
        BY ToSetType
      <4>2. todo # <<>> => Head(todo) \in Entries
        BY HeadTailProperties
      <4>3. QED BY <2>5, <4>1, <4>2 DEF EvictGone, AbortFlush, InWrite
    <3>2. QED BY <1>22, <2>5, <3>1 DEF Write, EvictGone, AbortFlush
  <2>6. CASE WriteFault
    <3>1. dropped' \subseteq Entries
      <4>1. ToSet(flushing) \subseteq Entries
        BY ToSetType
      <4>2. todo # <<>> => Head(todo) \in Entries
        BY HeadTailProperties
      <4>3. QED BY <2>6, <4>1, <4>2 DEF WriteFault, AbortFlush, InWrite
    <3>2. QED BY <1>22, <2>6, <3>1 DEF Write, WriteFault, AbortFlush
  <2>7. QED BY <1>22, <2>1, <2>2, <2>3, <2>4, <2>5, <2>6 DEF Write, FlushStep
<1>23. CASE CancelTick
  BY <1>23 DEF CancelTick, Suspended, Publishing, Repushed
<1>24. CASE ShutdownFlush
  BY <1>24 DEF ShutdownFlush, BeginFlush
<1>25. CASE ShutdownNothing
  BY <1>25 DEF ShutdownNothing
<1>26. CASE ShutdownFlushed
  BY <1>26 DEF ShutdownFlushed
<1>27. CASE Exit
  BY <1>27 DEF Exit, Vanish, FreshBuffer, EndTick
<1>28. CASE Connect
  BY <1>28 DEF Connect
<1>29. CASE Disconnect
  BY <1>29 DEF Disconnect
<1>30. CASE Send
  BY <1>30 DEF Send
<1>31. CASE LoopStop
  BY <1>31 DEF LoopStop
<1>32. CASE Produce
  BY <1>32 DEF Produce
<1>33. CASE Signal
  BY <1>33 DEF Signal
<1>34. CASE Crash
  BY <1>34 DEF Crash, Vanish, FreshBuffer, EndTick
<1>35. CASE Restart
  BY <1>35 DEF Restart
<1>36. CASE UNCHANGED vars
  BY <1>36 DEF vars
<1>37. QED BY <1>1, <1>2, <1>3, <1>4, <1>5, <1>6, <1>7, <1>8, <1>9, <1>10, <1>11,
         <1>12, <1>13, <1>14, <1>15, <1>16, <1>17, <1>18, <1>19, <1>20, <1>21,
         <1>22, <1>23, <1>24, <1>25, <1>26, <1>27, <1>28, <1>29, <1>30, <1>31,
         <1>32, <1>33, <1>34, <1>35, <1>36 DEF Next, IngestTask, Tick, Shutdown,
         EventLoop, Environment

(* The volatile part of the buffer keeps its types.                        *)
LEMMA BufferTypeStep == IInv /\ [Next]_vars => BufferTypeOK'
<1> SUFFICES ASSUME FilesTypeOK, BufferTypeOK, TaskTypeOK, ChunksBounded, TaskState, [Next]_vars PROVE BufferTypeOK'
  BY DEF IInv, TypeOK
<1> USE DEF BufferTypeOK, bufVars, diskVars, writeVars, ingestVars, tickVars,
   mqttVars, procVars
<1>1. CASE IngestRecv
  BY <1>1 DEF IngestRecv
<1>2. CASE IngestLock
  <2>1. <<hand>> \in Seq(Entries)
    BY <1>2 DEF IngestLock, TaskState
  <2>2. QED BY <1>2, <2>1 DEF IngestLock
<1>3. CASE IngestPush
  <2>1. CASE PushToMemory("ingest")
    <3>1. Head(todo) \in Entries /\ Tail(todo) \in Seq(Entries)
      BY <2>1, HeadTailProperties DEF PushToMemory
    <3>2. Append(memory, Head(todo)) \in Seq(Entries)
      BY <3>1, AppendProperties
    <3>3. QED BY <2>1, <3>1, <3>2 DEF PushToMemory
  <2>2. CASE FlushForPush("ingest")
    BY <2>2, EmptySeq DEF FlushForPush, BeginFlush
  <2>3. QED BY <1>3, <2>1, <2>2 DEF IngestPush
<1>4. CASE IngestRelease
  BY <1>4 DEF IngestRelease
<1>5. CASE IngestStop
  BY <1>5 DEF IngestStop
<1>6. CASE TickStart
  BY <1>6 DEF TickStart
<1>7. CASE DrainMemory
  BY <1>7, EmptySeq DEF DrainMemory
<1>8. CASE NextDiskChunk
  <2>1. mayHaveChunks' \in BOOLEAN
    BY <1>8, Zenon DEF NextDiskChunk
  <2>2. QED BY <1>8, <2>1 DEF NextDiskChunk
<1>9. CASE ListFault
  BY <1>9, ConfigAssumption DEF ListFault
<1>10. CASE ReadChunk
  BY <1>10 DEF ReadChunk
<1>11. CASE ReadFault
  BY <1>11, ConfigAssumption DEF ReadFault
<1>12. CASE PublishEntry
  BY <1>12 DEF PublishEntry, Publishing
<1>13. CASE FinishMemory
  BY <1>13 DEF FinishMemory
<1>14. CASE FinishDisk
  <2>1. faults' \in 0 .. MaxFaults
    BY <1>14, ConfigAssumption DEF FinishDisk, DeleteChunk
  <2>2. QED BY <1>14, <2>1 DEF FinishDisk
<1>15. CASE Discard
  <2>1. faults' \in 0 .. MaxFaults
    BY <1>15, ConfigAssumption DEF Discard, DeleteChunk
  <2>2. QED BY <1>15, <2>1 DEF Discard
<1>16. CASE PublishFailMemory
  BY <1>16 DEF PublishFailMemory
<1>17. CASE PublishFailDisk
  BY <1>17 DEF PublishFailDisk
<1>18. CASE Relock
  <2>1. batch \in Seq(Entries) /\ Reverse(batch) \in Seq(Entries)
    BY ReverseType DEF TaskTypeOK
  <2>2. QED BY <1>18, <2>1 DEF Relock
<1>19. CASE Repush
  <2>1. CASE PushToMemory("publish")
    <3>1. Head(todo) \in Entries /\ Tail(todo) \in Seq(Entries)
      BY <2>1, HeadTailProperties DEF PushToMemory
    <3>2. Append(memory, Head(todo)) \in Seq(Entries)
      BY <3>1, AppendProperties
    <3>3. QED BY <2>1, <3>1, <3>2 DEF PushToMemory
  <2>2. CASE FlushForPush("publish")
    BY <2>2, EmptySeq DEF FlushForPush, BeginFlush
  <2>3. QED BY <1>19, <2>1, <2>2 DEF Repush
<1>20. CASE Backoff
  BY <1>20 DEF Backoff, Repushed
<1>21. CASE DeletePartial
  <2>1. faults' \in 0 .. MaxFaults
    BY <1>21, ConfigAssumption DEF DeletePartial, DeleteChunk
  <2>2. QED BY <1>21, <2>1 DEF DeletePartial
<1>22. CASE Write
  <2>1. CASE EvictPick
    <3>1. target' \in DOMAIN spool /\ target' \in Nat
      BY <2>1, OldestInSpool DEF EvictPick
    <3>2. QED BY <2>1, <3>1 DEF EvictPick
  <2>2. CASE EvictRemove
    BY <2>2 DEF EvictRemove
  <2>3. CASE WriteTmp
    <3>1. NextChunkNumber(spool) \in Nat
      BY NextNumber
    <3>2. QED BY <2>3, <3>1, ConfigAssumption DEF WriteTmp, RoomFound
  <2>4. CASE RenameChunk
    <3>1. AfterChunk(flushing) \in Seq(Entries)
      BY ChunkCut
    <3>2. QED BY <2>4, <3>1 DEF RenameChunk
  <2>5. CASE EvictGone
    <3>1. todo' \in Seq(Entries)
      BY <2>5, EmptySeq, HeadTailProperties DEF EvictGone, AbortFlush
    <3>2. faults' \in 0 .. MaxFaults
      BY <2>5, ConfigAssumption DEF EvictGone
    <3>3. QED BY <2>5, <3>1, <3>2, EmptySeq DEF EvictGone, AbortFlush
  <2>6. CASE WriteFault
    <3>1. todo' \in Seq(Entries)
      BY <2>6, EmptySeq, HeadTailProperties DEF WriteFault, AbortFlush
    <3>2. faults' \in 0 .. MaxFaults
      BY <2>6, ConfigAssumption DEF WriteFault
    <3>3. QED BY <2>6, <3>1, <3>2, EmptySeq DEF WriteFault, AbortFlush
  <2>7. QED BY <1>22, <2>1, <2>2, <2>3, <2>4, <2>5, <2>6 DEF Write, FlushStep
<1>23. CASE CancelTick
  BY <1>23 DEF CancelTick, Suspended, Publishing, Repushed
<1>24. CASE ShutdownFlush
  BY <1>24 DEF ShutdownFlush, BeginFlush
<1>25. CASE ShutdownNothing
  BY <1>25 DEF ShutdownNothing
<1>26. CASE ShutdownFlushed
  BY <1>26 DEF ShutdownFlushed
<1>27. CASE Exit
  <2>1. FreshBuffer /\ mayHaveChunks' = FALSE /\ faults' = faults
    BY <1>27 DEF Exit, Vanish
  <2>2. QED BY <2>1, EmptySeq DEF FreshBuffer
<1>28. CASE Connect
  BY <1>28 DEF Connect
<1>29. CASE Disconnect
  BY <1>29 DEF Disconnect
<1>30. CASE Send
  BY <1>30 DEF Send
<1>31. CASE LoopStop
  BY <1>31 DEF LoopStop
<1>32. CASE Produce
  BY <1>32 DEF Produce
<1>33. CASE Signal
  BY <1>33 DEF Signal
<1>34. CASE Crash
  <2>1. FreshBuffer /\ mayHaveChunks' = FALSE /\ faults' = faults
    BY <1>34 DEF Crash, Vanish
  <2>2. QED BY <2>1, EmptySeq DEF FreshBuffer
<1>35. CASE Restart
  <2>1. mayHaveChunks' \in BOOLEAN
    BY <1>35, Zenon DEF Restart
  <2>2. faults' \in 0 .. MaxFaults
    BY <1>35, ConfigAssumption DEF Restart
  <2>3. QED BY <1>35, <2>1, <2>2 DEF Restart
<1>36. CASE UNCHANGED vars
  BY <1>36 DEF vars
<1>37. QED BY <1>1, <1>2, <1>3, <1>4, <1>5, <1>6, <1>7, <1>8, <1>9, <1>10, <1>11,
         <1>12, <1>13, <1>14, <1>15, <1>16, <1>17, <1>18, <1>19, <1>20, <1>21,
         <1>22, <1>23, <1>24, <1>25, <1>26, <1>27, <1>28, <1>29, <1>30, <1>31,
         <1>32, <1>33, <1>34, <1>35, <1>36 DEF Next, IngestTask, Tick, Shutdown,
         EventLoop, Environment

(* The tasks' variables keep their types, the position in the batch its    *)
(* range.                                                                  *)
LEMMA TaskTypeStep == IInv /\ [Next]_vars => TaskTypeOK'
<1> SUFFICES ASSUME FilesTypeOK, BufferTypeOK, TaskTypeOK, ProcessTypeOK, ChunksBounded, TaskState, [Next]_vars PROVE TaskTypeOK'
  BY DEF IInv, TypeOK
<1> USE DEF TaskTypeOK, TaskState, bufVars, diskVars, writeVars, ingestVars,
   tickVars, mqttVars, procVars
<1>1. CASE IngestRecv
  <2>1. Head(chan) \in Entries /\ Tail(chan) \in Seq(Entries)
    BY <1>1, HeadTailProperties DEF IngestRecv
  <2>2. QED BY <1>1, <2>1 DEF IngestRecv
<1>2. CASE IngestLock
  BY <1>2 DEF IngestLock
<1>3. CASE IngestPush
  BY <1>3 DEF IngestPush, PushToMemory, FlushForPush, BeginFlush, MemoryFull
<1>4. CASE IngestRelease
  BY <1>4 DEF IngestRelease
<1>5. CASE IngestStop
  BY <1>5, EmptySeq DEF IngestStop
<1>6. CASE TickStart
  BY <1>6 DEF TickStart
<1>7. CASE DrainMemory
  <2>1. memory \in Seq(Entries) /\ 0 \in 0 .. Len(memory)
    BY LenProperties DEF BufferTypeOK
  <2>2. QED BY <1>7, <2>1 DEF DrainMemory
<1>8. CASE NextDiskChunk
  <2>1. path' \in Nat /\ tpc' \in {"read", "idle"}
    BY <1>8, NewestInSpool DEF NextDiskChunk
  <2>2. QED BY <1>8, <2>1 DEF NextDiskChunk
<1>9. CASE ListFault
  BY <1>9 DEF ListFault, EndTick
<1>10. CASE ReadChunk
  <2>1. batch' \in Seq(Entries) /\ pos' = 0 /\ tpc' \in {"pubDisk", "discard"}
    BY <1>10, EmptySeq DEF ReadChunk, FilesTypeOK
  <2>2. 0 \in 0 .. Len(batch')
    BY <2>1, LenProperties
  <2>3. QED BY <1>10, <2>1, <2>2 DEF ReadChunk
<1>11. CASE ReadFault
  BY <1>11 DEF ReadFault
<1>12. CASE PublishEntry
  BY <1>12 DEF PublishEntry, Publishing
<1>13. CASE FinishMemory
  BY <1>13 DEF FinishMemory, EndTick
<1>14. CASE FinishDisk
  BY <1>14 DEF FinishDisk, EndTick, DeleteChunk, DeleteFile, Without
<1>15. CASE Discard
  BY <1>15 DEF Discard, EndTick, DeleteChunk, DeleteFile, Without
<1>16. CASE PublishFailMemory
  <2>1. FailedSlice \in Seq(Entries) /\ 0 \in 0 .. Len(FailedSlice)
    BY SliceTypes, LenProperties
  <2>2. QED BY <1>16, <2>1 DEF PublishFailMemory
<1>17. CASE PublishFailDisk
  <2>1. UnpublishedTail \in Seq(Entries) /\ 0 \in 0 .. Len(UnpublishedTail)
    BY SliceTypes, LenProperties
  <2>2. <<>> \in Seq(Entries) /\ 0 \in 0 .. Len(<<>>)
    BY EmptySeq
  <2>3. CASE SliceStart = 0
    BY <1>17, <2>2, <2>3 DEF PublishFailDisk, EndTick
  <2>4. CASE SliceStart # 0
    BY <1>17, <2>1, <2>4 DEF PublishFailDisk
  <2>5. QED BY <2>3, <2>4
<1>18. CASE Relock
  BY <1>18 DEF Relock
<1>19. CASE Repush
  BY <1>19 DEF Repush, PushToMemory, FlushForPush, BeginFlush, MemoryFull
<1>20. CASE Backoff
  BY <1>20 DEF Backoff, EndTick, Repushed
<1>21. CASE DeletePartial
  BY <1>21 DEF DeletePartial, EndTick, DeleteChunk, DeleteFile, Without, Repushed
<1>22. CASE Write
  <2>1. CASE EvictPick
    BY <1>22, <2>1 DEF Write, EvictPick
  <2>2. CASE EvictRemove
    BY <1>22, <2>2 DEF Write, EvictRemove
  <2>3. CASE WriteTmp
    BY <1>22, <2>3 DEF Write, WriteTmp
  <2>4. CASE RenameChunk
    BY <1>22, <2>4 DEF Write, RenameChunk
  <2>5. CASE EvictGone
    BY <1>22, <2>5 DEF Write, EvictGone, AbortFlush
  <2>6. CASE WriteFault
    BY <1>22, <2>6 DEF Write, WriteFault, AbortFlush
  <2>7. QED BY <1>22, <2>1, <2>2, <2>3, <2>4, <2>5, <2>6 DEF Write, FlushStep
<1>23. CASE CancelTick
  BY <1>23 DEF CancelTick, Suspended, Publishing, Repushed
<1>24. CASE ShutdownFlush
  BY <1>24 DEF ShutdownFlush, BeginFlush
<1>25. CASE ShutdownNothing
  BY <1>25 DEF ShutdownNothing
<1>26. CASE ShutdownFlushed
  BY <1>26 DEF ShutdownFlushed
<1>27. CASE Exit
  BY <1>27 DEF Exit, Vanish, FreshBuffer, EndTick
<1>28. CASE Connect
  BY <1>28 DEF Connect
<1>29. CASE Disconnect
  BY <1>29 DEF Disconnect
<1>30. CASE Send
  BY <1>30 DEF Send
<1>31. CASE LoopStop
  BY <1>31 DEF LoopStop
<1>32. CASE Produce
  <2>1. produced + 1 \in Entries
    BY <1>32, PipelineAssumption DEF Produce, ProcessTypeOK, Entries
  <2>2. Append(chan, produced + 1) \in Seq(Entries)
    BY <2>1, AppendProperties
  <2>3. QED BY <1>32, <2>2 DEF Produce
<1>33. CASE Signal
  BY <1>33 DEF Signal
<1>34. CASE Crash
  BY <1>34 DEF Crash, Vanish, FreshBuffer, EndTick
<1>35. CASE Restart
  BY <1>35 DEF Restart
<1>36. CASE UNCHANGED vars
  BY <1>36 DEF vars
<1>37. QED BY <1>1, <1>2, <1>3, <1>4, <1>5, <1>6, <1>7, <1>8, <1>9, <1>10, <1>11,
         <1>12, <1>13, <1>14, <1>15, <1>16, <1>17, <1>18, <1>19, <1>20, <1>21,
         <1>22, <1>23, <1>24, <1>25, <1>26, <1>27, <1>28, <1>29, <1>30, <1>31,
         <1>32, <1>33, <1>34, <1>35, <1>36 DEF Next, IngestTask, Tick, Shutdown,
         EventLoop, Environment

(* Counters stay within their bounds, the request channel within its       *)
(* capacity.                                                               *)
LEMMA ProcessTypeStep == IInv /\ [Next]_vars => ProcessTypeOK'
<1> SUFFICES ASSUME TaskTypeOK, ProcessTypeOK, [Next]_vars PROVE ProcessTypeOK'
  BY DEF IInv, TypeOK
<1> USE PipelineAssumption DEF ProcessTypeOK, bufVars, diskVars, writeVars,
   ingestVars, tickVars, mqttVars, procVars
<1>1. CASE IngestRecv
  BY <1>1 DEF IngestRecv
<1>2. CASE IngestLock
  BY <1>2 DEF IngestLock
<1>3. CASE IngestPush
  BY <1>3 DEF IngestPush, PushToMemory, FlushForPush, BeginFlush, MemoryFull
<1>4. CASE IngestRelease
  BY <1>4 DEF IngestRelease
<1>5. CASE IngestStop
  BY <1>5 DEF IngestStop
<1>6. CASE TickStart
  BY <1>6 DEF TickStart
<1>7. CASE DrainMemory
  BY <1>7 DEF DrainMemory
<1>8. CASE NextDiskChunk
  BY <1>8 DEF NextDiskChunk
<1>9. CASE ListFault
  BY <1>9 DEF ListFault
<1>10. CASE ReadChunk
  BY <1>10 DEF ReadChunk
<1>11. CASE ReadFault
  BY <1>11 DEF ReadFault
<1>12. CASE PublishEntry
  <2>1. batch[pos + 1] \in Entries
    BY <1>12, ElementOfSeq, LenProperties DEF PublishEntry, TaskTypeOK
  <2>2. handed' \in [Entries -> Nat]
    BY <1>12, <2>1 DEF PublishEntry
  <2>3. queued' \in 0 .. QueueCap
    BY <1>12 DEF PublishEntry
  <2>4. QED BY <1>12, <2>2, <2>3 DEF PublishEntry
<1>13. CASE FinishMemory
  BY <1>13 DEF FinishMemory
<1>14. CASE FinishDisk
  BY <1>14 DEF FinishDisk, DeleteChunk, DeleteFile, Without
<1>15. CASE Discard
  BY <1>15 DEF Discard, DeleteChunk, DeleteFile, Without
<1>16. CASE PublishFailMemory
  BY <1>16 DEF PublishFailMemory
<1>17. CASE PublishFailDisk
  BY <1>17 DEF PublishFailDisk
<1>18. CASE Relock
  BY <1>18 DEF Relock
<1>19. CASE Repush
  BY <1>19 DEF Repush, PushToMemory, FlushForPush, BeginFlush, MemoryFull
<1>20. CASE Backoff
  BY <1>20 DEF Backoff, Repushed
<1>21. CASE DeletePartial
  BY <1>21 DEF DeletePartial, DeleteChunk, DeleteFile, Without, Repushed
<1>22. CASE Write
  <2>1. CASE EvictPick
    BY <1>22, <2>1 DEF Write, EvictPick
  <2>2. CASE EvictRemove
    BY <1>22, <2>2 DEF Write, EvictRemove
  <2>3. CASE WriteTmp
    BY <1>22, <2>3 DEF Write, WriteTmp
  <2>4. CASE RenameChunk
    BY <1>22, <2>4 DEF Write, RenameChunk
  <2>5. CASE EvictGone
    BY <1>22, <2>5 DEF Write, EvictGone, AbortFlush
  <2>6. CASE WriteFault
    BY <1>22, <2>6 DEF Write, WriteFault, AbortFlush
  <2>7. QED BY <1>22, <2>1, <2>2, <2>3, <2>4, <2>5, <2>6 DEF Write, FlushStep
<1>23. CASE CancelTick
  BY <1>23 DEF CancelTick, Suspended, Publishing, Repushed
<1>24. CASE ShutdownFlush
  BY <1>24 DEF ShutdownFlush, BeginFlush
<1>25. CASE ShutdownNothing
  BY <1>25 DEF ShutdownNothing
<1>26. CASE ShutdownFlushed
  BY <1>26 DEF ShutdownFlushed
<1>27. CASE Exit
  <2>1. queued' \in 0 .. QueueCap
    BY <1>27 DEF Exit, Vanish
  <2>2. QED BY <1>27, <2>1 DEF Exit, Vanish
<1>28. CASE Connect
  BY <1>28 DEF Connect
<1>29. CASE Disconnect
  <2>1. queued' \in 0 .. QueueCap
    BY <1>29 DEF Disconnect
  <2>2. QED BY <1>29, <2>1 DEF Disconnect
<1>30. CASE Send
  BY <1>30 DEF Send
<1>31. CASE LoopStop
  <2>1. queued' \in 0 .. QueueCap
    BY <1>31 DEF LoopStop
  <2>2. QED BY <1>31, <2>1 DEF LoopStop
<1>32. CASE Produce
  BY <1>32 DEF Produce
<1>33. CASE Signal
  BY <1>33 DEF Signal
<1>34. CASE Crash
  <2>1. crashes' \in 0 .. MaxCrashes /\ queued' \in 0 .. QueueCap
    BY <1>34 DEF Crash, Vanish
  <2>2. QED BY <1>34, <2>1 DEF Crash, Vanish
<1>35. CASE Restart
  BY <1>35 DEF Restart
<1>36. CASE UNCHANGED vars
  BY <1>36 DEF vars
<1>37. QED BY <1>1, <1>2, <1>3, <1>4, <1>5, <1>6, <1>7, <1>8, <1>9, <1>10, <1>11,
         <1>12, <1>13, <1>14, <1>15, <1>16, <1>17, <1>18, <1>19, <1>20, <1>21,
         <1>22, <1>23, <1>24, <1>25, <1>26, <1>27, <1>28, <1>29, <1>30, <1>31,
         <1>32, <1>33, <1>34, <1>35, <1>36 DEF Next, IngestTask, Tick, Shutdown,
         EventLoop, Environment

(* The mutex is taken when it is free and given back by its owner, by a    *)
(* cancelled tick too.                                                     *)
LEMMA LockStep == IInv /\ [Next]_vars => LockOwnership'
<1> SUFFICES ASSUME LockOwnership, FlushState, [Next]_vars PROVE LockOwnership'
  BY DEF IInv
<1> USE DEF LockOwnership, bufVars, diskVars, writeVars, ingestVars, tickVars,
   mqttVars, procVars
<1>1. CASE IngestRecv
  BY <1>1 DEF IngestRecv
<1>2. CASE IngestLock
  BY <1>2 DEF IngestLock
<1>3. CASE IngestPush
  BY <1>3 DEF IngestPush, PushToMemory, FlushForPush, BeginFlush, MemoryFull
<1>4. CASE IngestRelease
  BY <1>4 DEF IngestRelease
<1>5. CASE IngestStop
  BY <1>5 DEF IngestStop
<1>6. CASE TickStart
  BY <1>6 DEF TickStart
<1>7. CASE DrainMemory
  BY <1>7 DEF DrainMemory
<1>8. CASE NextDiskChunk
  BY <1>8 DEF NextDiskChunk
<1>9. CASE ListFault
  BY <1>9 DEF ListFault, EndTick
<1>10. CASE ReadChunk
  BY <1>10 DEF ReadChunk
<1>11. CASE ReadFault
  BY <1>11 DEF ReadFault
<1>12. CASE PublishEntry
  BY <1>12 DEF PublishEntry, Publishing
<1>13. CASE FinishMemory
  BY <1>13 DEF FinishMemory, EndTick
<1>14. CASE FinishDisk
  BY <1>14 DEF FinishDisk, EndTick, DeleteChunk, DeleteFile, Without
<1>15. CASE Discard
  BY <1>15 DEF Discard, EndTick, DeleteChunk, DeleteFile, Without
<1>16. CASE PublishFailMemory
  BY <1>16 DEF PublishFailMemory
<1>17. CASE PublishFailDisk
  BY <1>17 DEF PublishFailDisk, EndTick
<1>18. CASE Relock
  BY <1>18 DEF Relock
<1>19. CASE Repush
  BY <1>19 DEF Repush, PushToMemory, FlushForPush, BeginFlush, MemoryFull
<1>20. CASE Backoff
  BY <1>20 DEF Backoff, EndTick, Repushed
<1>21. CASE DeletePartial
  BY <1>21 DEF DeletePartial, EndTick, DeleteChunk, DeleteFile, Without, Repushed
<1>22. CASE Write
  <2>1. CASE EvictPick
    BY <1>22, <2>1 DEF Write, EvictPick
  <2>2. CASE EvictRemove
    BY <1>22, <2>2 DEF Write, EvictRemove
  <2>3. CASE WriteTmp
    BY <1>22, <2>3 DEF Write, WriteTmp
  <2>4. CASE RenameChunk
    BY <1>22, <2>4 DEF Write, RenameChunk
  <2>5. CASE EvictGone
    BY <1>22, <2>5 DEF Write, EvictGone, AbortFlush
  <2>6. CASE WriteFault
    BY <1>22, <2>6 DEF Write, WriteFault, AbortFlush
  <2>7. QED BY <1>22, <2>1, <2>2, <2>3, <2>4, <2>5, <2>6 DEF Write, FlushStep
<1>23. CASE CancelTick
  BY <1>23 DEF CancelTick, Suspended, Publishing, Repushed
<1>24. CASE ShutdownFlush
  BY <1>24 DEF ShutdownFlush, BeginFlush
<1>25. CASE ShutdownNothing
  BY <1>25 DEF ShutdownNothing
<1>26. CASE ShutdownFlushed
  BY <1>26 DEF ShutdownFlushed
<1>27. CASE Exit
  BY <1>27 DEF Exit, Vanish, FreshBuffer, EndTick
<1>28. CASE Connect
  BY <1>28 DEF Connect
<1>29. CASE Disconnect
  BY <1>29 DEF Disconnect
<1>30. CASE Send
  BY <1>30 DEF Send
<1>31. CASE LoopStop
  BY <1>31 DEF LoopStop
<1>32. CASE Produce
  BY <1>32 DEF Produce
<1>33. CASE Signal
  BY <1>33 DEF Signal
<1>34. CASE Crash
  BY <1>34 DEF Crash, Vanish, FreshBuffer, EndTick
<1>35. CASE Restart
  BY <1>35 DEF Restart
<1>36. CASE UNCHANGED vars
  BY <1>36 DEF vars
<1>37. QED BY <1>1, <1>2, <1>3, <1>4, <1>5, <1>6, <1>7, <1>8, <1>9, <1>10, <1>11,
         <1>12, <1>13, <1>14, <1>15, <1>16, <1>17, <1>18, <1>19, <1>20, <1>21,
         <1>22, <1>23, <1>24, <1>25, <1>26, <1>27, <1>28, <1>29, <1>30, <1>31,
         <1>32, <1>33, <1>34, <1>35, <1>36 DEF Next, IngestTask, Tick, Shutdown,
         EventLoop, Environment

(* Nothing but the flush itself touches what it is writing.                *)
LEMMA FlushStateStep == IInv /\ [Next]_vars => FlushState'
<1> SUFFICES ASSUME FilesTypeOK, BufferTypeOK, TaskTypeOK, LockOwnership, FlushState, [Next]_vars PROVE FlushState'
  BY DEF IInv, TypeOK
<1> USE DEF LockOwnership, FlushState, bufVars, diskVars, writeVars, ingestVars,
   tickVars, mqttVars, procVars
<1>1. CASE IngestRecv
  BY <1>1 DEF IngestRecv
<1>2. CASE IngestLock
  BY <1>2 DEF IngestLock
<1>3. CASE IngestPush
  BY <1>3 DEF IngestPush, PushToMemory, FlushForPush, BeginFlush, MemoryFull
<1>4. CASE IngestRelease
  BY <1>4 DEF IngestRelease
<1>5. CASE IngestStop
  BY <1>5 DEF IngestStop
<1>6. CASE TickStart
  BY <1>6 DEF TickStart
<1>7. CASE DrainMemory
  BY <1>7 DEF DrainMemory
<1>8. CASE NextDiskChunk
  BY <1>8 DEF NextDiskChunk
<1>9. CASE ListFault
  BY <1>9 DEF ListFault, EndTick
<1>10. CASE ReadChunk
  BY <1>10 DEF ReadChunk
<1>11. CASE ReadFault
  BY <1>11 DEF ReadFault
<1>12. CASE PublishEntry
  BY <1>12 DEF PublishEntry, Publishing
<1>13. CASE FinishMemory
  BY <1>13 DEF FinishMemory, EndTick
<1>14. CASE FinishDisk
  BY <1>14 DEF FinishDisk, EndTick, DeleteChunk, DeleteFile, Without
<1>15. CASE Discard
  BY <1>15 DEF Discard, EndTick, DeleteChunk, DeleteFile, Without
<1>16. CASE PublishFailMemory
  BY <1>16 DEF PublishFailMemory
<1>17. CASE PublishFailDisk
  BY <1>17 DEF PublishFailDisk, EndTick
<1>18. CASE Relock
  BY <1>18 DEF Relock
<1>19. CASE Repush
  BY <1>19 DEF Repush, PushToMemory, FlushForPush, BeginFlush, MemoryFull
<1>20. CASE Backoff
  BY <1>20 DEF Backoff, EndTick, Repushed
<1>21. CASE DeletePartial
  BY <1>21 DEF DeletePartial, EndTick, DeleteChunk, DeleteFile, Without, Repushed
<1>22. CASE Write
  <2>1. CASE EvictPick
    BY <1>22, <2>1 DEF Write, EvictPick
  <2>2. CASE EvictRemove
    BY <1>22, <2>2 DEF Write, EvictRemove
  <2>3. CASE WriteTmp
    <3>1. target' \in DOMAIN tmp'
      BY <2>3 DEF WriteTmp, With
    <3>2. QED BY <2>3, <3>1 DEF WriteTmp
  <2>4. CASE RenameChunk
    BY <1>22, <2>4 DEF Write, RenameChunk
  <2>5. CASE EvictGone
    BY <1>22, <2>5 DEF Write, EvictGone, AbortFlush
  <2>6. CASE WriteFault
    BY <1>22, <2>6 DEF Write, WriteFault, AbortFlush
  <2>7. QED BY <1>22, <2>1, <2>2, <2>3, <2>4, <2>5, <2>6 DEF Write, FlushStep
<1>23. CASE CancelTick
  BY <1>23 DEF CancelTick, Suspended, Publishing, Repushed
<1>24. CASE ShutdownFlush
  BY <1>24 DEF ShutdownFlush, BeginFlush
<1>25. CASE ShutdownNothing
  BY <1>25 DEF ShutdownNothing
<1>26. CASE ShutdownFlushed
  BY <1>26 DEF ShutdownFlushed
<1>27. CASE Exit
  BY <1>27 DEF Exit, Vanish, FreshBuffer, EndTick
<1>28. CASE Connect
  BY <1>28 DEF Connect
<1>29. CASE Disconnect
  BY <1>29 DEF Disconnect
<1>30. CASE Send
  BY <1>30 DEF Send
<1>31. CASE LoopStop
  BY <1>31 DEF LoopStop
<1>32. CASE Produce
  BY <1>32 DEF Produce
<1>33. CASE Signal
  BY <1>33 DEF Signal
<1>34. CASE Crash
  BY <1>34 DEF Crash, Vanish, FreshBuffer, EndTick
<1>35. CASE Restart
  BY <1>35 DEF Restart
<1>36. CASE UNCHANGED vars
  BY <1>36 DEF vars
<1>37. QED BY <1>1, <1>2, <1>3, <1>4, <1>5, <1>6, <1>7, <1>8, <1>9, <1>10, <1>11,
         <1>12, <1>13, <1>14, <1>15, <1>16, <1>17, <1>18, <1>19, <1>20, <1>21,
         <1>22, <1>23, <1>24, <1>25, <1>26, <1>27, <1>28, <1>29, <1>30, <1>31,
         <1>32, <1>33, <1>34, <1>35, <1>36 DEF Next, IngestTask, Tick, Shutdown,
         EventLoop, Environment

(* Chunks are cut to disk_chunk_max_entries, and there is always a largest *)
(* chunk number.                                                           *)
LEMMA ChunksStep == IInv /\ [Next]_vars => ChunksBounded'
<1> SUFFICES ASSUME FilesTypeOK, BufferTypeOK, FlushState, ChunksBounded, [Next]_vars PROVE ChunksBounded'
  BY DEF IInv, TypeOK
<1> USE DEF bufVars, diskVars, writeVars, ingestVars, tickVars, mqttVars, procVars
<1>0. ASSUME UNCHANGED <<spool, tmp>> PROVE ChunksBounded'
  BY <1>0 DEF ChunksBounded
<1>1. CASE IngestRecv
  BY <1>1, <1>0 DEF IngestRecv
<1>2. CASE IngestLock
  BY <1>2, <1>0 DEF IngestLock
<1>3. CASE IngestPush
  BY <1>3, <1>0 DEF IngestPush, PushToMemory, FlushForPush, BeginFlush
<1>4. CASE IngestRelease
  BY <1>4, <1>0 DEF IngestRelease
<1>5. CASE IngestStop
  BY <1>5, <1>0 DEF IngestStop
<1>6. CASE TickStart
  BY <1>6, <1>0 DEF TickStart
<1>7. CASE DrainMemory
  BY <1>7, <1>0 DEF DrainMemory
<1>8. CASE NextDiskChunk
  BY <1>8, <1>0 DEF NextDiskChunk
<1>9. CASE ListFault
  BY <1>9, <1>0 DEF ListFault
<1>10. CASE ReadChunk
  BY <1>10, <1>0 DEF ReadChunk
<1>11. CASE ReadFault
  BY <1>11, <1>0 DEF ReadFault
<1>12. CASE PublishEntry
  BY <1>12, <1>0 DEF PublishEntry
<1>13. CASE FinishMemory
  BY <1>13, <1>0 DEF FinishMemory
<1>14. CASE FinishDisk
  <2>1. CASE spool' = Without(spool, path)
    BY <1>14, <2>1, DeleteKeepsBounds DEF FinishDisk
  <2>2. CASE UNCHANGED spool
    BY <1>14, <2>2, <1>0 DEF FinishDisk
  <2>3. QED BY <1>14, <2>1, <2>2 DEF FinishDisk, DeleteChunk, DeleteFile
<1>15. CASE Discard
  <2>1. CASE spool' = Without(spool, path)
    BY <1>15, <2>1, DeleteKeepsBounds DEF Discard
  <2>2. CASE UNCHANGED spool
    BY <1>15, <2>2, <1>0 DEF Discard
  <2>3. QED BY <1>15, <2>1, <2>2 DEF Discard, DeleteChunk, DeleteFile
<1>16. CASE PublishFailMemory
  BY <1>16, <1>0 DEF PublishFailMemory
<1>17. CASE PublishFailDisk
  BY <1>17, <1>0 DEF PublishFailDisk
<1>18. CASE Relock
  BY <1>18, <1>0 DEF Relock
<1>19. CASE Repush
  BY <1>19, <1>0 DEF Repush, PushToMemory, FlushForPush, BeginFlush
<1>20. CASE Backoff
  BY <1>20, <1>0 DEF Backoff
<1>21. CASE DeletePartial
  <2>1. CASE spool' = Without(spool, path)
    BY <1>21, <2>1, DeleteKeepsBounds DEF DeletePartial
  <2>2. CASE UNCHANGED spool
    BY <1>21, <2>2, <1>0 DEF DeletePartial
  <2>3. QED BY <1>21, <2>1, <2>2 DEF DeletePartial, DeleteChunk, DeleteFile
<1>22. CASE Write
  <2>1. CASE EvictPick
    BY <2>1, <1>0 DEF EvictPick
  <2>2. CASE EvictRemove
    BY <2>2, DeleteKeepsBounds DEF EvictRemove
  <2>3. CASE WriteTmp
    <3>1. Len(FirstChunk(flushing)) <= ChunkMax
      BY ChunkCut DEF BufferTypeOK
    <3>2. \A n \in DOMAIN tmp' : Len(tmp'[n]) <= ChunkMax
      BY <2>3, <3>1 DEF WriteTmp, With, ChunksBounded
    <3>3. QED BY <2>3, <3>2 DEF WriteTmp, ChunksBounded
  <2>4. CASE RenameChunk
    <3>1. target \in DOMAIN tmp /\ target \in Nat
      BY <2>4 DEF RenameChunk, FlushState, BufferTypeOK
    <3>2. \A n \in DOMAIN spool' : Len(spool'[n]) <= ChunkMax
      BY <2>4, <3>1 DEF RenameChunk, With, ChunksBounded
    <3>3. \A n \in DOMAIN tmp' : Len(tmp'[n]) <= ChunkMax
      BY <2>4 DEF RenameChunk, Without, ChunksBounded
    <3>4. PICK b \in DOMAIN spool \cup {0} : \A n \in DOMAIN spool : n <= b
      BY DEF ChunksBounded
    <3>5. DOMAIN spool' = DOMAIN spool \cup {target} /\ b \in Nat /\ DOMAIN spool \subseteq Nat
      BY <2>4, <3>4 DEF RenameChunk, With, FilesTypeOK
    <3>6. \E c \in DOMAIN spool' \cup {0} : \A n \in DOMAIN spool' : n <= c
      <4>1. CASE target <= b
        BY <3>4, <3>5, <4>1
      <4>2. CASE ~ (target <= b)
        <5>1. \A n \in DOMAIN spool' : n <= target
          BY <3>1, <3>4, <3>5, <4>2
        <5>2. QED BY <3>5, <5>1
      <4>3. QED BY <4>1, <4>2
    <3>7. QED BY <3>2, <3>3, <3>6 DEF ChunksBounded
  <2>5. CASE EvictGone
    BY <2>5, <1>0 DEF EvictGone, AbortFlush
  <2>6. CASE WriteFault
    BY <2>6, <1>0 DEF WriteFault, AbortFlush
  <2>7. QED BY <1>22, <2>1, <2>2, <2>3, <2>4, <2>5, <2>6 DEF Write, FlushStep
<1>23. CASE CancelTick
  BY <1>23, <1>0 DEF CancelTick
<1>24. CASE ShutdownFlush
  BY <1>24, <1>0 DEF ShutdownFlush, BeginFlush
<1>25. CASE ShutdownNothing
  BY <1>25, <1>0 DEF ShutdownNothing
<1>26. CASE ShutdownFlushed
  BY <1>26, <1>0 DEF ShutdownFlushed
<1>27. CASE Exit
  BY <1>27, <1>0 DEF Exit, Vanish
<1>28. CASE Connect
  BY <1>28, <1>0 DEF Connect
<1>29. CASE Disconnect
  BY <1>29, <1>0 DEF Disconnect
<1>30. CASE Send
  BY <1>30, <1>0 DEF Send
<1>31. CASE LoopStop
  BY <1>31, <1>0 DEF LoopStop
<1>32. CASE Produce
  BY <1>32, <1>0 DEF Produce
<1>33. CASE Signal
  BY <1>33, <1>0 DEF Signal
<1>34. CASE Crash
  BY <1>34, <1>0 DEF Crash, Vanish
<1>35. CASE Restart
  BY <1>35, <1>0 DEF Restart
<1>36. CASE UNCHANGED vars
  BY <1>36, <1>0 DEF vars
<1>37. QED BY <1>1, <1>2, <1>3, <1>4, <1>5, <1>6, <1>7, <1>8, <1>9, <1>10, <1>11,
         <1>12, <1>13, <1>14, <1>15, <1>16, <1>17, <1>18, <1>19, <1>20, <1>21,
         <1>22, <1>23, <1>24, <1>25, <1>26, <1>27, <1>28, <1>29, <1>30, <1>31,
         <1>32, <1>33, <1>34, <1>35, <1>36 DEF Next, IngestTask, Tick, Shutdown,
         EventLoop, Environment

(* Only a publishing tick has a position.                                  *)
LEMMA TaskStateStep == IInv /\ [Next]_vars => TaskState'
<1> SUFFICES ASSUME TaskTypeOK, TaskState, [Next]_vars PROVE TaskState'
  BY DEF IInv, TypeOK
<1> USE DEF TaskState, bufVars, diskVars, writeVars, ingestVars, tickVars, mqttVars,
   procVars
<1>1. CASE IngestRecv
  <2>1. Head(chan) \in Entries
    BY <1>1, HeadTailProperties DEF IngestRecv, TaskTypeOK
  <2>2. QED BY <1>1, <2>1 DEF IngestRecv
<1>2. CASE IngestLock
  BY <1>2 DEF IngestLock
<1>3. CASE IngestPush
  BY <1>3 DEF IngestPush, PushToMemory, FlushForPush, BeginFlush, MemoryFull
<1>4. CASE IngestRelease
  BY <1>4 DEF IngestRelease
<1>5. CASE IngestStop
  BY <1>5 DEF IngestStop
<1>6. CASE TickStart
  BY <1>6 DEF TickStart
<1>7. CASE DrainMemory
  BY <1>7 DEF DrainMemory
<1>8. CASE NextDiskChunk
  BY <1>8 DEF NextDiskChunk
<1>9. CASE ListFault
  BY <1>9 DEF ListFault, EndTick
<1>10. CASE ReadChunk
  BY <1>10 DEF ReadChunk
<1>11. CASE ReadFault
  BY <1>11 DEF ReadFault
<1>12. CASE PublishEntry
  BY <1>12 DEF PublishEntry, Publishing
<1>13. CASE FinishMemory
  BY <1>13 DEF FinishMemory, EndTick
<1>14. CASE FinishDisk
  BY <1>14 DEF FinishDisk, EndTick, DeleteChunk, DeleteFile, Without
<1>15. CASE Discard
  BY <1>15 DEF Discard, EndTick, DeleteChunk, DeleteFile, Without
<1>16. CASE PublishFailMemory
  BY <1>16 DEF PublishFailMemory
<1>17. CASE PublishFailDisk
  BY <1>17 DEF PublishFailDisk, EndTick
<1>18. CASE Relock
  BY <1>18 DEF Relock
<1>19. CASE Repush
  BY <1>19 DEF Repush, PushToMemory, FlushForPush, BeginFlush, MemoryFull
<1>20. CASE Backoff
  BY <1>20 DEF Backoff, EndTick, Repushed
<1>21. CASE DeletePartial
  BY <1>21 DEF DeletePartial, EndTick, DeleteChunk, DeleteFile, Without, Repushed
<1>22. CASE Write
  <2>1. CASE EvictPick
    BY <1>22, <2>1 DEF Write, EvictPick
  <2>2. CASE EvictRemove
    BY <1>22, <2>2 DEF Write, EvictRemove
  <2>3. CASE WriteTmp
    BY <1>22, <2>3 DEF Write, WriteTmp
  <2>4. CASE RenameChunk
    BY <1>22, <2>4 DEF Write, RenameChunk
  <2>5. CASE EvictGone
    BY <1>22, <2>5 DEF Write, EvictGone, AbortFlush
  <2>6. CASE WriteFault
    BY <1>22, <2>6 DEF Write, WriteFault, AbortFlush
  <2>7. QED BY <1>22, <2>1, <2>2, <2>3, <2>4, <2>5, <2>6 DEF Write, FlushStep
<1>23. CASE CancelTick
  BY <1>23 DEF CancelTick, Suspended, Publishing, Repushed
<1>24. CASE ShutdownFlush
  BY <1>24 DEF ShutdownFlush, BeginFlush
<1>25. CASE ShutdownNothing
  BY <1>25 DEF ShutdownNothing
<1>26. CASE ShutdownFlushed
  BY <1>26 DEF ShutdownFlushed
<1>27. CASE Exit
  BY <1>27 DEF Exit, Vanish, FreshBuffer, EndTick
<1>28. CASE Connect
  BY <1>28 DEF Connect
<1>29. CASE Disconnect
  BY <1>29 DEF Disconnect
<1>30. CASE Send
  BY <1>30 DEF Send
<1>31. CASE LoopStop
  BY <1>31 DEF LoopStop
<1>32. CASE Produce
  BY <1>32 DEF Produce
<1>33. CASE Signal
  BY <1>33 DEF Signal
<1>34. CASE Crash
  BY <1>34 DEF Crash, Vanish, FreshBuffer, EndTick
<1>35. CASE Restart
  BY <1>35 DEF Restart
<1>36. CASE UNCHANGED vars
  BY <1>36 DEF vars
<1>37. QED BY <1>1, <1>2, <1>3, <1>4, <1>5, <1>6, <1>7, <1>8, <1>9, <1>10, <1>11,
         <1>12, <1>13, <1>14, <1>15, <1>16, <1>17, <1>18, <1>19, <1>20, <1>21,
         <1>22, <1>23, <1>24, <1>25, <1>26, <1>27, <1>28, <1>29, <1>30, <1>31,
         <1>32, <1>33, <1>34, <1>35, <1>36 DEF Next, IngestTask, Tick, Shutdown,
         EventLoop, Environment

(* The buffer is flushed before it would outgrow its limit; what is drained *)
(* from it or read from one chunk is what a batch can be.                  *)
LEMMA RamStep == IInv /\ [Next]_vars => RamBounded'
<1> SUFFICES ASSUME FilesTypeOK, BufferTypeOK, TaskTypeOK, LockOwnership, FlushState, ChunksBounded, RamBounded, [Next]_vars PROVE RamBounded'
  BY DEF IInv, TypeOK
<1> USE DEF bufVars, diskVars, writeVars, ingestVars, tickVars, mqttVars, procVars
<1>0. /\ MemoryMax \in Nat \ {0} /\ ChunkMax \in Nat
      /\ Max({MemoryMax, ChunkMax}) \in Nat
      /\ MemoryMax <= Max({MemoryMax, ChunkMax}) /\ ChunkMax <= Max({MemoryMax, ChunkMax})
      /\ Len(<<>>) = 0
  BY MaxOfTwo, EmptySeq, ConfigAssumption
<1>a. /\ Len(memory) \in Nat /\ Len(flushing) \in Nat /\ Len(batch) \in Nat
      /\ Len(memory) <= MemoryMax /\ Len(flushing) <= MemoryMax
      /\ stage # "none" => memory = <<>>
      /\ Len(batch) <= Max({MemoryMax, ChunkMax})
  BY LenProperties DEF BufferTypeOK, TaskTypeOK, RamBounded
<1>b. ASSUME UNCHANGED <<memory, flushing, stage>>, Len(batch') <= Max({MemoryMax, ChunkMax})
      PROVE  RamBounded'
  BY <1>a, <1>b DEF RamBounded
<1>c. ASSUME UNCHANGED <<memory, flushing, stage>>, batch' = <<>>
      PROVE  RamBounded'
  <2>1. Len(batch') <= Max({MemoryMax, ChunkMax})
    BY <1>0, <1>c
  <2>2. QED BY <1>b, <1>c, <2>1
<1>d. ASSUME UNCHANGED <<memory, flushing, stage, batch>>
      PROVE  RamBounded'
  BY <1>a, <1>d DEF RamBounded
<1>1. CASE IngestRecv
  BY <1>1, <1>d DEF IngestRecv
<1>2. CASE IngestLock
  BY <1>2, <1>d DEF IngestLock
<1>3. CASE IngestPush
  <2>1. CASE PushToMemory("ingest")
    <3>1. stage = "none" /\ UNCHANGED <<flushing, stage, batch>>
      BY <1>3, <2>1 DEF IngestPush, PushToMemory
    <3>2. Head(todo) \in Entries /\ memory \in Seq(Entries)
      BY <2>1, HeadTailProperties DEF PushToMemory, BufferTypeOK
    <3>3. Len(memory') = Len(memory) + 1 /\ ~ (Len(memory) >= MemoryMax)
      BY <2>1, <3>2, AppendProperties DEF PushToMemory, MemoryFull
    <3>4. Len(memory') <= MemoryMax
      BY <1>0, <1>a, <3>3
    <3>5. QED BY <1>a, <3>1, <3>4 DEF RamBounded
  <2>2. CASE FlushForPush("ingest")
    <3>1. memory' = <<>> /\ flushing' = memory /\ batch' = batch
      BY <1>3, <2>2 DEF IngestPush, FlushForPush, BeginFlush
    <3>2. QED BY <1>0, <1>a, <3>1 DEF RamBounded
  <2>3. QED BY <1>3, <2>1, <2>2 DEF IngestPush
<1>4. CASE IngestRelease
  BY <1>4, <1>d DEF IngestRelease
<1>5. CASE IngestStop
  BY <1>5, <1>d DEF IngestStop
<1>6. CASE TickStart
  BY <1>6, <1>d DEF TickStart
<1>7. CASE DrainMemory
  <2>1. memory' = <<>> /\ batch' = memory /\ UNCHANGED <<flushing, stage>>
    BY <1>7 DEF DrainMemory
  <2>2. Len(batch') <= Max({MemoryMax, ChunkMax})
    BY <1>0, <1>a, <2>1
  <2>3. QED BY <1>0, <1>a, <2>1, <2>2 DEF RamBounded
<1>8. CASE NextDiskChunk
  BY <1>8, <1>d DEF NextDiskChunk
<1>9. CASE ListFault
  BY <1>9, <1>c DEF ListFault, EndTick
<1>10. CASE ReadChunk
  <2>1. Len(batch') <= Max({MemoryMax, ChunkMax})
    <3>1. CASE path \in DOMAIN spool
      <4>1. batch' = spool[path] /\ Len(spool[path]) <= ChunkMax /\ Len(spool[path]) \in Nat
        BY <1>10, <3>1, LenProperties DEF ReadChunk, ChunksBounded, FilesTypeOK
      <4>2. QED BY <1>0, <4>1
    <3>2. CASE path \notin DOMAIN spool
      BY <1>10, <1>0, <3>2 DEF ReadChunk
    <3>3. QED BY <3>1, <3>2
  <2>2. QED BY <1>10, <1>b, <2>1 DEF ReadChunk
<1>11. CASE ReadFault
  BY <1>11, <1>d DEF ReadFault
<1>12. CASE PublishEntry
  BY <1>12, <1>d DEF PublishEntry
<1>13. CASE FinishMemory
  BY <1>13, <1>c DEF FinishMemory, EndTick
<1>14. CASE FinishDisk
  BY <1>14, <1>c DEF FinishDisk, EndTick
<1>15. CASE Discard
  BY <1>15, <1>c DEF Discard, EndTick
<1>16. CASE PublishFailMemory
  <2>1. FailedSlice \in Seq(Entries) /\ Len(FailedSlice) <= Len(batch)
    BY SliceTypes DEF TaskTypeOK
  <2>2. Len(FailedSlice) \in Nat
    BY <2>1, LenProperties
  <2>3. Len(batch') <= Max({MemoryMax, ChunkMax})
    BY <1>16, <1>0, <1>a, <2>1, <2>2 DEF PublishFailMemory
  <2>4. QED BY <1>16, <1>b, <2>3 DEF PublishFailMemory
<1>17. CASE PublishFailDisk
  <2>1. UnpublishedTail \in Seq(Entries) /\ Len(UnpublishedTail) <= Len(batch)
    BY SliceTypes DEF TaskTypeOK
  <2>2. Len(UnpublishedTail) \in Nat
    BY <2>1, LenProperties
  <2>3. Len(batch') <= Max({MemoryMax, ChunkMax})
    BY <1>17, <1>0, <1>a, <2>1, <2>2 DEF PublishFailDisk, EndTick
  <2>4. QED BY <1>17, <1>b, <2>3 DEF PublishFailDisk
<1>18. CASE Relock
  BY <1>18, <1>c DEF Relock
<1>19. CASE Repush
  <2>1. CASE PushToMemory("publish")
    <3>1. stage = "none" /\ UNCHANGED <<flushing, stage, batch>>
      BY <1>19, <2>1 DEF Repush, PushToMemory
    <3>2. Head(todo) \in Entries /\ memory \in Seq(Entries)
      BY <2>1, HeadTailProperties DEF PushToMemory, BufferTypeOK
    <3>3. Len(memory') = Len(memory) + 1 /\ ~ (Len(memory) >= MemoryMax)
      BY <2>1, <3>2, AppendProperties DEF PushToMemory, MemoryFull
    <3>4. Len(memory') <= MemoryMax
      BY <1>0, <1>a, <3>3
    <3>5. QED BY <1>a, <3>1, <3>4 DEF RamBounded
  <2>2. CASE FlushForPush("publish")
    <3>1. memory' = <<>> /\ flushing' = memory /\ batch' = batch
      BY <1>19, <2>2 DEF Repush, FlushForPush, BeginFlush
    <3>2. QED BY <1>0, <1>a, <3>1 DEF RamBounded
  <2>3. QED BY <1>19, <2>1, <2>2 DEF Repush
<1>20. CASE Backoff
  BY <1>20, <1>c DEF Backoff, EndTick
<1>21. CASE DeletePartial
  BY <1>21, <1>c DEF DeletePartial, EndTick
<1>22. CASE Write
  <2>1. CASE EvictPick
    <3>1. stage # "none" /\ memory' = memory /\ flushing' = flushing /\ batch' = batch
      BY <1>22, <2>1 DEF Write, EvictPick
    <3>2. QED BY <3>1, <1>a DEF RamBounded
  <2>2. CASE EvictRemove
    <3>1. stage # "none" /\ memory' = memory /\ flushing' = flushing /\ batch' = batch
      BY <1>22, <2>2 DEF Write, EvictRemove
    <3>2. QED BY <3>1, <1>a DEF RamBounded
  <2>3. CASE WriteTmp
    <3>1. stage # "none" /\ memory' = memory /\ flushing' = flushing /\ batch' = batch
      BY <1>22, <2>3 DEF Write, WriteTmp
    <3>2. QED BY <3>1, <1>a DEF RamBounded
  <2>4. CASE RenameChunk
    <3>1. AfterChunk(flushing) \in Seq(Entries) /\ Len(AfterChunk(flushing)) <= Len(flushing)
      BY ChunkCut DEF BufferTypeOK
    <3>2. Len(AfterChunk(flushing)) \in Nat
      BY <3>1, LenProperties
    <3>3. Len(flushing') <= MemoryMax
      BY <2>4, <1>0, <1>a, <3>1, <3>2 DEF RenameChunk
    <3>4. stage # "none" /\ memory' = memory /\ batch' = batch
      BY <1>22, <2>4 DEF Write, RenameChunk
    <3>5. QED BY <3>3, <3>4, <1>a DEF RamBounded
  <2>5. CASE EvictGone
    <3>1. flushing' = <<>> /\ stage' = "none" /\ memory' = memory /\ batch' = batch
      BY <1>22, <2>5 DEF Write, EvictGone, AbortFlush
    <3>2. QED BY <3>1, <1>0, <1>a DEF RamBounded
  <2>6. CASE WriteFault
    <3>1. flushing' = <<>> /\ stage' = "none" /\ memory' = memory /\ batch' = batch
      BY <1>22, <2>6 DEF Write, WriteFault, AbortFlush
    <3>2. QED BY <3>1, <1>0, <1>a DEF RamBounded
  <2>7. QED BY <1>22, <2>1, <2>2, <2>3, <2>4, <2>5, <2>6 DEF Write, FlushStep
<1>23. CASE CancelTick
  BY <1>23, <1>c DEF CancelTick
<1>24. CASE ShutdownFlush
  <2>1. memory' = <<>> /\ flushing' = memory /\ batch' = batch
    BY <1>24 DEF ShutdownFlush, BeginFlush
  <2>2. QED BY <1>0, <1>a, <2>1 DEF RamBounded
<1>25. CASE ShutdownNothing
  BY <1>25, <1>d DEF ShutdownNothing
<1>26. CASE ShutdownFlushed
  BY <1>26, <1>d DEF ShutdownFlushed
<1>27. CASE Exit
  <2>1. memory' = <<>> /\ flushing' = <<>> /\ stage' = "none" /\ batch' = <<>>
    BY <1>27 DEF Exit, Vanish, FreshBuffer, EndTick
  <2>2. QED BY <1>0, <2>1 DEF RamBounded
<1>28. CASE Connect
  BY <1>28, <1>d DEF Connect
<1>29. CASE Disconnect
  BY <1>29, <1>d DEF Disconnect
<1>30. CASE Send
  BY <1>30, <1>d DEF Send
<1>31. CASE LoopStop
  BY <1>31, <1>d DEF LoopStop
<1>32. CASE Produce
  BY <1>32, <1>d DEF Produce
<1>33. CASE Signal
  BY <1>33, <1>d DEF Signal
<1>34. CASE Crash
  <2>1. memory' = <<>> /\ flushing' = <<>> /\ stage' = "none" /\ batch' = <<>>
    BY <1>34 DEF Crash, Vanish, FreshBuffer, EndTick
  <2>2. QED BY <1>0, <2>1 DEF RamBounded
<1>35. CASE Restart
  BY <1>35, <1>d DEF Restart
<1>36. CASE UNCHANGED vars
  BY <1>36, <1>d DEF vars
<1>37. QED BY <1>1, <1>2, <1>3, <1>4, <1>5, <1>6, <1>7, <1>8, <1>9, <1>10, <1>11,
         <1>12, <1>13, <1>14, <1>15, <1>16, <1>17, <1>18, <1>19, <1>20, <1>21,
         <1>22, <1>23, <1>24, <1>25, <1>26, <1>27, <1>28, <1>29, <1>30, <1>31,
         <1>32, <1>33, <1>34, <1>35, <1>36 DEF Next, IngestTask, Tick, Shutdown,
         EventLoop, Environment

(* may_have_chunks is raised by every new chunk, and lowered only under the *)
(* lock by a listing that finds none.                                      *)
LEMMA BacklogStep == IInv /\ [Next]_vars => BacklogVisible'
<1> SUFFICES ASSUME BufferTypeOK, ProcessTypeOK, BacklogVisible, [Next]_vars PROVE BacklogVisible'
  BY DEF IInv, TypeOK
<1> USE DEF BacklogVisible, BufferTypeOK, ProcessTypeOK, Up, bufVars, diskVars,
   writeVars, ingestVars, tickVars, mqttVars, procVars
<1>1. CASE IngestRecv
  BY <1>1 DEF IngestRecv
<1>2. CASE IngestLock
  BY <1>2 DEF IngestLock
<1>3. CASE IngestPush
  BY <1>3 DEF IngestPush, PushToMemory, FlushForPush, BeginFlush
<1>4. CASE IngestRelease
  BY <1>4 DEF IngestRelease
<1>5. CASE IngestStop
  BY <1>5 DEF IngestStop
<1>6. CASE TickStart
  BY <1>6 DEF TickStart
<1>7. CASE DrainMemory
  BY <1>7 DEF DrainMemory
<1>8. CASE NextDiskChunk
  BY <1>8, Zenon DEF NextDiskChunk
<1>9. CASE ListFault
  BY <1>9 DEF ListFault
<1>10. CASE ReadChunk
  BY <1>10 DEF ReadChunk
<1>11. CASE ReadFault
  BY <1>11 DEF ReadFault
<1>12. CASE PublishEntry
  BY <1>12 DEF PublishEntry, Publishing
<1>13. CASE FinishMemory
  BY <1>13 DEF FinishMemory
<1>14. CASE FinishDisk
  BY <1>14 DEF FinishDisk, DeleteChunk, DeleteFile, Without
<1>15. CASE Discard
  BY <1>15 DEF Discard, DeleteChunk, DeleteFile, Without
<1>16. CASE PublishFailMemory
  BY <1>16 DEF PublishFailMemory
<1>17. CASE PublishFailDisk
  BY <1>17 DEF PublishFailDisk
<1>18. CASE Relock
  BY <1>18 DEF Relock
<1>19. CASE Repush
  BY <1>19 DEF Repush, PushToMemory, FlushForPush, BeginFlush
<1>20. CASE Backoff
  BY <1>20 DEF Backoff, Repushed
<1>21. CASE DeletePartial
  BY <1>21 DEF DeletePartial, DeleteChunk, DeleteFile, Without, Repushed
<1>22. CASE Write
  <2>1. CASE EvictPick
    BY <1>22, <2>1 DEF Write, EvictPick
  <2>2. CASE EvictRemove
    <3>1. DOMAIN spool' \subseteq DOMAIN spool
      BY <2>2 DEF EvictRemove, Without
    <3>2. QED BY <1>22, <2>2, <3>1 DEF Write, EvictRemove
  <2>3. CASE WriteTmp
    BY <1>22, <2>3, ConfigAssumption DEF Write, WriteTmp, RoomFound
  <2>4. CASE RenameChunk
    BY <1>22, <2>4 DEF Write, RenameChunk
  <2>5. CASE EvictGone
    BY <1>22, <2>5 DEF Write, EvictGone, AbortFlush
  <2>6. CASE WriteFault
    <3>1. faults' # 0
      BY <2>6 DEF WriteFault
    <3>2. QED BY <3>1
  <2>7. QED BY <1>22, <2>1, <2>2, <2>3, <2>4, <2>5, <2>6 DEF Write, FlushStep
<1>23. CASE CancelTick
  BY <1>23 DEF CancelTick, Suspended, Publishing, Repushed
<1>24. CASE ShutdownFlush
  BY <1>24 DEF ShutdownFlush, BeginFlush
<1>25. CASE ShutdownNothing
  BY <1>25 DEF ShutdownNothing
<1>26. CASE ShutdownFlushed
  BY <1>26 DEF ShutdownFlushed
<1>27. CASE Exit
  BY <1>27 DEF Exit, Vanish
<1>28. CASE Connect
  BY <1>28 DEF Connect
<1>29. CASE Disconnect
  BY <1>29 DEF Disconnect
<1>30. CASE Send
  BY <1>30 DEF Send
<1>31. CASE LoopStop
  BY <1>31 DEF LoopStop
<1>32. CASE Produce
  BY <1>32 DEF Produce
<1>33. CASE Signal
  BY <1>33 DEF Signal
<1>34. CASE Crash
  BY <1>34 DEF Crash, Vanish
<1>35. CASE Restart
  <2>1. CASE mayHaveChunks' = (DOMAIN spool # {}) /\ UNCHANGED faults
    BY <1>35, <2>1, Zenon DEF Restart
  <2>2. CASE faults' = faults + 1
    BY <1>35, <2>2 DEF Restart
  <2>3. QED BY <1>35, <2>1, <2>2 DEF Restart
<1>36. CASE UNCHANGED vars
  BY <1>36 DEF vars
<1>37. QED BY <1>1, <1>2, <1>3, <1>4, <1>5, <1>6, <1>7, <1>8, <1>9, <1>10, <1>11,
         <1>12, <1>13, <1>14, <1>15, <1>16, <1>17, <1>18, <1>19, <1>20, <1>21,
         <1>22, <1>23, <1>24, <1>25, <1>26, <1>27, <1>28, <1>29, <1>30, <1>31,
         <1>32, <1>33, <1>34, <1>35, <1>36 DEF Next, IngestTask, Tick, Shutdown,
         EventLoop, Environment

(* The invariant is inductive.                                             *)
LEMMA StepIInv == IInv /\ [Next]_vars => IInv'
BY FilesTypeStep, BufferTypeStep, TaskTypeStep, ProcessTypeStep, LockStep, FlushStateStep,
   ChunksStep, TaskStateStep, RamStep, BacklogStep DEF IInv, TypeOK

-----------------------------------------------------------------------------
(* Theorems.                                                               *)

(* The inductive invariant holds in every reachable state.                 *)
THEOREM Invariance == Spec => []IInv
<1>1. Init => IInv
  BY InitIInv
<1>2. IInv /\ [Next]_vars => IInv'
  BY StepIInv
<1>3. QED BY <1>1, <1>2, PTL DEF Spec

(* Every variable keeps its type.                                          *)
THEOREM TypeCorrect == Spec => []TypeOK
<1>1. IInv => TypeOK
  BY DEF IInv
<1>2. QED BY <1>1, Invariance, PTL

(* Ingestion, publish loop and shutdown exclude each other in the buffer,  *)
(* although a cancelled tick gives the lock back by being dropped.         *)
THEOREM MutualExclusion == Spec => []LockOwnership
<1>1. IInv => LockOwnership
  BY DEF IInv
<1>2. QED BY <1>1, Invariance, PTL

(* The memory limit of the configuration holds, whatever is pushed back.   *)
THEOREM MemoryLimit == Spec => []RamBounded
<1>1. IInv => RamBounded
  BY DEF IInv
<1>2. QED BY <1>1, Invariance, PTL

(* As long as directory listings succeed, no chunk on disk is forgotten.   *)
THEOREM BacklogIsSeen == Spec => []BacklogVisible
<1>1. IInv => BacklogVisible
  BY DEF IInv
<1>2. QED BY <1>1, Invariance, PTL
-----------------------------------------------------------------------------
(* The spool directory.                                                    *)

(* A temporary file is a new chunk, made of what comes first in the flush. *)
RenameInv ==
    stage = "rename" => target \notin DOMAIN spool /\ tmp[target] = FirstChunk(flushing)

Size(files) == Cardinality(Slots(files))

(* What the uncounted chunks amount to.                                    *)
Unseen == ChunkMax * uncounted

(* What the check of the limit grants: until the next one the directory    *)
(* holds one chunk more, or no other chunk at all, next to what was        *)
(* written without a count.                                                *)
Granted ==
    /\ stage = "rename" =>
          \/ OtherBytes + Size(spool) + Size(tmp) <= SpoolMax + Unseen + Len(tmp[target])
          \/ Size(spool) <= Unseen
    /\ \/ OtherBytes + Size(spool) + Size(tmp) <= SpoolMax + Unseen + ChunkMax
       \/ Size(spool) <= Unseen + ChunkMax

(* The temporary files that no flush is going to rename: each is there     *)
(* because the process ended, or a call failed, between write and rename.  *)
Orphans == IF stage = "rename" THEN Without(tmp, target) ELSE tmp

OrphansBounded == Size(Orphans) <= ChunkMax * (crashes + faults)

SInv == /\ RenameInv /\ Granted /\ OrphansBounded
        /\ IsFiniteSet(Slots(spool)) /\ IsFiniteSet(Slots(tmp))
-----------------------------------------------------------------------------
(* The size of a directory with one file more.                             *)
LEMMA OneFileMore ==
    ASSUME NEW f, NEW g, NEW n, NEW c \in Seq(Entries), n \notin DOMAIN f,
           DOMAIN g = DOMAIN f \cup {n}, g[n] = c, \A m \in DOMAIN f : g[m] = f[m],
           IsFiniteSet(Slots(f))
    PROVE  /\ IsFiniteSet(Slots(g)) /\ Size(g) = Size(f) + Len(c)
           /\ Size(f) \in Nat /\ Len(c) \in Nat
<1> DEFINE new == {n} \X (1 .. Len(c))
<1>1. DOMAIN c = 1 .. Len(c) /\ Len(c) \in Nat
  BY LenProperties
<1>2. Slots(g) = Slots(f) \cup new
  <2>1. /\ Slots(g) = UNION {{m} \X DOMAIN g[m] : m \in DOMAIN g}
        /\ Slots(f) = UNION {{m} \X DOMAIN f[m] : m \in DOMAIN f}
    BY DEF Slots
  <2>2. {n} \X DOMAIN g[n] = new /\ \A m \in DOMAIN f : {m} \X DOMAIN g[m] = {m} \X DOMAIN f[m]
    BY <1>1
  <2> HIDE DEF new
  <2>3. UNION {{m} \X DOMAIN g[m] : m \in DOMAIN g} =
          (UNION {{m} \X DOMAIN f[m] : m \in DOMAIN f}) \cup new
    BY <2>2
  <2> QED
    BY <2>1, <2>3
<1>3. Slots(f) \cap new = {}
  <2>1. ASSUME NEW x \in Slots(f), x \in new PROVE FALSE
    <3>1. PICK m \in DOMAIN f : x \in {m} \X DOMAIN f[m]
      BY DEF Slots
    <3>2. x[1] = m /\ x[1] = n
      BY <2>1, <3>1
    <3> QED
      BY <3>1, <3>2
  <2> QED
    BY <2>1
<1>4. IsFiniteSet(new) /\ Cardinality(new) = Len(c)
  <2>1. IsFiniteSet(1 .. Len(c)) /\ Cardinality(1 .. Len(c)) = Len(c)
    <3>1. 1 \in Int /\ Len(c) \in Int
      BY <1>1
    <3>2. /\ IsFiniteSet(1 .. Len(c))
          /\ Cardinality(1 .. Len(c)) = IF 1 > Len(c) THEN 0 ELSE Len(c) - 1 + 1
      BY <3>1, FS_Interval
    <3> QED
      BY <1>1, <3>2
  <2>2. IsFiniteSet({n}) /\ Cardinality({n}) = 1
    BY FS_Singleton
  <2>3. IsFiniteSet(new) /\ Cardinality(new) = Cardinality({n}) * Cardinality(1 .. Len(c))
    BY <2>1, <2>2, FS_Product
  <2> QED
    BY <1>1, <2>1, <2>2, <2>3
<1> HIDE DEF new
<1>5. /\ IsFiniteSet(Slots(f) \cup new)
      /\ Cardinality(Slots(f) \cup new) =
            Cardinality(Slots(f)) + Cardinality(new) - Cardinality(Slots(f) \cap new)
  BY <1>4, FS_Union
<1>6. Cardinality(Slots(f)) \in Nat /\ Cardinality({}) = 0
  BY FS_CardinalityType, FS_EmptySet
<1>7. Cardinality(Slots(f) \cap new) = 0
  BY <1>3, <1>6, Zenon
<1>8. Cardinality(Slots(f) \cup new) = Cardinality(Slots(f)) + Len(c)
  BY <1>1, <1>4, <1>5, <1>6, <1>7
<1>9. IsFiniteSet(Slots(g)) /\ Size(g) = Size(f) + Len(c)
  BY <1>2, <1>5, <1>8, Zenon DEF Size
<1> QED
  BY <1>1, <1>6, <1>9 DEF Size

(* The size of a finite directory is a number.                             *)
LEMMA SizeType == ASSUME NEW f, IsFiniteSet(Slots(f)) PROVE Size(f) \in Nat
BY FS_CardinalityType DEF Size

(* Removing a file.                                                        *)
LEMMA SizeWithout ==
    ASSUME NEW f, NEW n, IsFiniteSet(Slots(f)), n \in DOMAIN f => f[n] \in Seq(Entries)
    PROVE  /\ IsFiniteSet(Slots(Without(f, n)))
           /\ Size(Without(f, n)) \in Nat /\ Size(f) \in Nat
           /\ n \in DOMAIN f => Size(f) = Size(Without(f, n)) + Len(f[n])
           /\ n \notin DOMAIN f => Size(f) = Size(Without(f, n))
<1> DEFINE g == Without(f, n)
<1>1. DOMAIN g = DOMAIN f \ {n} /\ \A m \in DOMAIN g : g[m] = f[m]
  BY DEF Without
<1> HIDE DEF g
<1>2. Slots(g) \subseteq Slots(f)
  BY <1>1 DEF Slots
<1>3. IsFiniteSet(Slots(g)) /\ Size(g) \in Nat /\ Size(f) \in Nat
  BY <1>2, FS_Subset, SizeType
<1>4. CASE n \in DOMAIN f
  <2>1. n \notin DOMAIN g /\ DOMAIN f = DOMAIN g \cup {n} /\ \A m \in DOMAIN g : f[m] = g[m]
    BY <1>1, <1>4
  <2>2. Size(f) = Size(g) + Len(f[n])
    BY <1>3, <1>4, <2>1, OneFileMore
  <2> QED
    BY <1>3, <1>4, <2>2 DEF g
<1>5. CASE n \notin DOMAIN f
  <2>1. DOMAIN g = DOMAIN f
    BY <1>1, <1>5
  <2>2. Slots(g) = Slots(f)
    BY <1>1, <2>1 DEF Slots
  <2> QED
    BY <1>3, <1>5, <2>2 DEF g, Size
<1> QED
  BY <1>4, <1>5

(* Writing a file, over an old one of that name perhaps.                   *)
LEMMA SizeWith ==
    ASSUME NEW f, NEW n, NEW c \in Seq(Entries), IsFiniteSet(Slots(f)),
           n \in DOMAIN f => f[n] \in Seq(Entries)
    PROVE  /\ IsFiniteSet(Slots(With(f, n, c))) /\ Len(c) \in Nat
           /\ Size(With(f, n, c)) = Size(Without(f, n)) + Len(c)
           /\ Without(With(f, n, c), n) = Without(f, n)
<1> DEFINE g == With(f, n, c)
           h == Without(f, n)
<1>1. /\ DOMAIN g = DOMAIN f \cup {n} /\ g[n] = c /\ \A m \in DOMAIN f : m # n => g[m] = f[m]
      /\ DOMAIN h = DOMAIN f \ {n} /\ \A m \in DOMAIN h : h[m] = f[m]
  BY DEF With, Without
<1>2. Without(g, n) = h
  <2>1. [m \in DOMAIN g \ {n} |-> g[m]] = [m \in DOMAIN f \ {n} |-> f[m]]
    BY <1>1
  <2> QED
    BY <2>1 DEF Without
<1>3. IsFiniteSet(Slots(h))
  BY SizeWithout
<1>4. n \notin DOMAIN h /\ DOMAIN g = DOMAIN h \cup {n} /\ \A m \in DOMAIN h : g[m] = h[m]
  BY <1>1
<1> HIDE DEF g, h
<1>5. IsFiniteSet(Slots(g)) /\ Size(g) = Size(h) + Len(c) /\ Len(c) \in Nat
  BY <1>1, <1>3, <1>4, OneFileMore
<1> QED
  BY <1>2, <1>5 DEF g, h

-----------------------------------------------------------------------------
(* Which steps touch the flush, and which only the files.                  *)
LEMMA FlushFootprint ==
    ASSUME [Next]_vars
    PROVE  \/ Write
           \/ /\ UNCHANGED <<tmp, uncounted, stage, target, flushing>>
              /\ \/ UNCHANGED spool
                 \/ DeleteChunk /\ tpc' = "idle"
           \/ /\ stage' \in {"none", "check"} /\ UNCHANGED <<spool, tmp, uncounted>>
              /\ stage = "none" \/ Exit \/ Crash
BY DEF Next, IngestTask, Tick, Shutdown, EventLoop, Environment, IngestRecv, IngestLock,
   IngestPush, PushToMemory, FlushForPush, BeginFlush, IngestRelease, IngestStop, TickStart,
   DrainMemory, NextDiskChunk, ListFault, ReadChunk, ReadFault, PublishEntry, FinishMemory,
   FinishDisk, Discard, PublishFailMemory, PublishFailDisk, Relock, Repush, Backoff,
   DeletePartial, CancelTick, ShutdownFlush, ShutdownNothing, ShutdownFlushed, Exit, Vanish,
   FreshBuffer, Connect, Disconnect, Send, LoopStop, Produce, Signal, Crash, Restart, EndTick,
   vars, bufVars, diskVars, writeVars, ingestVars, tickVars, mqttVars, procVars

(* The steps of a flush, and that they are not those of the tick.          *)
LEMMA WriteFootprint ==
    ASSUME Write
    PROVE  /\ UNCHANGED <<produced, chan, ingestVars, tickVars, mqttVars, procVars, handed>>
           /\ \/ EvictPick \/ EvictRemove \/ WriteTmp \/ RenameChunk
              \/ AbortFlush /\ stage' = "none" /\ UNCHANGED <<spool, tmp>>
BY DEF Write, FlushStep, EvictGone, WriteFault, AbortFlush, diskVars

(* The bounds of the environment only count up.                            *)
LEMMA CountersGrow ==
    ASSUME IInv, [Next]_vars
    PROVE  /\ crashes \in Nat /\ crashes' \in Nat /\ crashes' >= crashes
           /\ faults \in Nat /\ faults' \in Nat /\ faults' >= faults
<1>1. /\ crashes \in Nat /\ faults \in Nat
  BY DEF IInv, TypeOK, BufferTypeOK, ProcessTypeOK
<1>2. crashes' = crashes \/ crashes' = crashes + 1
  BY DEF Next, IngestTask, Tick, Shutdown, EventLoop, Environment, IngestRecv, IngestLock,
   IngestPush, PushToMemory, FlushForPush, BeginFlush, IngestRelease, IngestStop, TickStart,
   DrainMemory, NextDiskChunk, ListFault, ReadChunk, ReadFault, PublishEntry, FinishMemory,
   FinishDisk, Discard, PublishFailMemory, PublishFailDisk, Relock, Repush, Backoff, Write,
   DeletePartial, CancelTick, ShutdownFlush, ShutdownNothing, ShutdownFlushed, Exit, Vanish,
   FreshBuffer, Connect, Disconnect, Send, LoopStop, Produce, Signal, Crash, Restart, EndTick,
   vars, bufVars, diskVars, writeVars, ingestVars, tickVars, mqttVars, procVars
<1>3. faults' = faults \/ faults' = faults + 1
  BY DEF Next, IngestTask, Tick, Shutdown, EventLoop, Environment, IngestRecv, IngestLock,
   IngestPush, PushToMemory, FlushForPush, BeginFlush, IngestRelease, IngestStop, TickStart,
   DrainMemory, NextDiskChunk, ListFault, ReadChunk, ReadFault, PublishEntry, FinishMemory,
   FinishDisk, Discard, PublishFailMemory, PublishFailDisk, Relock, Repush, Backoff, Write,
   DeletePartial, CancelTick, ShutdownFlush, ShutdownNothing, ShutdownFlushed, Exit, Vanish,
   FreshBuffer, Connect, Disconnect, Send, LoopStop, Produce, Signal, Crash, Restart, EndTick,
   FlushStep, EvictPick, EvictRemove, EvictGone, WriteTmp, RoomFound, RenameChunk, WriteFault,
   AbortFlush, DeleteChunk, vars, bufVars, diskVars, writeVars, ingestVars, tickVars, mqttVars, procVars
<1> QED
  BY <1>1, <1>2, <1>3

(* What is about to be renamed is new, and holds what was written.         *)
LEMMA RenameInvStep == ASSUME IInv, RenameInv, [Next]_vars PROVE RenameInv'
<1>1. RenameInv /\ FilesTypeOK /\ ChunksBounded
  BY DEF IInv, TypeOK
<1> SUFFICES ASSUME stage' = "rename"
             PROVE  target' \notin DOMAIN spool' /\ tmp'[target'] = FirstChunk(flushing')
  BY DEF RenameInv, FirstChunk
<1>2. CASE Write
  <2>1. WriteTmp
    BY <1>2, WriteFootprint DEF EvictPick, EvictRemove, RenameChunk
  <2>2. /\ spool' = spool /\ flushing' = flushing /\ target' = NextChunkNumber(spool)
        /\ tmp' = With(tmp, target', FirstChunk(flushing))
    BY <2>1 DEF WriteTmp
  <2>3. target' \in Nat /\ \A n \in DOMAIN spool : n < target'
    BY <1>1, <2>2, NextNumber
  <2>4. target' \notin DOMAIN spool'
    BY <2>2, <2>3
  <2> QED
    BY <2>2, <2>4 DEF With
<1>3. CASE UNCHANGED <<tmp, stage, target, flushing>> /\ (UNCHANGED spool \/ DeleteChunk)
  <2>1. DOMAIN spool' \subseteq DOMAIN spool
    BY <1>3 DEF DeleteChunk, DeleteFile, Without
  <2> QED
    BY <1>1, <1>3, <2>1 DEF RenameInv
<1> QED
  BY <1>2, <1>3, FlushFootprint

(* The directories stay finite, and their sizes change by single files.    *)
LEMMA Deletion ==
    ASSUME IInv, SInv, UNCHANGED spool \/ spool' = Without(spool, path) \/ spool' = Without(spool, target)
    PROVE  /\ IsFiniteSet(Slots(spool')) /\ Size(spool') \in Nat /\ Size(spool) \in Nat
           /\ Size(spool') <= Size(spool)
           /\ DOMAIN spool = {} => DOMAIN spool' = {}
<1>1. IsFiniteSet(Slots(spool)) /\ \A n \in DOMAIN spool : spool[n] \in Seq(Entries)
  BY DEF SInv, IInv, TypeOK, FilesTypeOK
<1>2. ASSUME NEW n, spool' = Without(spool, n)
      PROVE  /\ IsFiniteSet(Slots(spool')) /\ Size(spool') \in Nat /\ Size(spool) \in Nat
             /\ Size(spool') <= Size(spool)
  <2>1. /\ IsFiniteSet(Slots(Without(spool, n)))
        /\ Size(Without(spool, n)) \in Nat /\ Size(spool) \in Nat
        /\ n \in DOMAIN spool => Size(spool) = Size(Without(spool, n)) + Len(spool[n])
        /\ n \notin DOMAIN spool => Size(spool) = Size(Without(spool, n))
    BY <1>1, SizeWithout
  <2>2. n \in DOMAIN spool => Len(spool[n]) \in Nat
    BY <1>1, LenProperties
  <2>3. Size(Without(spool, n)) <= Size(spool)
    BY <2>1, <2>2
  <2> QED
    BY <1>2, <2>1, <2>3
<1>3. CASE UNCHANGED spool
  BY <1>1, <1>3, SizeType
<1>4. DOMAIN spool = {} => DOMAIN spool' = {}
  BY DEF Without
<1> QED
  BY <1>2, <1>3, <1>4

(* A product of naturals: its type, its successor, and that it is monotone. *)
LEMMA Products ==
    ASSUME NEW m \in Nat, NEW k \in Nat, NEW l \in Nat
    PROVE  /\ m * k \in Nat /\ m * (k + 1) = m * k + m
           /\ k <= l => m * k <= m * l
<1>1. m * k \in Nat /\ m * (k + 1) = m * k + m
  OBVIOUS
<1>2. ASSUME k <= l PROVE m * k <= m * l
  <2>1. PICK d \in Nat : l = k + d
    <3>1. l - k \in Nat /\ l = k + (l - k)
      BY <1>2
    <3> QED
      BY <3>1
  <2>2. m * (k + d) = m * k + m * d /\ m * d \in Nat
    OBVIOUS
  <2> QED
    BY <1>1, <2>1, <2>2
<1> QED
  BY <1>1, <1>2

(* The temporary file of the flush is one chunk.                           *)
LEMMA OrphansAre ==
    ASSUME IInv, SInv
    PROVE  /\ Size(Orphans) \in Nat /\ Size(tmp) \in Nat /\ Size(spool) \in Nat
           /\ Size(tmp) <= Size(Orphans) + ChunkMax
           /\ stage # "rename" => Orphans = tmp
<1>1. /\ IsFiniteSet(Slots(tmp)) /\ IsFiniteSet(Slots(spool))
      /\ \A n \in DOMAIN tmp : tmp[n] \in Seq(Entries) /\ Len(tmp[n]) <= ChunkMax /\ Len(tmp[n]) \in Nat
  BY LenProperties DEF SInv, IInv, TypeOK, FilesTypeOK, ChunksBounded
<1>2. Size(tmp) \in Nat /\ Size(spool) \in Nat /\ ChunkMax \in Nat
  BY <1>1, SizeType, ConfigAssumption
<1>3. CASE stage = "rename"
  <2>1. /\ Size(Without(tmp, target)) \in Nat
        /\ target \in DOMAIN tmp => Size(tmp) = Size(Without(tmp, target)) + Len(tmp[target])
        /\ target \notin DOMAIN tmp => Size(tmp) = Size(Without(tmp, target))
    BY <1>1, SizeWithout
  <2>2. Size(tmp) <= Size(Without(tmp, target)) + ChunkMax
    BY <1>1, <1>2, <2>1
  <2> QED
    BY <1>2, <1>3, <2>1, <2>2 DEF Orphans
<1>4. CASE stage # "rename"
  BY <1>2, <1>4 DEF Orphans
<1> QED
  BY <1>3, <1>4

(* With as many orphans as before, or one more after a crash or a fault.   *)
LEMMA OrphansStep ==
    ASSUME IInv, SInv, [Next]_vars,
           \/ Size(Orphans') \in Nat /\ Size(Orphans') <= Size(Orphans)
           \/ /\ UNCHANGED tmp /\ Orphans' = tmp'
              /\ crashes' = crashes + 1 \/ faults' = faults + 1
    PROVE  OrphansBounded'
<1> DEFINE k == crashes + faults
           l == crashes' + faults'
<1>1. k \in Nat /\ l \in Nat /\ k <= l /\ (crashes' = crashes + 1 \/ faults' = faults + 1 => k + 1 <= l)
  BY CountersGrow
<1>2. ChunkMax \in Nat
  BY ConfigAssumption
<1>3. Size(Orphans) <= ChunkMax * k
  BY DEF SInv, OrphansBounded
<1>4. /\ Size(Orphans) \in Nat /\ Size(tmp) \in Nat /\ Size(tmp) <= Size(Orphans) + ChunkMax
  BY OrphansAre
<1> HIDE DEF k, l
<1>5. ChunkMax * k \in Nat /\ ChunkMax * l \in Nat /\ ChunkMax * k <= ChunkMax * l
      /\ ChunkMax * (k + 1) = ChunkMax * k + ChunkMax
  BY <1>1, <1>2, Products
<1>6. Size(Orphans') <= ChunkMax * l
  <2>1. CASE Size(Orphans') \in Nat /\ Size(Orphans') <= Size(Orphans)
    BY <1>3, <1>4, <1>5, <2>1
  <2>2. CASE /\ UNCHANGED tmp /\ Orphans' = tmp'
             /\ crashes' = crashes + 1 \/ faults' = faults + 1
    <3>1. k + 1 \in Nat /\ k + 1 <= l
      BY <1>1, <2>2
    <3>2. ChunkMax * (k + 1) \in Nat /\ ChunkMax * (k + 1) <= ChunkMax * l
      BY <1>1, <1>2, <3>1, Products
    <3>3. Size(Orphans') = Size(tmp)
      BY <2>2
    <3> QED
      BY <1>2, <1>3, <1>4, <1>5, <3>2, <3>3
  <2> QED
    BY <2>1, <2>2
<1> QED
  BY <1>6 DEF OrphansBounded, l

(* The uncounted chunks: one more, or counted again.                       *)
LEMMA UnseenIs ==
    ASSUME IInv
    PROVE  /\ Unseen \in Nat /\ ChunkMax * (1 + uncounted) = Unseen + ChunkMax
           /\ UNCHANGED uncounted => Unseen' = Unseen
           /\ uncounted' = uncounted + 1 => Unseen' = Unseen + ChunkMax
           /\ uncounted' = 0 => Unseen' = 0
<1>1. uncounted \in Nat /\ ChunkMax \in Nat
  BY ConfigAssumption DEF IInv, TypeOK, FilesTypeOK
<1>2. /\ ChunkMax * uncounted \in Nat
      /\ ChunkMax * (uncounted + 1) = ChunkMax * uncounted + ChunkMax
  BY <1>1, Products
<1>3. ChunkMax * 0 = 0 /\ 1 + uncounted = uncounted + 1
  BY <1>1
<1> QED
  BY <1>2, <1>3 DEF Unseen

(* No new file: the grants stay what they were.                            *)
LEMMA GrantedShrinks ==
    ASSUME IInv, SInv, UNCHANGED <<tmp, uncounted>>,
           UNCHANGED spool \/ spool' = Without(spool, path) \/ spool' = Without(spool, target),
           stage' = "rename" => UNCHANGED <<stage, target>>
    PROVE  Granted' /\ IsFiniteSet(Slots(spool')) /\ IsFiniteSet(Slots(tmp'))
<1>1. /\ IsFiniteSet(Slots(spool')) /\ Size(spool') \in Nat /\ Size(spool) \in Nat
      /\ Size(spool') <= Size(spool)
      /\ DOMAIN spool = {} => DOMAIN spool' = {}
  BY Deletion
<1>2. /\ Size(tmp) \in Nat /\ IsFiniteSet(Slots(tmp)) /\ Granted
      /\ OtherBytes \in Nat /\ SpoolMax \in Nat /\ ChunkMax \in Nat
  BY OrphansAre, ConfigAssumption DEF SInv
<1>5. Unseen \in Nat /\ Unseen' = Unseen
  BY UnseenIs
<1>3. /\ \/ OtherBytes + Size(spool') + Size(tmp') <= SpoolMax + Unseen' + ChunkMax
         \/ Size(spool') <= Unseen' + ChunkMax
  BY <1>1, <1>2, <1>5 DEF Granted
<1>4. ASSUME stage' = "rename"
      PROVE  \/ OtherBytes + Size(spool') + Size(tmp') <= SpoolMax + Unseen' + Len(tmp'[target'])
             \/ Size(spool') <= Unseen'
  <2>1. target \in DOMAIN tmp /\ tmp[target] \in Seq(Entries) /\ UNCHANGED <<tmp, target>>
        /\ stage = "rename"
    BY <1>4 DEF IInv, FlushState, TypeOK, FilesTypeOK
  <2>2. Len(tmp[target]) \in Nat
    BY <2>1, LenProperties
  <2> QED
    BY <1>1, <1>2, <1>5, <2>1, <2>2 DEF Granted
<1> QED
  BY <1>1, <1>2, <1>3, <1>4 DEF Granted

(* Writing a temporary file: the check has just left room for it.          *)
LEMMA WriteTmpStep ==
    ASSUME IInv, SInv, [Next]_vars, WriteTmp
    PROVE  Granted' /\ OrphansBounded' /\ IsFiniteSet(Slots(spool')) /\ IsFiniteSet(Slots(tmp'))
<1> DEFINE n == NextChunkNumber(spool)
           c == FirstChunk(flushing)
<1>1. /\ UNCHANGED spool /\ target' = n /\ tmp' = With(tmp, n, c) /\ stage = "check"
      /\ stage' = "rename" /\ RoomFound
  BY DEF WriteTmp
<1>2. /\ IsFiniteSet(Slots(tmp)) /\ IsFiniteSet(Slots(spool))
      /\ \A m \in DOMAIN tmp : tmp[m] \in Seq(Entries)
      /\ c \in Seq(Entries) /\ Len(c) <= ChunkMax
  BY ChunkCut DEF SInv, IInv, TypeOK, FilesTypeOK, BufferTypeOK
<1>3. OtherBytes \in Nat /\ SpoolMax \in Nat /\ ChunkMax \in Nat
  BY ConfigAssumption
<1>4. Size(tmp) \in Nat /\ Size(spool) \in Nat /\ Orphans = tmp
  BY <1>1, OrphansAre
<1> HIDE DEF n, c
<1>5. /\ IsFiniteSet(Slots(With(tmp, n, c))) /\ Len(c) \in Nat
      /\ Size(With(tmp, n, c)) = Size(Without(tmp, n)) + Len(c)
      /\ Without(With(tmp, n, c), n) = Without(tmp, n)
  BY <1>2, SizeWith
<1>6. /\ Size(Without(tmp, n)) \in Nat /\ Size(Without(tmp, n)) <= Size(tmp)
  <2>1. /\ Size(Without(tmp, n)) \in Nat
        /\ n \in DOMAIN tmp => Size(tmp) = Size(Without(tmp, n)) + Len(tmp[n])
        /\ n \notin DOMAIN tmp => Size(tmp) = Size(Without(tmp, n))
    BY <1>2, SizeWithout
  <2>2. n \in DOMAIN tmp => Len(tmp[n]) \in Nat
    BY <1>2, LenProperties
  <2> QED
    BY <1>4, <2>1, <2>2
<1>7. Orphans' = Without(tmp, n)
  <2>1. Orphans' = Without(tmp', target')
    BY <1>1 DEF Orphans
  <2>2. Without(tmp', target') = Without(With(tmp, n, c), n)
    BY <1>1, Zenon
  <2> QED
    BY <1>5, <2>1, <2>2, Zenon
<1>8. OrphansBounded'
  BY <1>4, <1>6, <1>7, OrphansStep
<1>9. tmp'[target'] = c
  BY <1>1 DEF With
<1>10. /\ Unseen' \in Nat
       /\ \/ OtherBytes + Size(spool) + Size(tmp) <= SpoolMax + Unseen'
          \/ Size(spool) <= Unseen'
  <2>1. DOMAIN spool = {} => Size(spool) = 0
    <3>1. DOMAIN spool = {} => Slots(spool) = {}
      BY DEF Slots
    <3> QED
      BY <3>1, FS_EmptySet DEF Size
  <2>2. CASE (~SpoolFull \/ DOMAIN spool = {}) /\ uncounted' = 0
    <3>1. Unseen' = 0
      BY <2>2, UnseenIs
    <3>2. OtherBytes + Size(spool) + Size(tmp) <= SpoolMax \/ DOMAIN spool = {}
      BY <2>2, <1>3, <1>4 DEF SpoolFull, TotalSpoolBytes, Size
    <3> QED
      BY <1>3, <1>4, <2>1, <3>1, <3>2
  <2>3. CASE uncounted' = uncounted + 1
    <3>1. Unseen \in Nat /\ Unseen' = Unseen + ChunkMax
      BY <2>3, UnseenIs
    <3>2. \/ OtherBytes + Size(spool) + Size(tmp) <= SpoolMax + Unseen + ChunkMax
          \/ Size(spool) <= Unseen + ChunkMax
      BY DEF SInv, Granted
    <3> QED
      BY <1>3, <1>4, <3>1, <3>2
  <2> QED
    BY <1>1, <2>2, <2>3 DEF RoomFound
<1>12. Size(tmp') <= Size(tmp) + Len(c) /\ Size(tmp') \in Nat
  BY <1>1, <1>4, <1>5, <1>6
<1>13. \/ OtherBytes + Size(spool') + Size(tmp') <= SpoolMax + Unseen' + Len(tmp'[target'])
       \/ Size(spool') <= Unseen'
  BY <1>1, <1>3, <1>4, <1>5, <1>9, <1>10, <1>12
<1>14. \/ OtherBytes + Size(spool') + Size(tmp') <= SpoolMax + Unseen' + ChunkMax
       \/ Size(spool') <= Unseen' + ChunkMax
  <2>1. Len(c) \in Nat /\ Len(c) <= ChunkMax /\ Size(spool') = Size(spool)
    BY <1>1, <1>2, <1>5
  <2>2. PICK o \in Nat, a \in Nat, b \in Nat, d \in Nat :
             /\ o = OtherBytes /\ a = Size(spool) /\ b = Size(tmp) /\ d = Size(tmp')
    BY <1>3, <1>4, <1>12
  <2>3. PICK l \in Nat, m \in Nat, k \in Nat, u \in Nat :
             /\ l = Len(c) /\ m = SpoolMax /\ k = ChunkMax /\ u = Unseen'
    BY <1>3, <1>10, <2>1
  <2>4. d <= b + l /\ l <= k /\ (o + a + b <= m + u \/ a <= u)
    BY <1>10, <1>12, <2>1, <2>2, <2>3
  <2>5. o + a + d <= m + u + k \/ a <= u + k
    BY <2>4
  <2> QED
    BY <2>1, <2>2, <2>3, <2>5
<1> QED
  BY <1>1, <1>2, <1>5, <1>8, <1>13, <1>14 DEF Granted

(* Renaming: one orphan less, one chunk more.                              *)
LEMMA RenameSizes ==
    ASSUME IInv, SInv, [Next]_vars, RenameChunk
    PROVE  Granted' /\ OrphansBounded' /\ IsFiniteSet(Slots(spool')) /\ IsFiniteSet(Slots(tmp'))
<1> DEFINE c == tmp[target]
<1>1. /\ stage = "rename" /\ spool' = With(spool, target, c) /\ tmp' = Without(tmp, target)
      /\ stage' # "rename" /\ UNCHANGED uncounted
  BY DEF RenameChunk
<1>2. /\ IsFiniteSet(Slots(tmp)) /\ IsFiniteSet(Slots(spool))
      /\ target \in DOMAIN tmp /\ target \notin DOMAIN spool
      /\ c \in Seq(Entries) /\ Len(c) <= ChunkMax
  BY <1>1 DEF SInv, RenameInv, IInv, TypeOK, FilesTypeOK, FlushState, ChunksBounded
<1>3. OtherBytes \in Nat /\ SpoolMax \in Nat /\ ChunkMax \in Nat
  BY ConfigAssumption
<1>4. Size(tmp) \in Nat /\ Size(spool) \in Nat /\ Size(Orphans) \in Nat
  BY OrphansAre
<1>5. /\ IsFiniteSet(Slots(tmp')) /\ Size(tmp') \in Nat /\ Size(tmp) = Size(tmp') + Len(c)
  BY <1>1, <1>2, SizeWithout
<1>6. /\ IsFiniteSet(Slots(spool')) /\ Size(spool') = Size(spool) + Len(c) /\ Len(c) \in Nat
  <2>1. /\ IsFiniteSet(Slots(spool')) /\ Len(c) \in Nat
        /\ Size(spool') = Size(Without(spool, target)) + Len(c)
    BY <1>1, <1>2, SizeWith
  <2>2. Size(spool) = Size(Without(spool, target))
    BY <1>2, SizeWithout
  <2> QED
    BY <2>1, <2>2
<1>7. Orphans' = tmp' /\ Orphans = tmp'
  BY <1>1 DEF Orphans
<1>8. OrphansBounded'
  BY <1>5, <1>7, OrphansStep
<1>9. Unseen \in Nat /\ Unseen' = Unseen
  BY <1>1, UnseenIs
<1>10. \/ OtherBytes + Size(spool) + Size(tmp) <= SpoolMax + Unseen + Len(c)
       \/ Size(spool) <= Unseen
  BY <1>1 DEF SInv, Granted
<1> HIDE DEF c
<1>11. \/ OtherBytes + Size(spool') + Size(tmp') <= SpoolMax + Unseen' + ChunkMax
       \/ Size(spool') <= Unseen' + ChunkMax
  <2>1. PICK o \in Nat, a \in Nat, b \in Nat, d \in Nat :
             /\ o = OtherBytes /\ a = Size(spool) /\ b = Size(tmp) /\ d = Size(tmp')
    BY <1>3, <1>4, <1>5
  <2>2. PICK l \in Nat, m \in Nat, k \in Nat, u \in Nat :
             /\ l = Len(c) /\ m = SpoolMax /\ k = ChunkMax /\ u = Unseen /\ u = Unseen'
    BY <1>3, <1>6, <1>9
  <2>3. PICK e \in Nat : e = Size(spool') /\ e = a + l
    BY <1>6, <2>1, <2>2
  <2>4. b = d + l /\ l <= k /\ (o + a + b <= m + u + l \/ a <= u)
    BY <1>2, <1>5, <1>10, <2>1, <2>2
  <2>5. o + e + d <= m + u + k \/ e <= u + k
    BY <2>3, <2>4
  <2> QED
    BY <2>1, <2>2, <2>3, <2>5
<1> QED
  BY <1>1, <1>5, <1>6, <1>8, <1>11 DEF Granted

(* Every step keeps the size within what was granted.                      *)
LEMMA StepSInv == ASSUME IInv, SInv, [Next]_vars PROVE SInv'
<1>1. RenameInv'
  BY RenameInvStep DEF SInv
<1> DEFINE Rest == Granted' /\ OrphansBounded' /\ IsFiniteSet(Slots(spool')) /\ IsFiniteSet(Slots(tmp'))
<1> SUFFICES Rest
  BY <1>1 DEF SInv
<1>2. Size(Orphans) \in Nat /\ (stage # "rename" => Orphans = tmp)
  BY OrphansAre
<1>3. ASSUME UNCHANGED <<tmp, uncounted>>,
             UNCHANGED spool \/ spool' = Without(spool, path) \/ spool' = Without(spool, target),
             \/ UNCHANGED <<stage, target>>
             \/ stage' # "rename" /\ stage # "rename"
             \/ stage' # "rename" /\ (crashes' = crashes + 1 \/ faults' = faults + 1)
      PROVE  Rest
  <2>1. Granted' /\ IsFiniteSet(Slots(spool')) /\ IsFiniteSet(Slots(tmp'))
    BY <1>3, GrantedShrinks
  <2>2. \/ Orphans' = Orphans
        \/ Orphans' = tmp' /\ (crashes' = crashes + 1 \/ faults' = faults + 1)
    BY <1>2, <1>3 DEF Orphans
  <2>3. OrphansBounded'
    BY <1>2, <1>3, <2>2, OrphansStep
  <2> QED
    BY <2>1, <2>3
<1>4. CASE Write
  <2>1. CASE EvictPick \/ EvictRemove \/ EvictGone
    <3>1. /\ UNCHANGED <<tmp, uncounted>>
          /\ UNCHANGED spool \/ spool' = Without(spool, target)
          /\ stage' # "rename" /\ stage # "rename"
      BY <2>1 DEF EvictPick, EvictRemove, EvictGone, AbortFlush, diskVars
    <3> QED
      BY <1>3, <3>1
  <2>2. CASE WriteFault
    <3>1. UNCHANGED <<tmp, uncounted, spool>> /\ stage' # "rename" /\ faults' = faults + 1
      BY <2>2 DEF WriteFault, AbortFlush, diskVars
    <3> QED
      BY <1>3, <3>1
  <2> QED
    BY <1>4, <2>1, <2>2, WriteTmpStep, RenameSizes DEF Write, FlushStep
<1>5. CASE UNCHANGED <<tmp, uncounted, stage, target>> /\ (UNCHANGED spool \/ DeleteChunk)
  <2>1. UNCHANGED spool \/ spool' = Without(spool, path)
    BY <1>5 DEF DeleteChunk, DeleteFile
  <2> QED
    BY <1>3, <1>5, <2>1
<1>6. CASE /\ stage' \in {"none", "check"} /\ UNCHANGED <<spool, tmp, uncounted>>
           /\ stage = "none" \/ Exit \/ Crash
  <2>1. Exit => stage = "none"
    BY DEF Exit, IInv, FlushState
  <2>2. Crash => crashes' = crashes + 1
    BY DEF Crash
  <2> QED
    BY <1>3, <1>6, <2>1, <2>2
<1> QED
  BY <1>4, <1>5, <1>6, FlushFootprint

(* An empty directory, or one that an earlier process left, is fine.       *)
LEMMA InitSInv == Init => SInv
<1> SUFFICES ASSUME Init PROVE SInv
  OBVIOUS
<1>1. DOMAIN spool = {} /\ DOMAIN tmp = {} /\ stage = "none" /\ crashes = 0 /\ faults = 0
  BY DEF Init, InitBuffer
<1>2. Slots(spool) = {} /\ Slots(tmp) = {}
  BY <1>1 DEF Slots
<1>3. /\ IsFiniteSet(Slots(spool)) /\ IsFiniteSet(Slots(tmp))
      /\ Size(spool) = 0 /\ Size(tmp) = 0
  BY <1>2, FS_EmptySet DEF Size
<1>4. Orphans = tmp /\ ChunkMax \in Nat /\ ChunkMax * 0 = 0
  BY <1>1, ConfigAssumption DEF Orphans
<1>5. RenameInv
  BY <1>1 DEF RenameInv
<1>6. Granted
  <2>1. uncounted = 0 /\ Unseen = 0
    BY <1>4 DEF Init, InitBuffer, Unseen
  <2> QED
    BY <1>1, <1>3, <1>4, <2>1 DEF Granted
<1>7. OrphansBounded
  BY <1>1, <1>3, <1>4 DEF OrphansBounded
<1> QED
  BY <1>3, <1>5, <1>6, <1>7 DEF SInv

(* The invariant of the spool's size.                                      *)
THEOREM SpoolInvariance == Spec => []SInv
<1>1. Spec => []IInv
  BY Invariance
<1>2. Init => SInv
  BY InitSInv
<1>3. IInv /\ SInv /\ [Next]_vars => SInv'
  BY StepSInv
<1> QED
  BY <1>1, <1>2, <1>3, PTL DEF Spec

(* The spool directory outgrows its limit by one chunk, and by one more    *)
(* for each time in a row that it could not be counted, whatever orphaned  *)
(* temporary files and other files it contains.                            *)
THEOREM SpoolLimit == Spec => []SpoolOvershoot
<1>1. IInv /\ SInv => SpoolOvershoot
  <2> SUFFICES ASSUME IInv, SInv PROVE SpoolOvershoot
    OBVIOUS
  <2> DEFINE room == OtherBytes + Size(tmp)
  <2>1. Size(tmp) \in Nat /\ Size(spool) \in Nat
    BY OrphansAre
  <2>2. OtherBytes \in Nat /\ SpoolMax \in Nat /\ ChunkMax \in Nat /\ room \in Nat
    BY <2>1, ConfigAssumption
  <2>3. PICK most \in Nat : most = Max({SpoolMax, room}) /\ most >= SpoolMax /\ most >= room
    BY <2>2, MaxOfTwo
  <2>4. Unseen \in Nat /\ ChunkMax * (1 + uncounted) = Unseen + ChunkMax
    BY UnseenIs
  <2>5. OtherBytes + Size(spool) + Size(tmp) <= Unseen + ChunkMax + most
    BY <2>1, <2>2, <2>3, <2>4 DEF SInv, Granted
  <2> QED
    BY <2>3, <2>4, <2>5 DEF SpoolOvershoot, TotalSpoolBytes, Size
<1> QED
  BY <1>1, Invariance, SpoolInvariance, PTL

(* When a flush looks for room, there is room for its chunk next to what   *)
(* eviction cannot remove.                                                 *)
Fits == stage = "check" => OtherBytes + Size(tmp) + ChunkMax <= SpoolMax

(* The configured limit leaves room for a chunk, next to the other files   *)
(* and an orphaned temporary file for each crash and each failed call.     *)
EnoughRoom == OtherBytes + ChunkMax * (MaxCrashes + MaxFaults) + ChunkMax <= SpoolMax

(* With such a limit a chunk always fits.                                  *)
THEOREM RoomForAChunk == ASSUME EnoughRoom PROVE Spec => []Fits
<1>1. IInv /\ SInv => Fits
  <2> SUFFICES ASSUME IInv, SInv, stage = "check"
               PROVE  OtherBytes + Size(tmp) + ChunkMax <= SpoolMax
    BY DEF Fits
  <2> DEFINE k == crashes + faults
             l == MaxCrashes + MaxFaults
  <2>1. k \in Nat /\ l \in Nat /\ k <= l
    BY ConfigAssumption, PipelineAssumption DEF IInv, TypeOK, BufferTypeOK, ProcessTypeOK
  <2>2. OtherBytes \in Nat /\ SpoolMax \in Nat /\ ChunkMax \in Nat
    BY ConfigAssumption
  <2>3. Size(tmp) \in Nat /\ Size(tmp) <= ChunkMax * k
    BY OrphansAre DEF SInv, OrphansBounded
  <2>4. OtherBytes + ChunkMax * l + ChunkMax <= SpoolMax
    BY DEF EnoughRoom
  <2> HIDE DEF k, l
  <2>5. ChunkMax * k \in Nat /\ ChunkMax * l \in Nat /\ ChunkMax * k <= ChunkMax * l
    BY <2>1, <2>2, Products
  <2> QED
    BY <2>2, <2>3, <2>4, <2>5
<1> QED
  BY <1>1, Invariance, SpoolInvariance, PTL
-----------------------------------------------------------------------------
(* The tiers in order of age, while the daemon is not asked to stop.       *)

Below(A, B) == \A e \in A, f \in B : e < f

Rising(s) == \A i, j \in 1 .. Len(s) : i < j => s[i] < s[j]

(* The way of an entry: from the channel, through the hands of the         *)
(* ingestion task, into the memory buffer or a flush, and to the disk.     *)
Buffered == InWrite \cup ToSet(memory)
Waiting  == ToSet(todo) \cup ({hand} \ {0})

Layered(a, b, c, d, e, p) ==
    /\ Below(a, b) /\ Below(a \cup b, c \cup d \cup e)
    /\ Below(c, d \cup e) /\ Below(d, e)
    /\ \A x \in a \cup b \cup c \cup d \cup e : x <= p

(* Every layer is older than the next.                                     *)
LayersOrder == Layered(evicted, OnDisk, Buffered, Waiting, ToSet(chan), produced)

(* And so are the chunks and the entries of a queue among themselves.      *)
ChunksOrder == \A m, n \in DOMAIN spool : m < n => Below(ToSet(spool[m]), ToSet(spool[n]))
QueuesOrder == Rising(flushing) /\ Rising(memory) /\ Rising(chan)

(* What a flush is about to do to the directory.                           *)
TargetOrder ==
    /\ stage = "rename" => \A n \in DOMAIN spool : n < target
    /\ stage = "remove" => \A n \in DOMAIN spool : target <= n

(* Nothing is pushed back, and the ingestion task has one entry at a time. *)
Undisturbed ==
    /\ phase # "signalled" /\ loopAlive
    /\ tpc \in {"idle", "memory", "disk", "read", "pubMem", "pubDisk", "discard"}
    /\ hand # 0 => ipc = "lock"
    /\ todo # <<>> => ipc = "push"
    /\ Len(todo) <= 1

AInv == /\ LayersOrder /\ ChunksOrder /\ QueuesOrder /\ TargetOrder /\ Undisturbed

(* The members of a queue, and of an empty one.                            *)
LEMMA QueueMembers ==
    ASSUME NEW s \in Seq(Entries)
    PROVE  /\ ToSet(s) = {s[i] : i \in 1 .. Len(s)} /\ ToSet(<<>>) = {} /\ Rising(<<>>)
           /\ Len(s) \in Nat /\ ToSet(s) \subseteq Entries
<1>1. DOMAIN s = 1 .. Len(s) /\ Len(s) \in Nat
  BY LenProperties
<1>2. <<>> \in Seq(Entries) /\ Len(<<>>) = 0
  BY EmptySeq
<1>3. DOMAIN <<>> = 1 .. Len(<<>>)
  BY <1>2, LenProperties
<1>4. DOMAIN <<>> = {} /\ 1 .. Len(<<>>) = {}
  BY <1>2, <1>3
<1>5. ToSet(<<>>) = {}
  BY <1>4 DEF ToSet
<1>6. Rising(<<>>)
  BY <1>4 DEF Rising
<1>7. ToSet(s) \subseteq Entries
  BY ToSetType
<1> QED
  BY <1>1, <1>5, <1>6, <1>7 DEF ToSet

(* The oldest of a queue, and the rest.                                    *)
LEMMA HeadRest ==
    ASSUME NEW s \in Seq(Entries), s # <<>>
    PROVE  /\ Head(s) \in ToSet(s) /\ Head(s) \in Entries /\ Tail(s) \in Seq(Entries)
           /\ ToSet(Tail(s)) \subseteq ToSet(s)
           /\ Len(s) <= 1 => Tail(s) = <<>>
           /\ Rising(s) => Below({Head(s)}, ToSet(Tail(s))) /\ Rising(Tail(s))
<1> DEFINE t == Tail(s)
<1>1. /\ Head(s) \in Entries /\ t \in Seq(Entries) /\ Len(t) = Len(s) - 1
      /\ \A i \in 1 .. Len(t) : t[i] = s[i + 1]
  BY HeadTailProperties
<1>2. Len(s) \in Nat \ {0} /\ Len(t) \in Nat /\ (t # <<>> => Len(t) # 0)
  BY <1>1, EmptySeq, LenProperties
<1>3. Head(s) = s[1]
  OBVIOUS
<1> HIDE DEF t
<1>4. ToSet(s) = {s[i] : i \in 1 .. Len(s)} /\ ToSet(t) = {t[i] : i \in 1 .. Len(t)}
  BY <1>1, QueueMembers
<1>5. Head(s) \in ToSet(s)
  BY <1>2, <1>3, <1>4
<1>6. ASSUME NEW x \in ToSet(t)
      PROVE  \E i \in 1 .. Len(t) : x = s[i + 1] /\ i + 1 \in 1 .. Len(s)
  BY <1>1, <1>2, <1>4
<1>7. ToSet(t) \subseteq ToSet(s)
  BY <1>4, <1>6
<1>8. Len(s) <= 1 => t = <<>>
  BY <1>1, <1>2
<1>9. ASSUME Rising(s) PROVE Below({Head(s)}, ToSet(t)) /\ Rising(t)
  <2>1. ASSUME NEW x \in ToSet(t) PROVE s[1] < x
    <3>1. PICK i \in 1 .. Len(t) : x = s[i + 1] /\ i + 1 \in 1 .. Len(s)
      BY <1>6
    <3>2. 1 \in 1 .. Len(s) /\ 1 < i + 1
      BY <1>2
    <3> QED
      BY <1>9, <3>1, <3>2 DEF Rising
  <2>2. ASSUME NEW i \in 1 .. Len(t), NEW j \in 1 .. Len(t), i < j PROVE t[i] < t[j]
    <3>1. i + 1 \in 1 .. Len(s) /\ j + 1 \in 1 .. Len(s) /\ i + 1 < j + 1
      BY <1>1, <1>2, <2>2
    <3> QED
      BY <1>1, <1>9, <3>1 DEF Rising
  <2> QED
    BY <1>3, <2>1, <2>2 DEF Below, Rising
<1> QED
  BY <1>1, <1>5, <1>7, <1>8, <1>9 DEF t

(* A queue with something newer at its end.                                *)
LEMMA OneMore ==
    ASSUME NEW s \in Seq(Entries), NEW x \in Entries
    PROVE  /\ ToSet(Append(s, x)) = ToSet(s) \cup {x}
           /\ Rising(s) /\ Below(ToSet(s), {x}) => Rising(Append(s, x))
<1> DEFINE t == Append(s, x)
<1>1. /\ t \in Seq(Entries) /\ Len(t) = Len(s) + 1 /\ t[Len(s) + 1] = x
      /\ \A i \in 1 .. Len(s) : t[i] = s[i]
  BY AppendProperties
<1> HIDE DEF t
<1>2. /\ ToSet(s) = {s[i] : i \in 1 .. Len(s)} /\ ToSet(t) = {t[i] : i \in 1 .. Len(t)}
      /\ Len(s) \in Nat
  BY <1>1, QueueMembers
<1>3. 1 .. Len(t) = (1 .. Len(s)) \cup {Len(s) + 1}
  BY <1>1, <1>2
<1>4. ToSet(t) = ToSet(s) \cup {x}
  BY <1>1, <1>2, <1>3
<1>5. ASSUME Rising(s), Below(ToSet(s), {x}), NEW i \in 1 .. Len(t), NEW j \in 1 .. Len(t), i < j
      PROVE  t[i] < t[j]
  <2>1. i \in 1 .. Len(s) /\ t[i] = s[i] /\ s[i] \in ToSet(s)
    BY <1>1, <1>2, <1>5
  <2>2. CASE j \in 1 .. Len(s)
    BY <1>1, <1>5, <2>1, <2>2 DEF Rising
  <2>3. CASE j = Len(s) + 1
    BY <1>1, <1>5, <2>1, <2>3 DEF Below
  <2> QED
    BY <1>3, <2>2, <2>3
<1> QED
  BY <1>4, <1>5 DEF t, Rising

(* The chunk a flush writes, and what it leaves.                           *)
LEMMA ChunkOrder ==
    ASSUME NEW s \in Seq(Entries), Rising(s)
    PROVE  /\ ToSet(FirstChunk(s)) \subseteq ToSet(s) /\ ToSet(AfterChunk(s)) \subseteq ToSet(s)
           /\ Below(ToSet(FirstChunk(s)), ToSet(AfterChunk(s)))
           /\ Rising(AfterChunk(s))
<1>1. ChunkMax \in Nat /\ Len(s) \in Nat
  BY LenProperties, ConfigAssumption
<1>2. PICK k \in Nat : k = Min({ChunkMax, Len(s)}) /\ k <= Len(s)
  BY <1>1, MinOfTwo
<1> DEFINE f == FirstChunk(s)
           r == AfterChunk(s)
<1>3. f = SubSeq(s, 1, k) /\ r = SubSeq(s, k + 1, Len(s))
  BY <1>2 DEF FirstChunk, AfterChunk
<1>4. \A i \in 1 .. Len(s) : s[i] \in Entries
  BY ElementOfSeq, <1>1
<1>5. /\ f \in Seq(Entries) /\ Len(f) = k /\ \A i \in 1 .. k : f[i] = s[i]
  <2>1. \A i \in 1 .. k : s[i] \in Entries
    BY <1>2, <1>4, <1>1
  <2>2. /\ SubSeq(s, 1, k) \in Seq(Entries)
        /\ Len(SubSeq(s, 1, k)) = IF 1 <= k THEN k - 1 + 1 ELSE 0
        /\ \A i \in 1 .. k - 1 + 1 : SubSeq(s, 1, k)[i] = s[1 + i - 1]
    BY <2>1, SubSeqProperties
  <2> HIDE DEF f, r
  <2> QED
    BY <1>3, <2>2
<1>6. /\ r \in Seq(Entries) /\ Len(r) = Len(s) - k /\ \A i \in 1 .. Len(r) : r[i] = s[k + i]
  <2>1. \A i \in k + 1 .. Len(s) : s[i] \in Entries
    BY <1>2, <1>4, <1>1
  <2>2. /\ SubSeq(s, k + 1, Len(s)) \in Seq(Entries)
        /\ Len(SubSeq(s, k + 1, Len(s))) = IF k + 1 <= Len(s) THEN Len(s) - (k + 1) + 1 ELSE 0
        /\ \A i \in 1 .. Len(s) - (k + 1) + 1 : SubSeq(s, k + 1, Len(s))[i] = s[k + 1 + i - 1]
    BY <1>1, <2>1, SubSeqProperties
  <2> DEFINE l == Len(s)
  <2> HIDE DEF f, r, l
  <2>3. r \in Seq(Entries) /\ Len(r) = IF k + 1 <= l THEN l - (k + 1) + 1 ELSE 0
    BY <1>3, <2>2 DEF l
  <2>4. l \in Nat /\ k <= l
    BY <1>1, <1>2 DEF l
  <2>5. Len(r) = l - k
    BY <2>3, <2>4
  <2>6. ASSUME NEW i \in 1 .. Len(r) PROVE r[i] = s[k + i]
    <3>1. i \in 1 .. l - (k + 1) + 1 /\ (k + 1) + i - 1 = k + i
      BY <2>4, <2>5
    <3>2. r[i] = s[k + 1 + i - 1]
      BY <1>3, <2>2, <3>1 DEF l
    <3> QED
      BY <3>1, <3>2, Zenon
  <2> QED
    BY <2>3, <2>5, <2>6 DEF l
<1> HIDE DEF f, r
<1>7. /\ ToSet(s) = {s[i] : i \in 1 .. Len(s)} /\ ToSet(f) = {f[i] : i \in 1 .. Len(f)}
      /\ ToSet(r) = {r[i] : i \in 1 .. Len(r)}
  BY <1>5, <1>6, QueueMembers
<1>8. ASSUME NEW x \in ToSet(f) PROVE \E i \in 1 .. k : x = s[i] /\ i \in 1 .. Len(s)
  <2>1. PICK i \in 1 .. Len(f) : x = f[i]
    BY <1>7
  <2>2. i \in 1 .. k /\ x = s[i]
    BY <1>5, <2>1
  <2>3. i \in 1 .. Len(s)
    BY <1>1, <1>2, <2>2
  <2> QED
    BY <2>2, <2>3
<1>9. ASSUME NEW y \in ToSet(r) PROVE \E j \in k + 1 .. Len(s) : y = s[j] /\ j \in 1 .. Len(s)
  <2>1. PICK j \in 1 .. Len(r) : y = r[j]
    BY <1>7
  <2>2. k + j \in k + 1 .. Len(s) /\ k + j \in 1 .. Len(s)
    BY <1>1, <1>2, <1>6
  <2>3. y = s[k + j]
    BY <1>6, <2>1
  <2> QED
    BY <2>2, <2>3
<1>10. ToSet(f) \subseteq ToSet(s) /\ ToSet(r) \subseteq ToSet(s)
  BY <1>7, <1>8, <1>9
<1>11. ASSUME NEW x \in ToSet(f), NEW y \in ToSet(r) PROVE x < y
  <2>1. PICK i \in 1 .. k : x = s[i] /\ i \in 1 .. Len(s)
    BY <1>8
  <2>2. PICK j \in k + 1 .. Len(s) : y = s[j] /\ j \in 1 .. Len(s)
    BY <1>9
  <2>3. i < j
    BY <1>1
  <2> QED
    BY <2>1, <2>2, <2>3 DEF Rising
<1>12. ASSUME NEW i \in 1 .. Len(r), NEW j \in 1 .. Len(r), i < j PROVE r[i] < r[j]
  <2>1. k + i \in 1 .. Len(s) /\ k + j \in 1 .. Len(s) /\ k + i < k + j
    BY <1>1, <1>2, <1>6, <1>12
  <2> QED
    BY <1>6, <2>1 DEF Rising
<1> QED
  BY <1>10, <1>11, <1>12 DEF f, r, Below, Rising

-----------------------------------------------------------------------------
(* Entries that move from one layer to the next keep them in order.        *)

(* Losing entries.                                                         *)
LEMMA LayersShrink ==
    ASSUME NEW a, NEW b, NEW c, NEW d, NEW e, NEW p, Layered(a, b, c, d, e, p),
           NEW f, NEW g, NEW h, NEW i,
           f \subseteq b, g \subseteq c, h \subseteq d, i \subseteq e
    PROVE  Layered(a, f, g, h, i, p)
BY DEF Layered, Below

(* From the disk to what has been evicted.                                 *)
LEMMA LayersEvict ==
    ASSUME NEW a, NEW b, NEW c, NEW d, NEW e, NEW p, Layered(a, b, c, d, e, p),
           NEW x, NEW f, x \subseteq b, f \subseteq b, Below(x, f)
    PROVE  Layered(a \cup x, f, c, d, e, p)
BY DEF Layered, Below

(* From a flush to the disk.                                               *)
LEMMA LayersStore ==
    ASSUME NEW a, NEW b, NEW c, NEW d, NEW e, NEW p, Layered(a, b, c, d, e, p),
           NEW x, NEW f, NEW g, x \subseteq c, g \subseteq c, f \subseteq b \cup x, Below(x, g)
    PROVE  Layered(a, f, g, d, e, p)
BY DEF Layered, Below

(* From the hands of a task to the memory buffer.                          *)
LEMMA LayersPush ==
    ASSUME NEW a, NEW b, NEW c, NEW d, NEW e, NEW p, Layered(a, b, c, d, e, p),
           NEW f, f \subseteq c \cup d
    PROVE  Layered(a, b, f, {}, e, p)
BY DEF Layered, Below

(* From the channel to the ingestion task.                                 *)
LEMMA LayersReceive ==
    ASSUME NEW a, NEW b, NEW c, NEW d, NEW e, NEW p, Layered(a, b, c, d, e, p),
           NEW x, NEW f, NEW g, x \in e, g \subseteq e, f \subseteq d \cup {x}, Below({x}, g)
    PROVE  Layered(a, b, c, f, g, p)
BY DEF Layered, Below

(* From a source to the channel.                                           *)
LEMMA LayersProduce ==
    ASSUME NEW a, NEW b, NEW c, NEW d, NEW e, NEW p \in Nat, Layered(a, b, c, d, e, p),
           a \cup b \cup c \cup d \cup e \subseteq Nat
    PROVE  Layered(a, b, c, d, e \cup {p + 1}, p + 1)
<1>1. \A x \in a \cup b \cup c \cup d \cup e : x \in Nat /\ x <= p /\ x < p + 1
  BY DEF Layered
<1> QED
  BY <1>1 DEF Layered, Below

-----------------------------------------------------------------------------
(* The steps, without a signal.                                            *)

(* What RAM and the disk lose, and nothing else.                           *)
Fade ==
    /\ UNCHANGED <<evicted, produced>>
    /\ UNCHANGED spool \/ DeleteFile(path)
    /\ memory' \in {memory, <<>>} /\ flushing' \in {flushing, <<>>} /\ todo' \in {todo, <<>>}
    /\ hand' \in {hand, 0} /\ chan' \in {chan, <<>>}
    /\ UNCHANGED <<stage, target>> \/ stage' \notin {"rename", "remove"}

(* Which steps an undisturbed daemon can take: none of the shutdown, and   *)
(* none after a publication that failed.                                   *)
LEMMA QuietSteps ==
    ASSUME IInv, Undisturbed, [Next]_vars, signals = 0, signals' = 0
    PROVE  \/ Write \/ Produce \/ IngestRecv \/ IngestLock \/ IngestPush \/ IngestRelease
           \/ TickStart \/ DrainMemory \/ NextDiskChunk \/ ListFault \/ ReadChunk \/ ReadFault
           \/ PublishEntry \/ FinishMemory \/ FinishDisk \/ Discard
           \/ Connect \/ Disconnect \/ Send \/ Crash \/ Restart \/ UNCHANGED vars
<1>1. phase # "signalled" /\ loopAlive /\ signals \in Nat
  BY DEF Undisturbed, IInv, TypeOK, ProcessTypeOK
<1>2. tpc \notin {"relock", "relockDisk", "repush", "repushDisk", "flushWait", "flush", "exit"}
  BY DEF Undisturbed
<1>3. ~Repush
  BY <1>2 DEF Repush, PushToMemory, FlushForPush, IInv, LockOwnership
<1>4. ~Signal
  BY <1>1 DEF Signal
<1>5. ~PublishFailMemory /\ ~PublishFailDisk /\ ~Relock /\ ~Backoff /\ ~DeletePartial
  BY <1>1, <1>2 DEF PublishFailMemory, PublishFailDisk, Relock, Backoff, DeletePartial
<1>6. ~Shutdown /\ ~LoopStop /\ ~IngestStop
  BY <1>1, <1>2 DEF Shutdown, CancelTick, ShutdownFlush, ShutdownNothing, ShutdownFlushed, Exit,
     LoopStop, IngestStop
<1> QED
  BY <1>3, <1>4, <1>5, <1>6 DEF Next, IngestTask, Tick, EventLoop, Environment

(* All but the way of an entry and the flush only take away.               *)
LEMMA AgeFootprint ==
    ASSUME IInv, Undisturbed, [Next]_vars, signals = 0, signals' = 0
    PROVE  Write \/ Produce \/ IngestRecv \/ IngestLock \/ IngestPush \/ Fade
<1> USE DEF Fade, bufVars, diskVars, writeVars, ingestVars, tickVars, mqttVars, procVars
<1>1. CASE IngestRelease
  BY <1>1 DEF IngestRelease
<1>2. CASE TickStart \/ DrainMemory \/ NextDiskChunk \/ ListFault \/ ReadChunk \/ ReadFault
  BY <1>2 DEF TickStart, DrainMemory, NextDiskChunk, ListFault, ReadChunk, ReadFault
<1>3. CASE PublishEntry \/ FinishMemory \/ FinishDisk \/ Discard
  BY <1>3 DEF PublishEntry, FinishMemory, FinishDisk, Discard, DeleteChunk
<1>4. CASE Connect \/ Disconnect \/ Send \/ Restart
  BY <1>4 DEF Connect, Disconnect, Send, Restart
<1>5. CASE Crash
  BY <1>5 DEF Crash, Vanish, FreshBuffer
<1>6. CASE UNCHANGED vars
  BY <1>6 DEF vars
<1> QED
  BY <1>1, <1>2, <1>3, <1>4, <1>5, <1>6, QuietSteps

(* The types of the layers.                                                *)
LEMMA LayerTypes ==
    ASSUME TypeOK
    PROVE  /\ evicted \subseteq Entries /\ OnDisk \subseteq Entries /\ Buffered \subseteq Entries
           /\ Waiting \subseteq Entries /\ ToSet(chan) \subseteq Entries
           /\ Entries \subseteq Nat /\ produced \in Nat /\ produced <= MaxEntries
<1>1. ToSet(memory) \subseteq Entries /\ ToSet(flushing) \subseteq Entries
      /\ ToSet(todo) \subseteq Entries /\ ToSet(chan) \subseteq Entries
  BY ToSetType DEF TypeOK, BufferTypeOK, TaskTypeOK
<1>2. \A n \in DOMAIN spool : ToSet(spool[n]) \subseteq Entries
  BY ToSetType DEF TypeOK, FilesTypeOK
<1>3. OnDisk \subseteq Entries
  BY <1>2 DEF OnDisk
<1>4. evicted \subseteq Entries /\ hand \in Entries \cup {0}
  BY DEF TypeOK, FilesTypeOK, TaskTypeOK
<1>5. Entries \subseteq Nat /\ produced \in Nat /\ produced <= MaxEntries
  BY PipelineAssumption DEF Entries, TypeOK, ProcessTypeOK
<1> QED
  BY <1>1, <1>3, <1>4, <1>5 DEF Buffered, InWrite, Waiting

(* A file less.                                                            *)
LEMMA DiskLess ==
    ASSUME NEW n, spool' = Without(spool, n) \/ UNCHANGED spool
    PROVE  /\ OnDisk' \subseteq OnDisk /\ DOMAIN spool' \subseteq DOMAIN spool
           /\ \A m \in DOMAIN spool' : spool'[m] = spool[m]
           /\ ChunksOrder => ChunksOrder'
<1>1. DOMAIN spool' \subseteq DOMAIN spool /\ \A m \in DOMAIN spool' : spool'[m] = spool[m]
  BY DEF Without
<1>2. OnDisk' \subseteq OnDisk
  BY <1>1 DEF OnDisk
<1>3. ChunksOrder => ChunksOrder'
  BY <1>1 DEF ChunksOrder
<1> QED
  BY <1>1, <1>2, <1>3

(* The ways of the ingestion task and of the tick.                         *)
LEMMA UndisturbedStep ==
    ASSUME IInv, Undisturbed, [Next]_vars, signals = 0, signals' = 0
    PROVE  Undisturbed'
<1>1. Len(<<>>) = 0 /\ Len(<<hand>>) = 1
  OBVIOUS
<1>2. todo # <<>> => Tail(todo) = <<>>
  BY HeadRest DEF Undisturbed, IInv, TypeOK, BufferTypeOK
<1> USE DEF Undisturbed, bufVars, diskVars, writeVars, ingestVars, tickVars, mqttVars, procVars
<1>3. CASE IngestRecv \/ IngestRelease \/ Produce
  BY <1>3 DEF IngestRecv, IngestRelease, Produce, IInv, FlushState
<1>4. CASE IngestLock
  BY <1>1, <1>4 DEF IngestLock
<1>5. CASE IngestPush
  BY <1>1, <1>2, <1>5 DEF IngestPush, PushToMemory, FlushForPush, BeginFlush
<1>6. CASE Write
  <2>1. UNCHANGED <<ingestVars, tickVars, mqttVars, procVars>>
        /\ (todo' = todo \/ todo' = <<>>)
    BY <1>2, <1>6 DEF Write, FlushStep, EvictPick, EvictRemove, EvictGone, WriteTmp, RenameChunk,
       WriteFault, AbortFlush
  <2> QED
    BY <1>1, <2>1
<1>7. CASE TickStart \/ DrainMemory \/ NextDiskChunk \/ ListFault \/ ReadChunk \/ ReadFault
  BY <1>7 DEF TickStart, DrainMemory, NextDiskChunk, ListFault, ReadChunk, ReadFault, EndTick
<1>8. CASE PublishEntry \/ FinishMemory \/ FinishDisk \/ Discard
  BY <1>8 DEF PublishEntry, FinishMemory, FinishDisk, Discard, DeleteChunk, EndTick
<1>9. CASE Connect \/ Disconnect \/ Send \/ Restart
  BY <1>9 DEF Connect, Disconnect, Send, Restart
<1>10. CASE Crash
  BY <1>1, <1>10 DEF Crash, Vanish, FreshBuffer, EndTick
<1>11. CASE UNCHANGED vars
  BY <1>11 DEF vars
<1> QED
  BY <1>3, <1>4, <1>5, <1>6, <1>7, <1>8, <1>9, <1>10, <1>11, QuietSteps

(* What a step has to keep.                                                *)
Orders == LayersOrder /\ ChunksOrder /\ QueuesOrder /\ TargetOrder

(* Taking away keeps every order.                                          *)
LEMMA FadeOrder == ASSUME IInv, Orders, Fade PROVE Orders'
<1>1. /\ OnDisk' \subseteq OnDisk /\ DOMAIN spool' \subseteq DOMAIN spool /\ ChunksOrder'
  BY DiskLess DEF Fade, DeleteFile, Orders
<1>2. ToSet(<<>>) = {} /\ Rising(<<>>)
  BY QueueMembers DEF IInv, TypeOK, TaskTypeOK
<1>3. /\ Buffered' \subseteq Buffered /\ Waiting' \subseteq Waiting /\ ToSet(chan') \subseteq ToSet(chan)
  BY <1>2 DEF Fade, Buffered, InWrite, Waiting
<1>4. LayersOrder'
  <2>1. Layered(evicted, OnDisk, Buffered, Waiting, ToSet(chan), produced)
    BY DEF Orders, LayersOrder
  <2>2. Layered(evicted, OnDisk', Buffered', Waiting', ToSet(chan'), produced)
    BY <1>1, <1>3, <2>1, LayersShrink
  <2> QED
    BY <2>2 DEF Fade, LayersOrder
<1>5. QueuesOrder'
  BY <1>2 DEF Fade, Orders, QueuesOrder
<1>6. TargetOrder'
  BY <1>1 DEF Fade, Orders, TargetOrder
<1> QED
  BY <1>1, <1>4, <1>5, <1>6 DEF Orders

(* A source produces the newest entry.                                     *)
LEMMA ProduceOrder == ASSUME IInv, Orders, Produce PROVE Orders'
<1>1. /\ UNCHANGED <<evicted, spool, flushing, memory, todo, hand, stage, target>>
      /\ produced' = produced + 1 /\ chan' = Append(chan, produced + 1)
      /\ produced < MaxEntries
  BY DEF Produce, bufVars, diskVars, writeVars, ingestVars
<1>2. TypeOK /\ chan \in Seq(Entries)
  BY DEF IInv, TypeOK, TaskTypeOK
<1>3. produced \in Nat /\ produced + 1 \in Entries
  BY <1>1, <1>2, LayerTypes, PipelineAssumption DEF Entries
<1>4. Layered(evicted, OnDisk, Buffered, Waiting, ToSet(chan), produced)
  BY DEF Orders, LayersOrder
<1>5. evicted \cup OnDisk \cup Buffered \cup Waiting \cup ToSet(chan) \subseteq Nat
  BY <1>2, LayerTypes
<1>6. Layered(evicted, OnDisk, Buffered, Waiting, ToSet(chan) \cup {produced + 1}, produced + 1)
  BY <1>3, <1>4, <1>5, LayersProduce
<1>7. /\ OnDisk' = OnDisk /\ Buffered' = Buffered /\ Waiting' = Waiting
  BY <1>1 DEF OnDisk, Buffered, InWrite, Waiting
<1>8. Below(ToSet(chan), {produced + 1})
  <2>1. \A x \in ToSet(chan) : x \in Nat /\ x <= produced
    BY <1>4, <1>5 DEF Layered
  <2> QED
    BY <1>3, <2>1 DEF Below
<1>9. ToSet(chan') = ToSet(chan) \cup {produced + 1} /\ (Rising(chan) => Rising(chan'))
  BY <1>1, <1>2, <1>3, <1>8, OneMore
<1>10. LayersOrder'
  BY <1>1, <1>6, <1>7, <1>9 DEF LayersOrder
<1>11. ChunksOrder' /\ QueuesOrder' /\ TargetOrder'
  BY <1>1, <1>9 DEF Orders, ChunksOrder, QueuesOrder, TargetOrder
<1> QED
  BY <1>10, <1>11 DEF Orders

(* The ingestion task takes the oldest entry of the channel.               *)
LEMMA ReceiveOrder == ASSUME IInv, Orders, IngestRecv PROVE Orders'
<1>1. /\ UNCHANGED <<evicted, spool, flushing, memory, todo, stage, target, produced>>
      /\ hand' = Head(chan) /\ chan' = Tail(chan) /\ chan # <<>>
  BY DEF IngestRecv, bufVars, diskVars, writeVars
<1>2. chan \in Seq(Entries)
  BY DEF IInv, TypeOK, TaskTypeOK
<1>3. /\ Head(chan) \in ToSet(chan) /\ ToSet(chan') \subseteq ToSet(chan)
      /\ Below({Head(chan)}, ToSet(chan')) /\ Rising(chan')
  BY <1>1, <1>2, HeadRest DEF Orders, QueuesOrder
<1>4. Layered(evicted, OnDisk, Buffered, Waiting, ToSet(chan), produced)
  BY DEF Orders, LayersOrder
<1>5. /\ OnDisk' = OnDisk /\ Buffered' = Buffered /\ Waiting' \subseteq Waiting \cup {Head(chan)}
  BY <1>1 DEF OnDisk, Buffered, InWrite, Waiting
<1>6. Layered(evicted, OnDisk, Buffered, Waiting', ToSet(chan'), produced)
  BY <1>3, <1>4, <1>5, LayersReceive
<1>7. LayersOrder'
  BY <1>1, <1>5, <1>6 DEF LayersOrder
<1>8. ChunksOrder' /\ QueuesOrder' /\ TargetOrder'
  BY <1>1, <1>3 DEF Orders, ChunksOrder, QueuesOrder, TargetOrder
<1> QED
  BY <1>7, <1>8 DEF Orders

(* It goes on to push it ...                                               *)
LEMMA LockOrder == ASSUME IInv, Orders, IngestLock PROVE Orders'
<1>1. /\ UNCHANGED <<evicted, spool, flushing, memory, stage, target, produced, chan>>
      /\ hand' = 0 /\ todo' = <<hand>> /\ ipc = "lock"
  BY DEF IngestLock, diskVars, writeVars
<1>2. hand \in Entries /\ hand # 0
  BY <1>1 DEF IInv, TaskState, Entries
<1>3. ToSet(<<hand>>) = {hand}
  BY DEF ToSet
<1>4. OnDisk' = OnDisk /\ Buffered' = Buffered /\ Waiting' \subseteq Waiting
  BY <1>1, <1>2, <1>3 DEF OnDisk, Buffered, InWrite, Waiting
<1>5. Layered(evicted, OnDisk, Buffered, Waiting, ToSet(chan), produced)
  BY DEF Orders, LayersOrder
<1>6. Layered(evicted, OnDisk, Buffered, Waiting', ToSet(chan), produced)
  BY <1>4, <1>5, LayersShrink
<1>7. LayersOrder'
  BY <1>1, <1>4, <1>6 DEF LayersOrder
<1>8. ChunksOrder' /\ QueuesOrder' /\ TargetOrder'
  BY <1>1 DEF Orders, ChunksOrder, QueuesOrder, TargetOrder
<1> QED
  BY <1>7, <1>8 DEF Orders

(* ... into the memory buffer, which may have to be drained first.         *)
LEMMA PushOrder == ASSUME IInv, Orders, Undisturbed, IngestPush PROVE Orders'
<1>1. memory \in Seq(Entries) /\ flushing \in Seq(Entries) /\ todo \in Seq(Entries)
  BY DEF IInv, TypeOK, BufferTypeOK
<1>2. ToSet(<<>>) = {} /\ Rising(<<>>)
  BY <1>1, QueueMembers
<1>3. Layered(evicted, OnDisk, Buffered, Waiting, ToSet(chan), produced)
  BY DEF Orders, LayersOrder
<1>4. CASE PushToMemory("ingest")
  <2>1. /\ UNCHANGED <<evicted, spool, flushing, stage, target, produced, chan, hand>>
        /\ memory' = Append(memory, Head(todo)) /\ todo' = Tail(todo) /\ todo # <<>>
    BY <1>4 DEF PushToMemory, IngestPush, diskVars, writeVars, ingestVars
  <2>2. Head(todo) \in ToSet(todo) /\ Head(todo) \in Entries /\ todo' = <<>>
    BY <1>1, <2>1, HeadRest DEF Undisturbed
  <2>3. hand = 0
    BY <2>1 DEF Undisturbed
  <2>4. ToSet(memory') = ToSet(memory) \cup {Head(todo)}
        /\ (Rising(memory) /\ Below(ToSet(memory), {Head(todo)}) => Rising(memory'))
    BY <1>1, <2>1, <2>2, OneMore
  <2>5. Below(ToSet(memory), {Head(todo)})
    BY <1>3, <2>2 DEF Layered, Below, Buffered, Waiting
  <2>6. OnDisk' = OnDisk /\ Buffered' \subseteq Buffered \cup Waiting /\ Waiting' = {}
    BY <1>2, <2>1, <2>2, <2>3, <2>4 DEF OnDisk, Buffered, InWrite, Waiting
  <2>7. Layered(evicted, OnDisk, Buffered', {}, ToSet(chan), produced)
    BY <1>3, <2>6, LayersPush
  <2>8. LayersOrder'
    BY <2>1, <2>6, <2>7 DEF LayersOrder
  <2>9. ChunksOrder' /\ QueuesOrder' /\ TargetOrder'
    BY <2>1, <2>4, <2>5 DEF Orders, ChunksOrder, QueuesOrder, TargetOrder
  <2> QED
    BY <2>8, <2>9 DEF Orders
<1>5. CASE FlushForPush("ingest")
  <2>1. /\ UNCHANGED <<evicted, spool, target, produced, chan, hand, todo>>
        /\ memory' = <<>> /\ flushing' = memory /\ stage' = "check" /\ stage = "none"
    BY <1>5 DEF FlushForPush, BeginFlush, IngestPush, diskVars, ingestVars
  <2>2. OnDisk' = OnDisk /\ Buffered' \subseteq Buffered /\ Waiting' = Waiting
    BY <1>2, <2>1 DEF OnDisk, Buffered, InWrite, Waiting
  <2>3. Layered(evicted, OnDisk, Buffered', Waiting, ToSet(chan), produced)
    BY <1>3, <2>2, LayersShrink
  <2>4. LayersOrder'
    BY <2>1, <2>2, <2>3 DEF LayersOrder
  <2>5. ChunksOrder' /\ QueuesOrder' /\ TargetOrder'
    BY <1>2, <2>1 DEF Orders, ChunksOrder, QueuesOrder, TargetOrder
  <2> QED
    BY <2>4, <2>5 DEF Orders
<1> QED
  BY <1>4, <1>5 DEF IngestPush

(* The victim is the chunk with the smallest number: the oldest.           *)
LEMMA EvictOrder ==
    ASSUME IInv, Orders, EvictRemove, UNCHANGED <<hand, chan, produced>> PROVE Orders'
<1>1. /\ UNCHANGED <<memory, todo, flushing, target>>
      /\ stage = "remove" /\ stage' = "check" /\ target \in DOMAIN spool
      /\ spool' = Without(spool, target) /\ evicted' = evicted \cup ToSet(spool[target])
  BY DEF EvictRemove
<1>2. DOMAIN spool \subseteq Nat
  BY DEF IInv, TypeOK, FilesTypeOK
<1>3. /\ DOMAIN spool' = DOMAIN spool \ {target} /\ \A m \in DOMAIN spool' : spool'[m] = spool[m]
  BY <1>1 DEF Without
<1>4. OnDisk' \subseteq OnDisk /\ ChunksOrder'
  BY <1>1, DiskLess DEF Orders
<1>5. ToSet(spool[target]) \subseteq OnDisk
  BY <1>1 DEF OnDisk
<1>6. Below(ToSet(spool[target]), OnDisk')
  <2>1. ASSUME NEW y \in OnDisk' PROVE \A x \in ToSet(spool[target]) : x < y
    <3>1. PICK m \in DOMAIN spool' : y \in ToSet(spool'[m])
      BY DEF OnDisk
    <3>2. m \in DOMAIN spool /\ m # target /\ y \in ToSet(spool[m])
      BY <1>3, <3>1
    <3>3. target <= m
      BY <1>1, <3>2 DEF Orders, TargetOrder
    <3>4. target < m
      BY <1>1, <1>2, <3>2, <3>3
    <3>5. Below(ToSet(spool[target]), ToSet(spool[m]))
      BY <1>1, <3>2, <3>4, Zenon DEF Orders, ChunksOrder
    <3> QED
      BY <3>2, <3>5, Zenon DEF Below
  <2> QED
    BY <2>1 DEF Below
<1>7. Layered(evicted, OnDisk, Buffered, Waiting, ToSet(chan), produced)
  BY DEF Orders, LayersOrder
<1>8. Layered(evicted \cup ToSet(spool[target]), OnDisk', Buffered, Waiting, ToSet(chan), produced)
  BY <1>4, <1>5, <1>6, <1>7, LayersEvict
<1>9. LayersOrder'
  <2>1. Buffered' = Buffered /\ Waiting' = Waiting
    BY <1>1 DEF Buffered, InWrite, Waiting
  <2> QED
    BY <1>1, <1>8, <2>1 DEF LayersOrder
<1>10. QueuesOrder' /\ TargetOrder'
  BY <1>1 DEF Orders, QueuesOrder, TargetOrder
<1> QED
  BY <1>4, <1>9, <1>10 DEF Orders

(* The new chunk has the largest number, and what comes first in the       *)
(* flush: newer than the disk, older than the rest.                        *)
LEMMA StoreOrder ==
    ASSUME IInv, SInv, Orders, RenameChunk, UNCHANGED <<hand, chan, produced>> PROVE Orders'
<1> DEFINE c == FirstChunk(flushing)
<1>1. /\ UNCHANGED <<memory, todo, target, evicted>>
      /\ stage = "rename" /\ stage' \in {"none", "check"}
      /\ flushing' = AfterChunk(flushing)
      /\ spool' = With(spool, target, c)
  <2>1. tmp[target] = c
    BY DEF RenameChunk, SInv, RenameInv
  <2> QED
    BY <2>1 DEF RenameChunk
<1>2. flushing \in Seq(Entries) /\ Rising(flushing)
  BY DEF IInv, TypeOK, BufferTypeOK, Orders, QueuesOrder
<1>3. /\ ToSet(c) \subseteq InWrite /\ InWrite' \subseteq InWrite
      /\ Below(ToSet(c), InWrite') /\ Rising(flushing')
  BY <1>1, <1>2, ChunkOrder DEF InWrite
<1> HIDE DEF c
<1>4. memory = <<>> /\ ToSet(<<>>) = {}
  BY <1>1, QueueMembers DEF IInv, FlushState, TypeOK, BufferTypeOK
<1>5. Buffered' = InWrite' /\ Buffered = InWrite /\ Waiting' = Waiting
  BY <1>1, <1>4 DEF Buffered, Waiting
<1>6. target \notin DOMAIN spool /\ \A n \in DOMAIN spool : n < target
  BY <1>1 DEF SInv, RenameInv, Orders, TargetOrder
<1>7. /\ DOMAIN spool' = DOMAIN spool \cup {target} /\ spool'[target] = c
      /\ \A n \in DOMAIN spool : spool'[n] = spool[n]
  BY <1>1, <1>6 DEF With
<1>8. OnDisk' \subseteq OnDisk \cup ToSet(c)
  BY <1>7 DEF OnDisk
<1>9. Layered(evicted, OnDisk, InWrite, Waiting, ToSet(chan), produced)
  BY <1>5 DEF Orders, LayersOrder
<1>10. Layered(evicted, OnDisk', InWrite', Waiting, ToSet(chan), produced)
  BY <1>3, <1>8, <1>9, LayersStore
<1>11. LayersOrder'
  BY <1>1, <1>5, <1>10 DEF LayersOrder
<1>12. ChunksOrder'
  <2> SUFFICES ASSUME NEW m \in DOMAIN spool', NEW n \in DOMAIN spool', m < n
               PROVE  Below(ToSet(spool'[m]), ToSet(spool'[n]))
    BY DEF ChunksOrder
  <2>0. DOMAIN spool \subseteq Nat /\ target \in Nat
    BY DEF IInv, TypeOK, FilesTypeOK, BufferTypeOK
  <2>1. m \in DOMAIN spool
    <3>1. CASE m = target
      <4>1. n \in DOMAIN spool \/ n = target
        BY <1>7
      <4>2. n \in DOMAIN spool => n < target
        BY <1>6
      <4> QED
        BY <2>0, <3>1, <4>1, <4>2
    <3> QED
      BY <1>7, <3>1
  <2>2. CASE n \in DOMAIN spool
    <3>1. Below(ToSet(spool[m]), ToSet(spool[n]))
      BY <2>1, <2>2, Zenon DEF Orders, ChunksOrder
    <3> QED
      BY <1>7, <2>1, <2>2, <3>1
  <2>3. CASE n = target
    <3>1. ToSet(spool[m]) \subseteq OnDisk
      BY <2>1 DEF OnDisk
    <3>2. Below(ToSet(spool[m]), ToSet(c))
      BY <1>3, <1>9, <3>1 DEF Layered, Below
    <3> QED
      BY <1>7, <2>1, <2>3, <3>2
  <2> QED
    BY <1>7, <2>2, <2>3
<1>13. QueuesOrder' /\ TargetOrder'
  BY <1>1, <1>3 DEF Orders, QueuesOrder, TargetOrder
<1> QED
  BY <1>11, <1>12, <1>13 DEF Orders

(* The steps of a flush.                                                   *)
LEMMA WriteOrder == ASSUME IInv, SInv, Orders, Undisturbed, Write PROVE Orders'
<1>1. UNCHANGED <<hand, chan, produced>>
  BY WriteFootprint DEF ingestVars
<1>2. FilesTypeOK /\ ChunksBounded
  BY DEF IInv, TypeOK
<1>3. ASSUME UNCHANGED <<spool, flushing, memory, todo, evicted>>, TargetOrder' PROVE Orders'
  <2>1. OnDisk' = OnDisk /\ Buffered' = Buffered /\ Waiting' = Waiting
    BY <1>1, <1>3 DEF OnDisk, Buffered, InWrite, Waiting
  <2>2. LayersOrder' /\ ChunksOrder' /\ QueuesOrder'
    BY <1>1, <1>3, <2>1 DEF Orders, LayersOrder, ChunksOrder, QueuesOrder
  <2> QED
    BY <1>3, <2>2 DEF Orders
<1>4. CASE EvictPick
  <2>1. TargetOrder'
    BY <1>2, <1>4, OldestInSpool DEF EvictPick, diskVars, TargetOrder
  <2> QED
    BY <1>3, <1>4, <2>1 DEF EvictPick, diskVars
<1>5. CASE WriteTmp
  <2>1. TargetOrder'
    BY <1>2, <1>5, NextNumber DEF WriteTmp, TargetOrder
  <2> QED
    BY <1>3, <1>5, <2>1 DEF WriteTmp
<1>6. CASE AbortFlush /\ stage' = "none" /\ UNCHANGED <<spool, tmp>>
  <2>1. todo # <<>> => Tail(todo) = <<>>
    BY HeadRest DEF Undisturbed, IInv, TypeOK, BufferTypeOK
  <2>2. Fade
    BY <1>1, <1>6, <2>1 DEF AbortFlush, Fade
  <2> QED
    BY <2>2, FadeOrder
<1> QED
  BY <1>1, <1>4, <1>5, <1>6, EvictOrder, StoreOrder, WriteFootprint

(* Without a signal the tiers stay in order of age.                        *)
LEMMA StepAInv ==
    ASSUME IInv, SInv, AInv, [Next]_vars, signals = 0, signals' = 0 PROVE AInv'
<1>1. Orders /\ Undisturbed
  BY DEF AInv, Orders
<1>2. Orders'
  BY <1>1, AgeFootprint, FadeOrder, ProduceOrder, ReceiveOrder, LockOrder, PushOrder, WriteOrder
<1>3. Undisturbed'
  BY <1>1, UndisturbedStep
<1> QED
  BY <1>2, <1>3 DEF AInv, Orders

(* They are empty at the start.                                            *)
LEMMA InitAInv == ASSUME Init PROVE AInv
<1> USE DEF Init, InitBuffer
<1>1. ToSet(<<>>) = {} /\ Len(<<>>) = 0
  BY DEF ToSet
<1>2. OnDisk = {} /\ Buffered = {} /\ Waiting = {} /\ evicted = {} /\ ToSet(chan) = {}
  BY <1>1 DEF OnDisk, Buffered, InWrite, Waiting
<1>3. LayersOrder
  BY <1>2 DEF LayersOrder, Layered, Below
<1>4. ChunksOrder /\ QueuesOrder /\ TargetOrder /\ Undisturbed
  BY <1>1 DEF ChunksOrder, QueuesOrder, Rising, TargetOrder, Undisturbed
<1> QED
  BY <1>3, <1>4 DEF AInv

(* A signal is never taken back.                                           *)
LEMMA SignalsGrow == ASSUME IInv, [Next]_vars, signals' = 0 PROVE signals = 0
<1>1. signals \in Nat
  BY DEF IInv, TypeOK, ProcessTypeOK
<1>2. signals' = signals \/ signals' = signals + 1
  BY DEF Next, IngestTask, Tick, Shutdown, EventLoop, Environment, IngestRecv, IngestLock,
   IngestPush, PushToMemory, FlushForPush, BeginFlush, IngestRelease, IngestStop, TickStart,
   DrainMemory, NextDiskChunk, ListFault, ReadChunk, ReadFault, PublishEntry, FinishMemory,
   FinishDisk, Discard, PublishFailMemory, PublishFailDisk, Relock, Repush, Backoff, Write,
   DeletePartial, CancelTick, ShutdownFlush, ShutdownNothing, ShutdownFlushed, Exit, Vanish,
   FreshBuffer, Connect, Disconnect, Send, LoopStop, Produce, Signal, Crash, Restart, EndTick,
   vars, bufVars, diskVars, writeVars, ingestVars, tickVars, mqttVars, procVars
<1> QED
  BY <1>1, <1>2

(* As long as the daemon is not asked to stop, the tiers are ordered by    *)
(* age: whatever crashes, restarts, evictions and failed calls there are,  *)
(* "newest first" and "drop the oldest" mean what they say.                *)
THEOREM AgeOrdered == Spec => [](signals = 0 => AgeOrder)
<1> DEFINE Inv == signals = 0 => AInv
<1>1. Init => Inv
  BY InitAInv
<1>2. IInv /\ SInv /\ Inv /\ [Next]_vars => Inv'
  <2> SUFFICES ASSUME IInv, SInv, Inv, [Next]_vars, signals' = 0 PROVE AInv'
    OBVIOUS
  <2>1. signals = 0
    BY SignalsGrow
  <2> QED
    BY <2>1, StepAInv
<1>3. AInv => AgeOrder
  BY DEF AInv, LayersOrder, Layered, Below, Buffered, ChunksOrder, AgeOrder
<1>4. Inv => (signals = 0 => AgeOrder)
  BY <1>3
<1> HIDE DEF Inv
<1> QED
  BY <1>1, <1>2, <1>4, Invariance, SpoolInvariance, PTL DEF Spec
=============================================================================
