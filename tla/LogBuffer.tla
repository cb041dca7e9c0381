----------------------------- MODULE LogBuffer -----------------------------
(***************************************************************************)
(* The two-tier buffer of spotflowd: a memory ring buffer in front of a    *)
(* directory of numbered chunk files (src/src/buffer.rs).  The module has  *)
(* no specification of its own: LogPipeline composes these operations with *)
(* the tasks that call them.                                               *)
(*                                                                         *)
(* All operations that touch the memory buffer run under the tokio mutex   *)
(* modelled by lock.  File-system steps of a flush are separate actions,   *)
(* because the publisher reads and deletes chunk files WITHOUT the lock    *)
(* and because the daemon may die between any two of them.                 *)
(*                                                                         *)
(* An entry is its position in the order the sources produced it, so that  *)
(* "newer" is ">"; every entry counts one byte of spool.                   *)
(***************************************************************************)
EXTENDS Naturals, Sequences, FiniteSets, FiniteSetsExt, SequencesExt

CONSTANTS
    MemoryMax,   (* cfg.memory_max_entries                                 *)
    ChunkMax,    (* cfg.disk_chunk_max_entries                             *)
    SpoolMax,    (* cfg.disk_max_size_mb, in entries                       *)
    OtherBytes,  (* other files of the spool directory: the sequence       *)
                 (* numbers of the metrics, the crash dump state           *)
    MaxFaults    (* bound: file-system calls that fail in one behaviour    *)

(* What Config::validate rejects, and nothing more.                        *)
ASSUME ConfigAssumption ==
    /\ MemoryMax \in Nat \ {0}
    /\ ChunkMax \in Nat \ {0}
    /\ SpoolMax \in Nat \ {0}
    /\ OtherBytes \in Nat
    /\ MaxFaults \in Nat

VARIABLES
    memory,         (* the ring buffer                                     *)
    mayHaveChunks,  (* may_have_chunks                                     *)
    spool,          (* chunk number -> the entries of NNNNNNNNNN.cbor      *)
    tmp,            (* chunk number -> the entries of NNNNNNNNNN.cbor.tmp  *)
    uncounted,      (* history: chunks written since the spool was counted *)
    lock,           (* the task that holds the mutex, or "free"            *)
    todo,           (* entries the holder has yet to push                  *)
    flushing,       (* drained entries write_chunk has yet to write        *)
    stage,          (* where write_chunk is: none, check, remove, rename   *)
    target,         (* the chunk file that stage is about                  *)
    faults,         (* file-system calls that failed so far                *)
    evicted,        (* history: entries of chunks dropped as the oldest    *)
    dropped         (* history: entries given up after a file-system error *)

diskVars  == <<spool, tmp, uncounted>>
writeVars == <<flushing, stage, target>>
bufVars   == <<memory, mayHaveChunks, diskVars, lock, todo, writeVars, faults,
               evicted, dropped>>

-----------------------------------------------------------------------------
(* The spool directory.                                                    *)

With(files, n, chunk) == [m \in DOMAIN files \cup {n} |->
                            IF m = n THEN chunk ELSE files[m]]
Without(files, n)     == [m \in DOMAIN files \ {n} |-> files[m]]

Slots(files) == UNION {{n} \X DOMAIN files[n] : n \in DOMAIN files}

(* total_spool_bytes counts every file of the directory, orphaned .tmp     *)
(* files and the state files of other components included.                 *)
TotalSpoolBytes == OtherBytes + Cardinality(Slots(spool)) + Cardinality(Slots(tmp))

(* A fault its unit test guards against: numbering by counting.            *)
CountedNumber(files) == Cardinality(DOMAIN files) + 1

(* The number the next chunk gets: one more than the largest present.      *)
NextChunkNumber(files) == Max(DOMAIN files \cup {0}) + 1

NewestChunk(files) == Max(DOMAIN files)

(* A fault: the listing sorted the wrong way round.                        *)
LastListed(files) == Max(DOMAIN files)

OldestChunk(files) == Min(DOMAIN files)

FirstChunk(entries) == SubSeq(entries, 1, Min({ChunkMax, Len(entries)}))

(* A fault: the next chunk starts one entry too late.                      *)
AfterChunkPlusOne(entries) ==
    SubSeq(entries, Min({ChunkMax, Len(entries)}) + 2, Len(entries))

AfterChunk(entries) == SubSeq(entries, Min({ChunkMax, Len(entries)}) + 1, Len(entries))

(* Sets of entries, for the properties.                                    *)
OnDisk  == UNION {ToSet(spool[n]) : n \in DOMAIN spool}
InWrite == ToSet(flushing)

-----------------------------------------------------------------------------
(* Buffer::push, one entry of todo at a time, by the holder of the lock.   *)

(* A fault: the limit is compared off by one.                              *)
MemoryOverfull == Len(memory) > MemoryMax

MemoryFull == Len(memory) >= MemoryMax

PushToMemory(h) ==
    /\ lock = h
    /\ stage = "none"
    /\ todo # <<>>
    /\ ~MemoryFull
    /\ memory' = Append(memory, Head(todo))
    /\ todo' = Tail(todo)
    /\ UNCHANGED <<mayHaveChunks, diskVars, lock, writeVars, faults, evicted, dropped>>

(* flush_memory_to_disk drains the memory buffer before it writes.         *)
BeginFlush ==
    /\ stage = "none"
    /\ memory # <<>>
    /\ flushing' = memory
    /\ memory' = <<>>
    /\ stage' = "check"
    /\ UNCHANGED <<mayHaveChunks, diskVars, target, faults, evicted, dropped>>

FlushForPush(h) ==
    /\ lock = h
    /\ todo # <<>>
    /\ MemoryFull
    /\ BeginFlush
    /\ UNCHANGED <<lock, todo>>

-----------------------------------------------------------------------------
(* write_chunk, for each chunk of the drained entries.                     *)

(* A fault: room for the new chunk is granted on top of the limit.         *)
SpoolFullLate == TotalSpoolBytes > SpoolMax + ChunkMax

SpoolFull == TotalSpoolBytes > SpoolMax

(* drop_oldest_chunk lists the directory and picks its victim ...          *)
EvictPick ==
    /\ stage = "check"
    /\ SpoolFull
    /\ DOMAIN spool # {}
    /\ target' = OldestChunk(spool)
    /\ stage' = "remove"
    /\ UNCHANGED <<memory, mayHaveChunks, diskVars, lock, todo, flushing, faults,
                   evicted, dropped>>

(* ... and removes it.                                                     *)
EvictRemove ==
    /\ stage = "remove"
    /\ target \in DOMAIN spool
    /\ spool' = Without(spool, target)
    /\ evicted' = evicted \cup ToSet(spool[target])
    /\ stage' = "check"
    /\ UNCHANGED <<memory, mayHaveChunks, tmp, uncounted, lock, todo, flushing, target,
                   faults, dropped>>

(* The loop of write_chunk ends below the limit, or with nothing left to   *)
(* evict.  It also ends when total_spool_bytes cannot list the directory,  *)
(* or see the size of its files: what it cannot see counts as nothing.     *)
RoomFound ==
    \/ /\ ~SpoolFull \/ DOMAIN spool = {}
       /\ uncounted' = 0
       /\ UNCHANGED faults
    \/ /\ SpoolFull /\ DOMAIN spool # {}
       /\ faults < MaxFaults
       /\ faults' = faults + 1
       /\ uncounted' = uncounted + 1

(* The temporary file is written under the next number.                    *)
WriteTmp ==
    /\ stage = "check"
    /\ RoomFound
    /\ target' = NextChunkNumber(spool)
    /\ tmp' = With(tmp, NextChunkNumber(spool), FirstChunk(flushing))
    /\ stage' = "rename"
    /\ UNCHANGED <<memory, mayHaveChunks, spool, lock, todo, flushing, evicted, dropped>>

(* A fault: the new chunk is not announced to next_disk_chunk.             *)
RenameSilently ==
    /\ stage = "rename"
    /\ spool' = With(spool, target, tmp[target])
    /\ tmp' = Without(tmp, target)
    /\ flushing' = AfterChunk(flushing)
    /\ stage' = IF AfterChunk(flushing) = <<>> THEN "none" ELSE "check"
    /\ UNCHANGED <<memory, mayHaveChunks, uncounted, lock, todo, target, faults, evicted,
                   dropped>>

RenameChunk ==
    /\ stage = "rename"
    /\ spool' = With(spool, target, tmp[target])
    /\ tmp' = Without(tmp, target)
    /\ mayHaveChunks' = TRUE
    /\ flushing' = AfterChunk(flushing)
    /\ stage' = IF AfterChunk(flushing) = <<>> THEN "none" ELSE "check"
    /\ UNCHANGED <<memory, uncounted, lock, todo, target, faults, evicted, dropped>>

(* An error of write_chunk aborts the flush: what was drained and not yet  *)
(* renamed is gone, and so is the entry whose push ran the flush.          *)
AbortFlush ==
    /\ dropped' = dropped \cup InWrite
                          \cup (IF todo = <<>> THEN {} ELSE {Head(todo)})
    /\ flushing' = <<>>
    /\ todo' = IF todo = <<>> THEN <<>> ELSE Tail(todo)
    /\ stage' = "none"
    /\ UNCHANGED <<memory, mayHaveChunks, diskVars, lock, target, evicted>>

(* The victim has been deleted by the publisher since it was picked:       *)
(* remove_file fails and its error is passed on.                           *)
EvictGone ==
    /\ stage = "remove"
    /\ target \notin DOMAIN spool
    /\ AbortFlush
    /\ UNCHANGED faults

(* create_dir_all, read_dir, remove_file, write or rename fails; before    *)
(* the rename the temporary file stays behind.                             *)
WriteFault ==
    /\ stage # "none"
    /\ faults < MaxFaults
    /\ faults' = faults + 1
    /\ AbortFlush

FlushStep == \/ EvictPick \/ EvictRemove \/ EvictGone
             \/ WriteTmp \/ RenameChunk

-----------------------------------------------------------------------------
(* Chunk files as the publisher sees them.                                 *)

(* delete_chunk: by path, whatever file has that name by now.              *)
DeleteFile(n) == spool' = Without(spool, n)

(* The volatile part of the buffer as the process starts.                  *)
FreshBuffer ==
    /\ memory' = <<>>
    /\ lock' = "free"
    /\ todo' = <<>>
    /\ flushing' = <<>>
    /\ stage' = "none"
    /\ target' = 0

InitBuffer ==
    /\ memory = <<>>
    /\ mayHaveChunks = FALSE
    /\ spool = [n \in {} |-> <<>>]
    /\ tmp = [n \in {} |-> <<>>]
    /\ uncounted = 0
    /\ lock = "free"
    /\ todo = <<>>
    /\ flushing = <<>>
    /\ stage = "none"
    /\ target = 0
    /\ faults = 0
    /\ evicted = {}
    /\ dropped = {}
=============================================================================
