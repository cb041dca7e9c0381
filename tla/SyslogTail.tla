----------------------------- MODULE SyslogTail -----------------------------
(***************************************************************************)
(* The syslog source (src/src/sources/syslog.rs): a blocking thread that   *)
(* tails the file at a path, while a syslog daemon appends to the file it  *)
(* has open and a log rotation puts another file under the path.           *)
(*                                                                         *)
(* A file is its inode, a positive number never used twice; the path leads *)
(* to one of them or to Missing.  The content of a file is a sequence of   *)
(* pieces, each written at once: the whole of a line, or one of the two    *)
(* parts of it.  An entry is the sequence of the pieces it was made from,  *)
(* each named by its file and place.  One life of the daemon is modelled.  *)
(***************************************************************************)
EXTENDS Naturals, Sequences, FiniteSetsExt, SequencesExt

CONSTANTS
    MaxFiles,   (* bound: log files ever created                           *)
    MaxLines,   (* bound: lines written                                    *)
    MaxErrors   (* bound: failing opens, reads and stats                   *)

ASSUME SyslogAssumption == MaxFiles \in Nat \ {0} /\ {MaxLines, MaxErrors} \subseteq Nat

Files   == 1 .. MaxFiles
Missing == 0

VARIABLES
    content,   (* file -> its pieces                                       *)
    created,   (* the newest file                                          *)
    atPath,    (* the file the path leads to, or Missing                   *)
    writer,    (* the file the syslog daemon appends to                    *)
    lines,     (* lines begun so far                                       *)
    pc,        (* open, stat, read, check, reopen, stopped, failed         *)
    fd,        (* the file the reader has open                             *)
    pos,       (* pieces of it that are read                               *)
    line,      (* what read_line has gathered                              *)
    inode,     (* current_inode, Missing for None                          *)
    newInode,  (* new_inode, Missing for None                              *)
    errors,
    entries,   (* history: the entries sent to the channel                 *)
    before,    (* history: pieces that were there when the source started  *)
    garbled,   (* history: pieces lost to a failing read                   *)
    lost,      (* history: the line that a closed channel refused          *)
    opened     (* history: file -> how often the source has opened it      *)

fsVars   == <<content, created, atPath, writer, lines>>
tailVars == <<fd, pos, line, inode, newInode>>
histVars == <<entries, before, garbled, lost, opened>>
vars     == <<fsVars, pc, tailVars, errors, histVars>>

Pieces(f)   == {f} \X DOMAIN content[f]
AllPieces   == UNION {Pieces(f) : f \in Files}
PieceAt(p)  == content[p[1]][p[2]]
AtEnd       == pos = Len(content[fd])
NextPiece   == <<fd, pos + 1>>
Sent        == UNION {ToSet(e) : e \in entries}
LineDone    == line # <<>> /\ PieceAt(Last(line)).ends
Fails       == errors < MaxErrors /\ errors' = errors + 1

-----------------------------------------------------------------------------
(* The syslog daemon and the rotation.                                     *)

Unfinished(f) == content[f] # <<>> /\ ~Last(content[f]).ends

(* A line is begun, or begun and ended at once.                            *)
WriteLine(ends) ==
    /\ lines < MaxLines
    /\ ~Unfinished(writer)
    /\ lines' = lines + 1
    /\ content' = [content EXCEPT ![writer] = Append(@, [line |-> lines + 1, ends |-> ends])]
    /\ UNCHANGED <<created, atPath, writer, pc, tailVars, errors, histVars>>

WriteRest ==
    /\ Unfinished(writer)
    /\ content' = [content EXCEPT ![writer] =
                     Append(@, [line |-> Last(@).line, ends |-> TRUE])]
    /\ UNCHANGED <<created, atPath, writer, lines, pc, tailVars, errors, histVars>>

(* The file is renamed, another one is created, and then the syslog daemon *)
(* is told; until then it appends to the renamed file.                     *)
Rename ==
    /\ atPath # Missing
    /\ created < MaxFiles
    /\ atPath' = Missing
    /\ UNCHANGED <<content, created, writer, lines, pc, tailVars, errors, histVars>>

Create ==
    /\ atPath = Missing
    /\ created < MaxFiles
    /\ created' = created + 1
    /\ atPath' = created + 1
    /\ UNCHANGED <<content, writer, lines, pc, tailVars, errors, histVars>>

SwitchWriter ==
    /\ atPath \notin {Missing, writer}
    /\ ~Unfinished(writer)
    /\ writer' = atPath
    /\ UNCHANGED <<content, created, atPath, lines, pc, tailVars, errors, histVars>>

-----------------------------------------------------------------------------
(* Opening.                                                                *)

Opens(f, p) ==
    /\ fd' = f
    /\ pos' = p
    /\ opened' = [opened EXCEPT ![f] = @ + 1]

(* open_and_seek_end, the first step of run_blocking.                      *)
OpenAndSeekEnd ==
    /\ pc = "open"
    /\ atPath # Missing
    /\ Opens(atPath, Len(content[atPath]))
    /\ before' = AllPieces
    /\ pc' = "stat"
    /\ UNCHANGED <<fsVars, line, inode, newInode, errors, entries, garbled, lost>>

CannotOpen == \/ atPath = Missing /\ UNCHANGED errors
              \/ Fails

(* An error ends the source for as long as the daemon runs.                *)
OpenFails ==
    /\ pc = "open"
    /\ CannotOpen
    /\ pc' = "failed"
    /\ UNCHANGED <<fsVars, tailVars, histVars>>

(* inode_of: None when metadata fails, because nothing is there or not.    *)
InodeOf(i) == \/ i = atPath /\ UNCHANGED errors
              \/ i = Missing /\ Fails

FirstInode ==
    /\ pc = "stat"
    /\ \E i \in Files \cup {Missing} : InodeOf(i) /\ inode' = i
    /\ pc' = "read"
    /\ UNCHANGED <<fsVars, fd, pos, line, newInode, histVars>>

-----------------------------------------------------------------------------
(* The loop.                                                               *)

(* read_line goes on to the newline or the end of the file.                *)
ReadPiece ==
    /\ pc = "read"
    /\ ~AtEnd
    /\ ~LineDone
    /\ line' = Append(line, NextPiece)
    /\ pos' = pos + 1
    /\ UNCHANGED <<fsVars, pc, fd, inode, newInode, errors, histVars>>

(* The line gathered so far becomes an entry.                              *)
SendLine ==
    /\ pc = "read"
    /\ line # <<>>
    /\ entries' = entries \cup {line}
    /\ line' = <<>>
    /\ UNCHANGED <<fsVars, pc, fd, pos, inode, newInode, errors, before, garbled, lost, opened>>

(* A fault: at the end of the file an unfinished line is kept for later.   *)
SendFinished ==
    \/ LineDone /\ SendLine
    \/ /\ pc = "read"
       /\ AtEnd
       /\ line # <<>>
       /\ ~LineDone
       /\ pc' = "check"
       /\ UNCHANGED <<fsVars, tailVars, errors, histVars>>

(* Ok(n): read_line returns at a newline or at the end of the file, and    *)
(* what it has gathered is an entry.                                       *)
Send == (AtEnd \/ LineDone) /\ SendLine

(* The channel is closed, because the ingestion task has ended: the source *)
(* stops, and the line it has read is in no entry.                         *)
SendFails ==
    /\ pc = "read"
    /\ line # <<>>
    /\ AtEnd \/ LineDone
    /\ lost' = line
    /\ line' = <<>>
    /\ pc' = "stopped"
    /\ UNCHANGED <<fsVars, fd, pos, inode, newInode, errors, entries, before, garbled, opened>>

(* A fault: after the sleep the loop goes on reading.                      *)
ReadNothingAgain ==
    /\ pc = "read"
    /\ line = <<>>
    /\ AtEnd
    /\ UNCHANGED vars

(* Ok(0): the thread sleeps and then looks whether the file is rotated.    *)
ReadNothing ==
    /\ pc = "read"
    /\ line = <<>>
    /\ AtEnd
    /\ pc' = "check"
    /\ UNCHANGED <<fsVars, tailVars, errors, histVars>>

(* An error, of the file system or about bytes that are not UTF-8: what    *)
(* read_line has consumed is not seen again.                               *)
ReadFails ==
    /\ pc = "read"
    /\ Fails
    /\ \/ ~AtEnd /\ pos' = pos + 1 /\ garbled' = garbled \cup ToSet(line) \cup {NextPiece}
       \/ UNCHANGED pos /\ garbled' = garbled \cup ToSet(line)
    /\ line' = <<>>
    /\ UNCHANGED <<fsVars, pc, fd, inode, newInode, entries, before, lost, opened>>

CheckInode ==
    /\ pc = "check"
    /\ \E i \in Files \cup {Missing} : InodeOf(i) /\ newInode' = i
    /\ pc' = IF newInode' # inode THEN "reopen" ELSE "read"
    /\ UNCHANGED <<fsVars, fd, pos, line, inode, histVars>>

(* The file now at the path is opened at piece p, and current_inode is i.  *)
ReopenAt(p, i) ==
    /\ pc = "reopen"
    /\ atPath # Missing
    /\ Opens(atPath, p)
    /\ inode' = i
    /\ pc' = "read"
    /\ UNCHANGED <<fsVars, line, newInode, errors, entries, before, garbled, lost>>

(* A fault: current_inode is left alone.                                   *)
ReopenForgetting == ReopenAt(0, inode)

(* A fault: it seeks to the end as at the start.                           *)
ReopenAtEnd == atPath # Missing /\ ReopenAt(Len(content[atPath]), newInode)

(* A fault: the position in the old file is kept.                          *)
ReopenKeepingPos == ReopenAt(pos, newInode)

(* open_at_start opens what the path leads to by now; current_inode is the *)
(* inode it led to before.                                                 *)
Reopen == ReopenAt(0, newInode)

(* A fault: current_inode is set whether the file could be opened or not.  *)
ReopenFailsSettled ==
    /\ pc = "reopen"
    /\ CannotOpen
    /\ inode' = newInode
    /\ pc' = "read"
    /\ UNCHANGED <<fsVars, fd, pos, line, newInode, histVars>>

(* The old file stays open, and the next check will try again.             *)
ReopenFails ==
    /\ pc = "reopen"
    /\ CannotOpen
    /\ pc' = "read"
    /\ UNCHANGED <<fsVars, tailVars, histVars>>

(* At the head of the loop the shutdown flag is seen.                      *)
Stop ==
    /\ pc = "read"
    /\ line = <<>>
    /\ pc' = "stopped"
    /\ UNCHANGED <<fsVars, tailVars, errors, histVars>>

-----------------------------------------------------------------------------
Init ==
    /\ content = [f \in Files |-> <<>>]
    /\ created = 1 /\ atPath = 1 /\ writer = 1 /\ lines = 0
    /\ pc = "open" /\ fd = 1 /\ pos = 0 /\ line = <<>>
    /\ inode = Missing /\ newInode = Missing
    /\ errors = 0
    /\ entries = {} /\ before = {} /\ garbled = {} /\ lost = <<>>
    /\ opened = [f \in Files |-> 0]

TailStep == \/ OpenAndSeekEnd \/ OpenFails \/ FirstInode
         \/ ReadPiece \/ Send \/ ReadNothing \/ ReadFails
         \/ CheckInode \/ Reopen \/ ReopenFails

Environment == \/ \E ends \in BOOLEAN : WriteLine(ends)
               \/ WriteRest
               \/ Rename \/ Create \/ SwitchWriter

Next == TailStep \/ Environment \/ Stop \/ SendFails

Spec == Init /\ [][Next]_vars

(* The thread is scheduled, its channel is drained or closed, and a        *)
(* rotation that was begun ends with a file at the path.                   *)
FairSpec == Spec /\ WF_vars(TailStep) /\ WF_vars(Create)

-----------------------------------------------------------------------------
(* Properties.                                                             *)

(* Types; a reader that runs has a file and a place in it.                 *)
TypeOK ==
    /\ created \in Files /\ writer \in 1..created
    /\ atPath \in {Missing, created}
    /\ fd \in 1..created
    /\ pos \in 0..Len(content[fd])
    /\ inode \in Files \cup {Missing} /\ newInode \in Files \cup {Missing}
    /\ pc \in {"open", "stat", "read", "check", "reopen", "stopped", "failed"}
    /\ errors \in 0..MaxErrors
    /\ (Sent \cup garbled \cup ToSet(lost) \cup ToSet(line)) \subseteq AllPieces

(* Pieces that follow each other in one line of one file.                  *)
OneLine(e) ==
    \A i \in 1..(Len(e) - 1) :
       /\ e[i + 1] = <<e[i][1], e[i][2] + 1>>
       /\ PieceAt(e[i + 1]).line = PieceAt(e[i]).line

(* syslog.rs 44-65: an entry is part of one line of one file, without a    *)
(* gap: neither a line read in two parts nor a rotation in the middle of a *)
(* line makes an entry of pieces that do not belong together.              *)
OneLinePerEntry == \A e \in entries : OneLine(e)

Seen == Sent \cup garbled \cup before

(* What the closed channel has cost: part of one line, and the source does *)
(* not read on behind it.                                                  *)
OneLineLost == OneLine(lost) /\ (lost # <<>> => pc = "stopped")

(* syslog.rs 3-6, 61-75: in the file it reads the source leaves nothing    *)
(* out, from the start of a file that replaced another, from the end of    *)
(* the first: what it has passed is in an entry or in the line it gathers, *)
(* could not be decoded, or is the one line that it had in hand when it    *)
(* found the channel closed.                                               *)
NothingSkipped ==
    /\ pc \notin {"open", "failed"} =>
          {p \in Pieces(fd) : p[2] <= pos} \subseteq Seen \cup ToSet(line) \cup ToSet(lost)
    /\ OneLineLost

(* The source has opened a file more than once in all.                     *)
Reopened ==
    \E f, g \in Files : opened[f] > 0 /\ opened[g] > 0 /\ (f = g => opened[f] > 1)

(* syslog.rs 4-6, 49-56: a reader that has followed one rotation will see  *)
(* the next: when it reads another file than the path leads to, the inode  *)
(* it remembers differs from that of the path.  (The inode of the first    *)
(* file is read after it is opened, and a rotation in between stays        *)
(* unseen.)                                                                *)
RotationNoticed ==
    Reopened /\ atPath \notin {Missing, fd} => inode # atPath

(* syslog.rs 49-56: the inode is taken before the file is opened, so a     *)
(* rotation in between makes the reader open the same file again, but once *)
(* only; a failing stat costs two more.                                    *)
ReadAtMostTwice == \A f \in Files : opened[f] <= 2 + 2 * errors

(* The start of the source met a rotation between its open and its stat.   *)
Unaware == fd # atPath /\ inode = atPath

(* Again and again the source has made entries of everything in the file   *)
(* at the path, and as the writes are finite, of all of it for good; unless *)
(* it has stopped, failed to start, or started unaware of a rotation.      *)
CatchesUp ==
    []<>(\/ pc \in {"stopped", "failed"}
         \/ Unaware
         \/ atPath # Missing /\ Pieces(atPath) \subseteq Seen)
=============================================================================
