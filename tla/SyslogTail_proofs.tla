------------------------ MODULE SyslogTail_proofs ------------------------
(***************************************************************************)
(* The syslog source, for every number of files, lines and failing calls:  *)
(* types, entries of one line (OneLinePerEntry), no gap in the file being  *)
(* read (NothingSkipped), rotations that are seen (RotationNoticed), and   *)
(* how often a file is read (ReadAtMostTwice).                             *)
(***************************************************************************)
EXTENDS SyslogTail, SequenceTheorems, TLAPS

Piece  == [line : Nat, ends : BOOLEAN]
Places == Files \X (Nat \ {0})

(* The state of the file system and of the reader.                         *)
TypesInv ==
    /\ content \in [Files -> Seq(Piece)]
    /\ created \in Files /\ writer \in 1 .. created /\ lines \in Nat
    /\ atPath \in {Missing, created}
    /\ fd \in 1 .. created
    /\ pos \in 0 .. Len(content[fd])
    /\ inode \in 0 .. created /\ newInode \in 0 .. created
    /\ pc \in {"open", "stat", "read", "check", "reopen", "stopped", "failed"}
    /\ errors \in 0 .. MaxErrors
    /\ opened \in [Files -> Nat]

(* A piece that does not end its line is followed by the rest of it.       *)
LinesWhole(c) ==
    \A f \in Files : \A i \in 1 .. Len(c[f]) - 1 :
       c[f][i].ends \/ c[f][i + 1].line = c[f][i].line

(* A sequence of places that exist.                                        *)
Within(s) == s \in Seq(Places) /\ \A i \in 1 .. Len(s) : s[i][2] <= Len(content[s[i][1]])

(* What read_line has gathered is what the file has just before pos, and   *)
(* no line ends before its last piece.                                     *)
LineInv ==
    /\ Within(line)
    /\ Len(line) <= pos
    /\ \A i \in 1 .. Len(line) : line[i] = <<fd, pos - Len(line) + i>>
    /\ \A i \in 1 .. Len(line) - 1 : ~PieceAt(line[i]).ends
    /\ pc # "read" => line = <<>>

(* An entry, and what the channel refused, is part of one line.            *)
EntriesInv ==
    /\ \A e \in entries \cup {lost} : Within(e) /\ OneLine(e)
    /\ garbled \subseteq AllPieces

(* Before the second opening the reader has looked at one file only; after *)
(* it the remembered inode is never newer than the file that is open.      *)
InodeInv ==
    /\ pc = "open" => \A f \in Files : opened[f] = 0
    /\ pc = "stat" => ~Reopened
    /\ Reopened => inode <= fd

SInv == /\ TypesInv /\ LinesWhole(content) /\ LineInv /\ EntriesInv
        /\ NothingSkipped /\ InodeInv
-----------------------------------------------------------------------------
(* The appending steps.                                                    *)

(* File by file, d begins with what c has.                                 *)
Grows(c, d) ==
    /\ d \in [Files -> Seq(Piece)]
    /\ \A f \in Files : /\ Len(c[f]) <= Len(d[f])
                        /\ \A i \in 1 .. Len(c[f]) : d[f][i] = c[f][i]

(* A piece appended to a file, after a line that has ended or as the rest  *)
(* of one that has not, leaves what was there and keeps lines together.    *)
LEMMA AppendGrows ==
    ASSUME NEW c \in [Files -> Seq(Piece)], NEW w \in Files, NEW x \in Piece,
           LinesWhole(c),
           c[w] = <<>> \/ c[w][Len(c[w])].ends \/ x.line = c[w][Len(c[w])].line
    PROVE  LET d == [c EXCEPT ![w] = Append(@, x)]
           IN  Grows(c, d) /\ LinesWhole(d)
<1> DEFINE d == [c EXCEPT ![w] = Append(@, x)]
<1>1. /\ d \in [Files -> Seq(Piece)]
      /\ \A f \in Files : f # w => d[f] = c[f]
      /\ d[w] = Append(c[w], x)
  OBVIOUS
<1>2. /\ Len(d[w]) = Len(c[w]) + 1
      /\ \A i \in 1 .. Len(c[w]) : d[w][i] = c[w][i]
      /\ d[w][Len(c[w]) + 1] = x
      /\ c[w] \in Seq(Piece) /\ Len(c[w]) \in Nat
  BY <1>1
<1>3. \A f \in Files : Len(c[f]) \in Nat
  OBVIOUS
<1>4. Grows(c, d)
  <2>1. ASSUME NEW f \in Files
        PROVE  /\ Len(c[f]) <= Len(d[f])
               /\ \A i \in 1 .. Len(c[f]) : d[f][i] = c[f][i]
    <3>1. CASE f = w
      BY <1>2, <3>1
    <3>2. CASE f # w
      BY <1>1, <1>3, <3>2
    <3> QED
      BY <3>1, <3>2
  <2> QED
    BY <1>1, <2>1 DEF Grows
<1>5. LinesWhole(d)
  <2> SUFFICES ASSUME NEW f \in Files, NEW i \in 1 .. Len(d[f]) - 1
               PROVE  d[f][i].ends \/ d[f][i + 1].line = d[f][i].line
    BY DEF LinesWhole
  <2>1. CASE f # w
    BY <1>1, <2>1 DEF LinesWhole
  <2>2. CASE f = w /\ i < Len(c[w])
    <3>1. i \in 1 .. Len(c[w]) - 1 /\ i \in 1 .. Len(c[w]) /\ i + 1 \in 1 .. Len(c[w])
      BY <1>2, <2>2
    <3>2. c[w][i].ends \/ c[w][i + 1].line = c[w][i].line
      BY <3>1 DEF LinesWhole
    <3> QED
      BY <1>2, <2>2, <3>1, <3>2
  <2>3. CASE f = w /\ i >= Len(c[w])
    <3>1. i = Len(c[w]) /\ Len(c[w]) \in 1 .. Len(c[w]) /\ c[w] # <<>>
      BY <1>2, <2>3
    <3>2. d[w][i] = c[w][Len(c[w])] /\ d[w][i + 1] = x
      BY <1>2, <3>1
    <3> QED
      BY <2>3, <3>1, <3>2
  <2> QED
    BY <1>2, <2>1, <2>2, <2>3
<1> QED
  BY <1>4, <1>5
-----------------------------------------------------------------------------
(* What the invariants say of places.                                      *)

(* The pieces of a file are its places.                                    *)
PieceShape ==
    /\ \A f \in Files : content[f] \in Seq(Piece) /\ Len(content[f]) \in Nat
    /\ AllPieces = {p \in Places : p[2] <= Len(content[p[1]])}
    /\ \A f \in Files : Pieces(f) = {f} \X (1 .. Len(content[f]))
    /\ fd \in Files /\ writer \in Files /\ created \in Nat
    /\ \A i \in 0 .. created : i \in Files \cup {Missing}

LEMMA PieceFacts == TypesInv => PieceShape
<1> SUFFICES ASSUME TypesInv PROVE PieceShape
  OBVIOUS
<1>1. \A f \in Files : content[f] \in Seq(Piece) /\ Len(content[f]) \in Nat
  BY DEF TypesInv
<1>2. \A f \in Files : DOMAIN content[f] = 1 .. Len(content[f])
  BY <1>1
<1>3. \A f \in Files : Pieces(f) = {f} \X (1 .. Len(content[f]))
  BY <1>2 DEF Pieces
<1>4. /\ fd \in Files /\ writer \in Files /\ created \in Nat
      /\ \A i \in 0 .. created : i \in Files \cup {Missing}
  BY SyslogAssumption DEF TypesInv, Files, Missing
<1>5. AllPieces \subseteq {p \in Places : p[2] <= Len(content[p[1]])}
  <2> SUFFICES ASSUME NEW f \in Files, NEW p \in Pieces(f)
               PROVE  p \in Places /\ p[2] <= Len(content[p[1]])
    BY DEF AllPieces
  <2>1. p[1] = f /\ p[2] \in 1 .. Len(content[f]) /\ p = <<p[1], p[2]>>
    BY <1>3
  <2>2. p[2] \in Nat \ {0} /\ p[2] <= Len(content[f])
    BY <1>1, <2>1
  <2> QED
    BY <2>1, <2>2 DEF Places
<1>6. {p \in Places : p[2] <= Len(content[p[1]])} \subseteq AllPieces
  <2> SUFFICES ASSUME NEW p \in Places, p[2] <= Len(content[p[1]])
               PROVE  p \in AllPieces
    OBVIOUS
  <2>1. p[1] \in Files /\ p[2] \in Nat \ {0} /\ p = <<p[1], p[2]>>
    BY DEF Places
  <2>2. p[2] \in 1 .. Len(content[p[1]])
    BY <1>1, <2>1
  <2>3. p \in Pieces(p[1])
    BY <1>3, <2>1, <2>2
  <2> QED
    BY <2>1, <2>3 DEF AllPieces
<1> QED
  BY <1>1, <1>3, <1>4, <1>5, <1>6 DEF PieceShape

LEMMA PieceFactsNext == TypesInv' => PieceShape'
  BY PieceFacts, PTL

(* The places of a sequence that is within the files are pieces.           *)
LEMMA WithinPieces ==
    ASSUME TypesInv, NEW s, Within(s)
    PROVE  ToSet(s) \subseteq AllPieces
<1>1. s \in Seq(Places) /\ DOMAIN s = 1 .. Len(s)
  BY DEF Within
<1> SUFFICES ASSUME NEW i \in 1 .. Len(s)
             PROVE  s[i] \in AllPieces
  BY <1>1 DEF ToSet
<1>2. s[i] \in Places /\ s[i][2] <= Len(content[s[i][1]])
  BY <1>1 DEF Within
<1> QED
  BY <1>2, PieceFacts DEF PieceShape

(* Growing files keep what is said of places in them.                      *)
LEMMA GrowsKeeps ==
    ASSUME TypesInv, Grows(content, content'), NEW s, Within(s)
    PROVE  /\ Within(s)'
           /\ \A i \in 1 .. Len(s) : PieceAt(s[i])' = PieceAt(s[i])
<1>1. s \in Seq(Places)
  BY DEF Within
<1>2. ASSUME NEW i \in 1 .. Len(s)
      PROVE  /\ s[i][2] <= Len(content'[s[i][1]])
             /\ content'[s[i][1]][s[i][2]] = content[s[i][1]][s[i][2]]
  <2>1. s[i] \in Places /\ s[i][2] <= Len(content[s[i][1]])
    BY <1>1 DEF Within
  <2>2. s[i][1] \in Files /\ s[i][2] \in Nat \ {0}
    BY <2>1 DEF Places
  <2>3. Len(content[s[i][1]]) \in Nat /\ Len(content'[s[i][1]]) \in Nat
    BY <2>2, PieceFacts DEF Grows, PieceShape
  <2>4. s[i][2] \in 1 .. Len(content[s[i][1]])
    BY <2>1, <2>2, <2>3
  <2>5. Len(content[s[i][1]]) <= Len(content'[s[i][1]])
    BY <2>2 DEF Grows
  <2>6. content'[s[i][1]][s[i][2]] = content[s[i][1]][s[i][2]]
    BY <2>2, <2>4 DEF Grows
  <2> QED
    BY <2>1, <2>2, <2>3, <2>5, <2>6
<1> QED
  BY <1>1, <1>2 DEF Within, PieceAt
-----------------------------------------------------------------------------
(* The initial states.                                                     *)

LEMMA InitInv == Init => SInv
<1> SUFFICES ASSUME Init PROVE SInv
  OBVIOUS
<1> USE DEF Init
<1>1. 1 \in Files
  BY SyslogAssumption DEF Files
<1>2. TypesInv
  <2>1. <<>> \in Seq(Piece) /\ Len(<<>>) = 0
    OBVIOUS
  <2>2. content \in [Files -> Seq(Piece)] /\ content[1] = <<>>
    BY <1>1, <2>1
  <2>3. errors \in 0 .. MaxErrors
    BY SyslogAssumption
  <2> QED
    BY <1>1, <2>1, <2>2, <2>3 DEF TypesInv, Missing
<1>3. LinesWhole(content)
  BY DEF LinesWhole
<1>4. LineInv
  BY DEF LineInv, Within
<1>5. EntriesInv /\ NothingSkipped /\ InodeInv
  BY DEF EntriesInv, NothingSkipped, OneLineLost, OneLine, Within, InodeInv, Reopened
<1> QED
  BY <1>2, <1>3, <1>4, <1>5 DEF SInv

-----------------------------------------------------------------------------
(* The syslog daemon and the rotation.                                     *)

(* Files that grow and a path that leads elsewhere leave the reader's part *)
(* of the invariant alone.                                                 *)
LEMMA EnvironmentKeeps ==
    ASSUME SInv, TypesInv', Grows(content, content'), LinesWhole(content'),
           UNCHANGED <<pc, tailVars, histVars>>
    PROVE  SInv'
<1> USE DEF tailVars, histVars
<1>1. TypesInv
  BY DEF SInv
<1>2. LineInv'
  <2>1. LineInv /\ Within(line)
    BY DEF SInv, LineInv
  <2>2. Within(line)' /\ \A i \in 1 .. Len(line) : PieceAt(line[i])' = PieceAt(line[i])
    <3>1. /\ line \in Seq(Places)
          /\ \A i \in 1 .. Len(line) : line[i][2] <= Len(content'[line[i][1]])
      BY <1>1, <2>1, GrowsKeeps DEF Within
    <3> QED
      BY <1>1, <2>1, <3>1, GrowsKeeps DEF Within, PieceAt
  <2>3. Len(line) \in Nat
    BY <2>1 DEF Within
  <2>4. \A i \in 1 .. Len(line) - 1 : PieceAt(line[i])' = PieceAt(line[i])
    BY <2>2, <2>3
  <2> QED
    BY <2>1, <2>2, <2>4 DEF LineInv, PieceAt
<1>3. EntriesInv'
  <2>1. \A e \in entries \cup {lost} : (Within(e) /\ OneLine(e))'
    <3> SUFFICES ASSUME NEW e \in entries \cup {lost}
                 PROVE  (Within(e) /\ OneLine(e))'
      OBVIOUS
    <3>1. Within(e) /\ OneLine(e)
      BY DEF SInv, EntriesInv
    <3>2. Within(e)' /\ \A i \in 1 .. Len(e) : PieceAt(e[i])' = PieceAt(e[i])
      BY <1>1, <3>1, GrowsKeeps
    <3>3. Len(e) \in Nat
      BY <3>1 DEF Within
    <3>4. \A i \in 1 .. Len(e) - 1 : i \in 1 .. Len(e) /\ i + 1 \in 1 .. Len(e)
      BY <3>3
    <3>5. OneLine(e)'
      BY <3>1, <3>2, <3>4 DEF OneLine
    <3> QED
      BY <3>2, <3>5
  <2>2. AllPieces \subseteq AllPieces'
    <3> SUFFICES ASSUME NEW p \in Places, p[2] <= Len(content[p[1]])
                 PROVE  p[2] <= Len(content'[p[1]])
      BY <1>1, PieceFacts, PieceFactsNext DEF PieceShape
    <3>1. p[1] \in Files /\ p[2] \in Nat
      BY DEF Places
    <3>2. Len(content[p[1]]) \in Nat /\ Len(content'[p[1]]) \in Nat
      BY <1>1, <3>1, PieceFacts DEF Grows, PieceShape
    <3> QED
      BY <3>1, <3>2 DEF Grows
  <2>3. garbled \subseteq AllPieces
    BY DEF SInv, EntriesInv
  <2> QED
    BY <2>1, <2>2, <2>3 DEF EntriesInv
<1>4. NothingSkipped'
  <2>0. OneLineLost'
    BY <1>3 DEF SInv, NothingSkipped, OneLineLost, EntriesInv
  <2> SUFFICES ASSUME pc \notin {"open", "failed"},
                      NEW p, p \in Pieces(fd)', p[2] <= pos
               PROVE  p \in Seen \cup ToSet(line) \cup ToSet(lost)
    BY <2>0 DEF NothingSkipped, Seen, Sent
  <2>1. fd \in Files /\ fd' = fd /\ pos \in 0 .. Len(content[fd])
    BY <1>1, PieceFacts DEF TypesInv, PieceShape
  <2>2. Len(content[fd]) \in Nat /\ Len(content'[fd]) \in Nat
    BY <1>1, <2>1, PieceFacts DEF PieceShape, Grows
  <2>3. p \in {fd} \X (1 .. Len(content'[fd]))
    BY <2>1, PieceFactsNext DEF PieceShape
  <2>4. Len(content[fd]) \in Nat /\ p[2] \in 1 .. Len(content[fd])
    BY <2>1, <2>2, <2>3
  <2>5. p \in Pieces(fd)
    BY <1>1, <2>1, <2>3, <2>4, PieceFacts DEF PieceShape
  <2> QED
    BY <2>5 DEF SInv, NothingSkipped
<1>5. InodeInv'
  BY DEF SInv, InodeInv, Reopened
<1> QED
  BY <1>2, <1>3, <1>4, <1>5 DEF SInv

LEMMA EnvironmentStep ==
    ASSUME SInv, Environment
    PROVE  SInv'
<1> USE DEF fsVars
<1>1. TypesInv /\ LinesWhole(content)
  BY DEF SInv
<1>2. PieceShape
  BY <1>1, PieceFacts
<1>3. Grows(content, content)
  BY <1>1 DEF Grows, TypesInv
<1>4. ASSUME NEW x \in Piece,
             content[writer] = <<>> \/ Last(content[writer]).ends
               \/ x.line = Last(content[writer]).line,
             content' = [content EXCEPT ![writer] = Append(@, x)],
             lines' \in Nat,
             UNCHANGED <<created, atPath, writer, pc, tailVars, errors, histVars>>
      PROVE  SInv'
  <2>1. Grows(content, content') /\ LinesWhole(content')
    BY <1>1, <1>2, <1>4, AppendGrows DEF TypesInv, PieceShape, Last
  <2>2. TypesInv'
    <3>1. fd \in Files /\ Len(content[fd]) \in Nat /\ Len(content'[fd]) \in Nat
      BY <1>2, <2>1 DEF PieceShape, Grows
    <3>2. pos \in 0 .. Len(content'[fd])
      BY <1>1, <2>1, <3>1 DEF TypesInv, Grows
    <3> QED
      BY <1>1, <1>4, <2>1, <3>2 DEF TypesInv, Grows, tailVars, histVars
  <2> QED
    BY <1>4, <2>1, <2>2, EnvironmentKeeps
<1>5. ASSUME NEW ends \in BOOLEAN, WriteLine(ends)
      PROVE  SInv'
  <2>1. [line |-> lines + 1, ends |-> ends] \in Piece /\ lines' \in Nat
    BY <1>1, <1>5 DEF WriteLine, Piece, TypesInv
  <2>2. content[writer] = <<>> \/ Last(content[writer]).ends
    BY <1>5 DEF WriteLine, Unfinished
  <2> QED
    BY <1>4, <1>5, <2>1, <2>2 DEF WriteLine
<1>6. CASE WriteRest
  <2>1. content[writer] \in Seq(Piece) /\ content[writer] # <<>>
    BY <1>2, <1>6 DEF PieceShape, WriteRest, Unfinished
  <2>2. Last(content[writer]) \in Piece
    BY <2>1 DEF Last
  <2> DEFINE x == [line |-> Last(content[writer]).line, ends |-> TRUE]
  <2>3. x \in Piece /\ x.line = Last(content[writer]).line
    BY <2>2 DEF Piece
  <2>4. content' = [content EXCEPT ![writer] = Append(@, x)]
    BY <1>2, <1>6 DEF WriteRest, PieceShape
  <2>5. /\ lines' \in Nat
        /\ UNCHANGED <<created, atPath, writer, pc, tailVars, errors, histVars>>
    BY <1>1, <1>6 DEF WriteRest, TypesInv
  <2> HIDE DEF x
  <2> QED
    BY <1>4, <2>3, <2>4, <2>5
<1>7. ASSUME Rename \/ Create \/ SwitchWriter
      PROVE  SInv'
  <2>1. UNCHANGED <<content, pc, tailVars, errors, histVars>>
    BY <1>7 DEF Rename, Create, SwitchWriter
  <2>2. created \in Nat /\ created >= 1 /\ created <= created' /\ created' \in Files
    <3>1. MaxFiles \in Nat /\ created \in 1 .. MaxFiles
      BY <1>1, SyslogAssumption DEF TypesInv, Files
    <3>2. created' = created \/ (created' = created + 1 /\ created < MaxFiles)
      BY <1>7 DEF Rename, Create, SwitchWriter
    <3> QED
      BY <3>1, <3>2 DEF Files
  <2>3. writer' \in 1 .. created' /\ atPath' \in {Missing, created'} /\ lines' = lines
    <3>1. created' \in Nat /\ created \in 1 .. created
      BY <1>1, <2>2, SyslogAssumption DEF Files
    <3>2. CASE Rename \/ Create
      BY <1>1, <2>2, <3>1, <3>2 DEF Rename, Create, TypesInv
    <3>3. CASE SwitchWriter
      BY <1>1, <3>1, <3>3 DEF SwitchWriter, TypesInv
    <3> QED
      BY <1>7, <3>2, <3>3
  <2>4. fd' \in 1 .. created' /\ inode' \in 0 .. created' /\ newInode' \in 0 .. created'
    <3>1. created' \in Nat
      BY <2>2 DEF Files
    <3> QED
      BY <1>1, <2>1, <2>2, <3>1 DEF TypesInv, tailVars
  <2>5. TypesInv'
    BY <1>1, <2>1, <2>2, <2>3, <2>4 DEF TypesInv, tailVars, histVars
  <2> QED
    BY <1>1, <1>3, <2>1, <2>5, EnvironmentKeeps
<1> QED
  BY <1>5, <1>6, <1>7 DEF Environment

-----------------------------------------------------------------------------
(* The reader.                                                             *)

(* A step that moves only pc and the inodes.                               *)
LEMMA ReaderKeeps ==
    ASSUME SInv, TypesInv', InodeInv',
           UNCHANGED <<fsVars, fd, pos, line, histVars>>,
           pc' # "read" => line = <<>>,
           pc' \notin {"open", "failed"} => pc \notin {"open", "failed"},
           pc = "stopped" => pc' = "stopped"
    PROVE  SInv'
<1> USE DEF SInv, fsVars, histVars
<1>1. LinesWhole(content)'
  BY DEF LinesWhole
<1>2. LineInv'
  BY DEF LineInv, Within, PieceAt
<1>3. EntriesInv'
  BY DEF EntriesInv, Within, OneLine, PieceAt, AllPieces, Pieces
<1>4. NothingSkipped'
  <2>1. OneLineLost'
    BY DEF NothingSkipped, OneLineLost, OneLine, PieceAt
  <2> QED
    BY <2>1 DEF NothingSkipped, Seen, Sent, Pieces
<1> QED
  BY <1>1, <1>2, <1>3, <1>4

(* The inode that a stat returns is no newer than the newest file.         *)
LEMMA InodeKnown ==
    ASSUME TypesInv, NEW i, InodeOf(i)
    PROVE  i \in 0 .. created /\ errors' \in 0 .. MaxErrors
<1>1. created \in Nat /\ atPath \in 0 .. created /\ MaxErrors \in Nat
  BY SyslogAssumption DEF TypesInv, Files, Missing
<1> QED
  BY <1>1 DEF InodeOf, Fails, TypesInv, Missing

LEMMA SmallStep ==
    ASSUME SInv,
           OpenFails \/ FirstInode \/ ReadNothing \/ CheckInode \/ ReopenFails \/ Stop
    PROVE  SInv'
<1> USE DEF fsVars, tailVars, histVars
<1>1. TypesInv /\ LineInv /\ InodeInv
  BY DEF SInv
<1>2. CASE OpenFails \/ ReopenFails
  <2>1. errors' \in 0 .. MaxErrors
    BY <1>1, <1>2, SyslogAssumption DEF OpenFails, ReopenFails, CannotOpen, Fails, TypesInv
  <2>2. TypesInv'
    BY <1>1, <1>2, <2>1 DEF OpenFails, ReopenFails, TypesInv
  <2>3. InodeInv'
    BY <1>1, <1>2 DEF OpenFails, ReopenFails, InodeInv, Reopened
  <2> QED
    BY <1>1, <1>2, <2>2, <2>3, ReaderKeeps DEF OpenFails, ReopenFails, LineInv
<1>3. CASE FirstInode
  <2>1. inode' \in 0 .. created /\ errors' \in 0 .. MaxErrors
    BY <1>1, <1>3, InodeKnown DEF FirstInode
  <2>2. TypesInv'
    BY <1>1, <1>3, <2>1 DEF FirstInode, TypesInv
  <2>3. InodeInv'
    BY <1>1, <1>3 DEF FirstInode, InodeInv, Reopened
  <2> QED
    BY <1>1, <1>3, <2>2, <2>3, ReaderKeeps DEF FirstInode
<1>4. CASE CheckInode
  <2>1. newInode' \in 0 .. created /\ errors' \in 0 .. MaxErrors
    BY <1>1, <1>4, InodeKnown DEF CheckInode
  <2>2. TypesInv'
    BY <1>1, <1>4, <2>1 DEF CheckInode, TypesInv
  <2>3. InodeInv'
    BY <1>1, <1>4 DEF CheckInode, InodeInv, Reopened
  <2> QED
    BY <1>1, <1>4, <2>2, <2>3, ReaderKeeps DEF CheckInode, LineInv
<1>5. CASE ReadNothing \/ Stop
  <2>1. TypesInv' /\ InodeInv'
    BY <1>1, <1>5 DEF ReadNothing, Stop, TypesInv, InodeInv, Reopened
  <2> QED
    BY <1>1, <1>5, <2>1, ReaderKeeps DEF ReadNothing, Stop, LineInv
<1> QED
  BY <1>2, <1>3, <1>4, <1>5

(* At the end of the file at the start all of it was there before.         *)
LEMMA OpenStep ==
    ASSUME SInv, OpenAndSeekEnd
    PROVE  SInv'
<1> USE DEF OpenAndSeekEnd, Opens, fsVars
<1>1. TypesInv /\ LineInv /\ InodeInv /\ PieceShape
  BY PieceFacts DEF SInv
<1>2. line = <<>>
  BY <1>1 DEF LineInv
<1>3. atPath \in Files /\ atPath = created
  BY <1>1 DEF TypesInv
<1>4. TypesInv'
  <2>1. created \in 1 .. created /\ Len(content[atPath]) \in 0 .. Len(content[atPath])
    BY <1>1, <1>3 DEF PieceShape, Files
  <2> QED
    BY <1>1, <1>3, <2>1 DEF TypesInv
<1>5. LinesWhole(content)' /\ EntriesInv'
  <2>1. content' = content /\ created' = created /\ entries' = entries /\ garbled' = garbled
        /\ lost' = lost
    OBVIOUS
  <2> HIDE DEF OpenAndSeekEnd, Opens, fsVars
  <2>2. LinesWhole(content)'
    BY <2>1 DEF SInv, LinesWhole, Files
  <2>3. EntriesInv'
    BY <2>1 DEF SInv, EntriesInv, Within, OneLine, PieceAt, AllPieces, Pieces, Files
  <2> QED
    BY <2>2, <2>3
<1>6. LineInv'
  BY <1>1, <1>2, <1>4 DEF LineInv, Within, TypesInv
<1>7. NothingSkipped'
  <2>1. lost = <<>>
    BY DEF SInv, NothingSkipped, OneLineLost
  <2> QED
    BY <1>3, <2>1 DEF NothingSkipped, OneLineLost, OneLine, Seen, AllPieces, Pieces
<1>8. InodeInv'
  <2>1. ~Reopened'
    BY <1>1, <1>3 DEF InodeInv, Reopened, TypesInv
  <2> QED
    BY <2>1 DEF InodeInv
<1> QED
  BY <1>4, <1>5, <1>6, <1>7, <1>8 DEF SInv

(* A step of the reader that leaves the file system alone.                 *)
LEMMA SamePlaces ==
    ASSUME UNCHANGED fsVars
    PROVE  /\ LinesWhole(content)' <=> LinesWhole(content)
           /\ AllPieces' = AllPieces
           /\ \A s : Within(s)' <=> Within(s)
           /\ \A s : OneLine(s)' <=> OneLine(s)
           /\ \A f : Pieces(f)' = Pieces(f)
           /\ \A p : PieceAt(p)' = PieceAt(p)
BY DEF fsVars, LinesWhole, AllPieces, Pieces, Within, OneLine, PieceAt

(* While the source reads on nothing is lost to the channel.               *)
LEMMA NothingLost ==
    ASSUME SInv, pc # "stopped", UNCHANGED lost
    PROVE  lost = <<>> /\ ToSet(lost) = {} /\ OneLineLost'
BY DEF SInv, NothingSkipped, OneLineLost, OneLine, ToSet

(* The place after pos, when the file has one.                             *)
LEMMA NextPlace ==
    ASSUME TypesInv, ~AtEnd
    PROVE  NextPiece \in Places /\ NextPiece \in AllPieces /\ pos + 1 \in 1 .. Len(content[fd])
<1>1. PieceShape
  BY PieceFacts
<1>2. fd \in Files /\ Len(content[fd]) \in Nat /\ pos \in 0 .. Len(content[fd])
  BY <1>1 DEF PieceShape, TypesInv
<1>3. pos + 1 \in Nat \ {0} /\ pos + 1 <= Len(content[fd])
  BY <1>2 DEF AtEnd
<1> QED
  BY <1>1, <1>2, <1>3 DEF PieceShape, NextPiece, Places

LEMMA PieceStep ==
    ASSUME SInv, ReadPiece
    PROVE  SInv'
<1> USE DEF ReadPiece
<1>1. /\ TypesInv /\ LineInv /\ InodeInv /\ PieceShape /\ EntriesInv /\ NothingSkipped
      /\ LinesWhole(content)
  BY PieceFacts DEF SInv
<1>2. fd \in Files /\ pos \in Nat /\ pos + 1 \in 1 .. Len(content[fd]) /\ NextPiece \in Places
  BY <1>1, NextPlace DEF PieceShape, TypesInv
<1>3. line \in Seq(Places) /\ Len(line) \in Nat /\ Len(line) <= pos
  BY <1>1 DEF LineInv, Within
<1>4. /\ line' \in Seq(Places) /\ Len(line') = Len(line) + 1
      /\ \A i \in 1 .. Len(line) : line'[i] = line[i]
      /\ line'[Len(line) + 1] = NextPiece
  BY <1>2, <1>3
<1>5. TypesInv'
  <2>1. pos + 1 \in 0 .. Len(content[fd])
    BY <1>2
  <2> QED
    BY <1>1, <2>1 DEF TypesInv, fsVars, histVars
<1>6. LineInv'
  <2>1. Within(line')
    <3>1. ASSUME NEW i \in 1 .. Len(line')
          PROVE  line'[i][2] <= Len(content[line'[i][1]])
      <4>1. CASE i = Len(line) + 1
        BY <1>2, <1>4, <4>1 DEF NextPiece
      <4>2. CASE i # Len(line) + 1
        <5>1. i \in 1 .. Len(line) /\ line'[i] = line[i]
          BY <1>3, <1>4, <4>2
        <5> QED
          BY <1>1, <5>1 DEF LineInv, Within
      <4> QED
        BY <4>1, <4>2
    <3> QED
      BY <1>4, <3>1 DEF Within
  <2>2. Within(line)'
    BY <2>1 DEF Within, fsVars
  <2>3. \A i \in 1 .. Len(line') : line'[i] = <<fd', pos' - Len(line') + i>>
    <3> SUFFICES ASSUME NEW i \in 1 .. Len(line')
                 PROVE  line'[i] = <<fd', pos' - Len(line') + i>>
      OBVIOUS
    <3>1. fd' = fd /\ pos' - Len(line') + i = pos - Len(line) + i
      BY <1>2, <1>3, <1>4
    <3>2. CASE i = Len(line) + 1
      <4>1. pos - Len(line) + i = pos + 1
        BY <1>2, <1>3, <3>2
      <4> QED
        BY <1>4, <3>1, <3>2, <4>1 DEF NextPiece
    <3>3. CASE i # Len(line) + 1
      <4>1. i \in 1 .. Len(line)
        BY <1>3, <1>4, <3>3
      <4> QED
        BY <1>1, <1>4, <3>1, <4>1 DEF LineInv
    <3> QED
      BY <3>2, <3>3
  <2>4. ASSUME NEW i \in 1 .. Len(line') - 1
        PROVE  ~PieceAt(line'[i]).ends
    <3>1. i \in 1 .. Len(line) /\ line'[i] = line[i]
      BY <1>3, <1>4
    <3>2. CASE i = Len(line)
      <4>1. line # <<>> /\ Last(line) = line[i]
        BY <1>3, <3>1, <3>2 DEF Last
      <4> QED
        BY <3>1, <4>1 DEF LineDone
    <3>3. CASE i # Len(line)
      <4>1. i \in 1 .. Len(line) - 1
        BY <1>3, <3>1, <3>3
      <4> QED
        BY <1>1, <3>1, <4>1 DEF LineInv
    <3> QED
      BY <3>2, <3>3
  <2>5. \A i \in 1 .. Len(line') - 1 : ~PieceAt(line[i])'.ends
    BY <2>4 DEF PieceAt, fsVars
  <2>6. Len(line') <= pos' /\ pc' = "read"
    BY <1>2, <1>3, <1>4
  <2> QED
    BY <2>2, <2>3, <2>5, <2>6 DEF LineInv
<1>7. NothingSkipped'
  <2>1. ToSet(line) \cup {NextPiece} \subseteq ToSet(line')
    <3>1. DOMAIN line = 1 .. Len(line) /\ DOMAIN line' = 1 .. Len(line')
      BY <1>3, <1>4
    <3> QED
      BY <1>3, <1>4, <3>1 DEF ToSet
  <2>2. Seen' = Seen
    BY DEF Seen, Sent, histVars
  <2> SUFFICES ASSUME NEW p \in Pieces(fd), p[2] <= pos + 1
               PROVE  p \in Seen \cup ToSet(line')
    BY <2>2, NothingLost, SamePlaces DEF NothingSkipped, histVars
  <2>3. p[2] \in Nat /\ p = <<fd, p[2]>>
    BY <1>1, <1>2 DEF PieceShape
  <2>4. CASE p[2] <= pos
    BY <1>1, <2>1, <2>4, NothingLost DEF NothingSkipped, histVars
  <2>5. CASE ~(p[2] <= pos)
    <3>1. p[2] = pos + 1
      BY <1>2, <2>3, <2>5
    <3> QED
      BY <2>1, <2>3, <3>1 DEF NextPiece
  <2> QED
    BY <2>4, <2>5
<1>8. EntriesInv' /\ LinesWhole(content)' /\ InodeInv'
  BY <1>1, SamePlaces DEF EntriesInv, histVars, InodeInv, Reopened
<1> QED
  BY <1>5, <1>6, <1>7, <1>8 DEF SInv

(* What is sent is part of one line.                                       *)
LEMMA LineIsOne ==
    ASSUME TypesInv, LinesWhole(content), LineInv
    PROVE  OneLine(line)
<1>1. /\ fd \in Files /\ Len(content[fd]) \in Nat
      /\ pos \in Nat /\ pos <= Len(content[fd])
      /\ Len(line) \in Nat /\ Len(line) <= pos
  BY PieceFacts DEF TypesInv, PieceShape, LineInv, Within
<1> SUFFICES ASSUME NEW i \in 1 .. Len(line) - 1
             PROVE  /\ line[i + 1] = <<line[i][1], line[i][2] + 1>>
                    /\ PieceAt(line[i + 1]).line = PieceAt(line[i]).line
  BY DEF OneLine
<1> DEFINE k == pos - Len(line) + i
<1>2. /\ i \in 1 .. Len(line) /\ i + 1 \in 1 .. Len(line)
      /\ k \in 1 .. Len(content[fd]) - 1
      /\ pos - Len(line) + (i + 1) = k + 1
  BY <1>1
<1>3. line[i] = <<fd, k>> /\ line[i + 1] = <<fd, k + 1>>
  <2>1. line[i + 1] = <<fd, pos - Len(line) + (i + 1)>>
    BY <1>2 DEF LineInv
  <2> QED
    BY <1>2, <2>1 DEF LineInv
<1> HIDE DEF k
<1>4. ~content[fd][k].ends
  BY <1>3 DEF LineInv, PieceAt
<1>5. content[fd][k + 1].line = content[fd][k].line
  BY <1>1, <1>2, <1>4 DEF LinesWhole
<1> QED
  BY <1>3, <1>5 DEF PieceAt

LEMMA SendStep ==
    ASSUME SInv, Send
    PROVE  SInv'
<1> USE DEF Send, SendLine
<1>1. /\ TypesInv /\ LineInv /\ InodeInv /\ EntriesInv /\ NothingSkipped
      /\ LinesWhole(content)
  BY DEF SInv
<1>2. TypesInv' /\ InodeInv' /\ LinesWhole(content)'
  BY <1>1, SamePlaces DEF TypesInv, InodeInv, Reopened, fsVars
<1>3. LineInv'
  BY <1>1, <1>2 DEF LineInv, Within, TypesInv
<1>4. EntriesInv'
  BY <1>1, LineIsOne, SamePlaces DEF EntriesInv, LineInv
<1>5. NothingSkipped'
  <2>1. Seen \cup ToSet(line) \subseteq Seen'
    BY DEF Seen, Sent
  <2> QED
    BY <1>1, <2>1, NothingLost, SamePlaces DEF NothingSkipped
<1> QED
  BY <1>2, <1>3, <1>4, <1>5 DEF SInv

(* The line in hand when the channel is closed is one line.                *)
LEMMA FailedSendStep ==
    ASSUME SInv, SendFails
    PROVE  SInv'
<1> USE DEF SendFails
<1>1. /\ TypesInv /\ LineInv /\ InodeInv /\ EntriesInv /\ NothingSkipped
      /\ LinesWhole(content)
  BY DEF SInv
<1>2. TypesInv' /\ InodeInv' /\ LinesWhole(content)'
  BY <1>1, SamePlaces DEF TypesInv, InodeInv, Reopened, fsVars
<1>3. LineInv'
  BY <1>1, <1>2 DEF LineInv, Within, TypesInv
<1>4. EntriesInv'
  BY <1>1, LineIsOne, SamePlaces DEF EntriesInv, LineInv
<1>5. OneLineLost'
  BY <1>1, LineIsOne, SamePlaces DEF OneLineLost
<1>6. NothingSkipped'
  <2>1. Seen' = Seen /\ ToSet(lost) = {}
    BY <1>1 DEF Seen, Sent, NothingSkipped, OneLineLost, ToSet
  <2> QED
    BY <1>1, <1>5, <2>1, SamePlaces DEF NothingSkipped
<1> QED
  BY <1>2, <1>3, <1>4, <1>6 DEF SInv

(* What a failing read has consumed is accounted for.                      *)
LEMMA FailedReadStep ==
    ASSUME SInv, ReadFails
    PROVE  SInv'
<1> USE DEF ReadFails
<1>1. /\ TypesInv /\ LineInv /\ InodeInv /\ EntriesInv /\ NothingSkipped /\ PieceShape
      /\ LinesWhole(content)
  BY PieceFacts DEF SInv
<1>2. fd \in Files /\ Len(content[fd]) \in Nat /\ pos \in 0 .. Len(content[fd])
  BY <1>1 DEF PieceShape, TypesInv
<1>3. pos' \in 0 .. Len(content[fd])
  <2>1. CASE AtEnd
    BY <1>2, <2>1
  <2>2. CASE ~AtEnd
    <3>1. pos + 1 \in 1 .. Len(content[fd])
      BY <1>1, <2>2, NextPlace
    <3> QED
      BY <1>2, <3>1
  <2> QED
    BY <2>1, <2>2
<1>4. TypesInv'
  <2>1. errors' \in 0 .. MaxErrors
    BY <1>1, SyslogAssumption DEF Fails, TypesInv
  <2> QED
    BY <1>1, <1>3, <2>1 DEF TypesInv, fsVars
<1>5. LineInv'
  BY <1>1, <1>3, <1>4 DEF LineInv, Within, TypesInv
<1>6. EntriesInv'
  <2>1. ToSet(line) \subseteq AllPieces
    BY <1>1, WithinPieces DEF LineInv
  <2>2. garbled' \subseteq AllPieces
    BY <1>1, <2>1, NextPlace DEF EntriesInv
  <2> QED
    BY <1>1, <2>2, SamePlaces DEF EntriesInv
<1>7. NothingSkipped'
  <2>1. /\ Seen \cup ToSet(line) \subseteq Seen'
        /\ pos' # pos => pos' = pos + 1 /\ NextPiece \in Seen'
    BY DEF Seen, Sent
  <2> SUFFICES ASSUME NEW p \in Pieces(fd), p[2] <= pos'
               PROVE  p \in Seen'
    BY NothingLost, SamePlaces DEF NothingSkipped
  <2>2. p[2] \in Nat /\ p = <<fd, p[2]>>
    BY <1>1, <1>2 DEF PieceShape
  <2>3. CASE p[2] <= pos
    BY <1>1, <2>1, <2>3, NothingLost DEF NothingSkipped
  <2>4. CASE ~(p[2] <= pos)
    <3>1. pos' = pos + 1 /\ p[2] = pos + 1
      BY <1>2, <2>1, <2>2, <2>4
    <3> QED
      BY <1>2, <2>1, <2>2, <3>1 DEF NextPiece
  <2> QED
    BY <2>3, <2>4
<1>8. InodeInv' /\ LinesWhole(content)'
  BY <1>1, SamePlaces DEF InodeInv, Reopened
<1> QED
  BY <1>4, <1>5, <1>6, <1>7, <1>8 DEF SInv

(* The remembered inode is one the path had before the file was opened.    *)
LEMMA ReopenStep ==
    ASSUME SInv, Reopen
    PROVE  SInv'
<1> USE DEF Reopen, ReopenAt, Opens
<1>1. /\ TypesInv /\ LineInv /\ InodeInv /\ EntriesInv /\ PieceShape
      /\ LinesWhole(content)
  BY PieceFacts DEF SInv
<1>2. /\ atPath = created /\ created \in Nat /\ created \in 1 .. created
      /\ created \in Files /\ Len(content[created]) \in Nat
  BY <1>1 DEF PieceShape, TypesInv, Files
<1>3. TypesInv'
  BY <1>1, <1>2 DEF TypesInv, fsVars
<1>4. LineInv'
  <2>1. line = <<>> /\ line' = <<>> /\ pos' = 0
    BY <1>1 DEF LineInv
  <2> QED
    BY <2>1 DEF LineInv, Within
<1>5. EntriesInv' /\ LinesWhole(content)'
  BY <1>1, SamePlaces DEF EntriesInv
<1>6. NothingSkipped'
  <2>1. \A p \in Pieces(created) : ~(p[2] <= 0)
    BY <1>1, <1>2 DEF PieceShape
  <2> QED
    BY <1>2, <2>1, NothingLost, SamePlaces DEF NothingSkipped
<1>7. InodeInv'
  <2>1. inode' \in 0 .. created /\ fd' = created
    BY <1>1, <1>2 DEF TypesInv
  <2> QED
    BY <1>2, <2>1 DEF InodeInv
<1> QED
  BY <1>3, <1>4, <1>5, <1>6, <1>7 DEF SInv

LEMMA SpecInv == Spec => []SInv
<1>1. ASSUME SInv, [Next]_vars
      PROVE  SInv'
  <2>1. CASE TailStep
    BY <1>1, <2>1, OpenStep, SmallStep, PieceStep, SendStep, FailedReadStep, ReopenStep
    DEF TailStep
  <2>2. CASE Environment
    BY <1>1, <2>2, EnvironmentStep
  <2>3. CASE Stop \/ SendFails
    BY <1>1, <2>3, SmallStep, FailedSendStep
  <2>4. CASE UNCHANGED vars
    <3>1. UNCHANGED <<fsVars, pc, fd, pos, line, inode, newInode, errors, histVars>>
      BY <2>4 DEF vars, tailVars
    <3>2. TypesInv' /\ InodeInv'
      BY <1>1, <3>1 DEF SInv, TypesInv, InodeInv, Reopened, fsVars, histVars
    <3> QED
      BY <1>1, <3>1, <3>2, ReaderKeeps DEF SInv, LineInv
  <2> QED
    BY <1>1, <2>1, <2>2, <2>3, <2>4 DEF Next
<1> QED
  BY <1>1, InitInv, PTL DEF Spec

-----------------------------------------------------------------------------
(* The theorems.                                                           *)

(* The states of the tail are well typed, and what it has sent, lost or    *)
(* gathered are pieces that the files have.                                *)
THEOREM TypeCorrect == Spec => []TypeOK
<1>1. SInv => TypeOK
  <2> SUFFICES ASSUME SInv PROVE TypeOK
    OBVIOUS
  <2>1. TypesInv /\ PieceShape /\ LineInv /\ EntriesInv
    BY PieceFacts DEF SInv
  <2>2. /\ Sent \subseteq AllPieces /\ ToSet(line) \subseteq AllPieces
        /\ ToSet(lost) \subseteq AllPieces
    BY <2>1, WithinPieces DEF Sent, EntriesInv, LineInv
  <2>3. inode \in Files \cup {Missing} /\ newInode \in Files \cup {Missing}
    BY <2>1 DEF TypesInv, PieceShape
  <2> QED
    BY <2>1, <2>2, <2>3 DEF TypeOK, TypesInv, EntriesInv
<1> QED
  BY <1>1, SpecInv, PTL

(* syslog.rs 44-65: an entry is never made of pieces of two lines or of    *)
(* two files, whatever the sizes of the reads and wherever a rotation      *)
(* comes.                                                                  *)
THEOREM OneLineTheorem == Spec => []OneLinePerEntry
<1>1. SInv => OneLinePerEntry
  BY DEF SInv, EntriesInv, OneLinePerEntry
<1> QED
  BY <1>1, SpecInv, PTL

(* syslog.rs 3-6: up to where it has read, the file the source has open is *)
(* in the entries, in the line being gathered, was there at the start, was *)
(* lost to a failing read, or is the one line the closed channel refused.  *)
THEOREM NothingSkippedTheorem == Spec => []NothingSkipped
<1>1. SInv => NothingSkipped
  BY DEF SInv
<1> QED
  BY <1>1, SpecInv, PTL

(* syslog.rs 49-56: from the second opening on, a source that reads        *)
(* another file than the path leads to remembers another inode than the    *)
(* path has, and so the next check finds the rotation.                     *)
THEOREM RotationTheorem == Spec => []RotationNoticed
<1>1. SInv => RotationNoticed
  <2> SUFFICES ASSUME SInv, Reopened, atPath \notin {Missing, fd}
               PROVE  inode # atPath
    BY DEF RotationNoticed
  <2>1. /\ TypesInv /\ inode <= fd /\ inode \in 0 .. created /\ fd \in 1 .. created
        /\ atPath = created /\ created \in Nat
    BY PieceFacts DEF SInv, InodeInv, TypesInv, PieceShape
  <2> QED
    BY <2>1
<1> QED
  BY <1>1, SpecInv, PTL

-----------------------------------------------------------------------------
(* How often a file is opened.                                             *)

(* The openings of the file at the path that may still come without        *)
(* another failing call: the one under way, and one more unless the inode  *)
(* remembered after it is that of the file.                                *)
Pending ==
    (IF pc = "reopen" THEN 1 ELSE 0)
    + (IF (IF pc = "reopen" THEN newInode ELSE inode) = atPath THEN 0 ELSE 1)

OpenInv ==
    /\ errors \in Nat /\ created \in Nat
    /\ opened \in [Files -> Nat]
    /\ atPath \in {Missing, created} /\ created \in Files
    /\ \A f \in Files : f > created => opened[f] = 0
    /\ pc = "open" => \A f \in Files : opened[f] = 0
    /\ pc \in {"open", "stat"} => inode = Missing
    /\ \A f \in Files : opened[f] <= 2 + 2 * errors
    /\ atPath # Missing => opened[atPath] + Pending <= 2 + 2 * errors

LEMMA Allowance == \A e \in Nat : 2 + 2 * e \in Nat /\ 2 + 2 * e >= 2 /\ 2 + 2 * (e + 1) = 2 + 2 * e + 2
OBVIOUS

LEMMA OpenInvInit == Init => OpenInv
<1> SUFFICES ASSUME Init PROVE OpenInv
  OBVIOUS
<1>1. 1 \in Files
  BY SyslogAssumption DEF Files
<1>2. opened \in [Files -> Nat] /\ opened[1] = 0 /\ \A f \in Files : opened[f] = 0
  BY <1>1 DEF Init
<1>3. Pending = 1
  BY DEF Init, Pending, Missing
<1> QED
  BY <1>1, <1>2, <1>3 DEF Init, OpenInv, Missing

(* The file at the path is opened; what may still come then is one less.   *)
LEMMA OpeningKeeps ==
    ASSUME OpenInv, OpenAndSeekEnd \/ Reopen
    PROVE  OpenInv'
<1> USE DEF fsVars, Missing
<1>1. /\ atPath \in Files /\ atPath = created /\ created \in Nat /\ errors \in Nat
      /\ opened[atPath] \in Nat /\ opened[atPath] + Pending <= 2 + 2 * errors
      /\ UNCHANGED <<created, atPath, errors>>
      /\ opened' = [opened EXCEPT ![atPath] = @ + 1]
  BY DEF OpenAndSeekEnd, Reopen, ReopenAt, Opens, OpenInv
<1>2. opened'[atPath] + Pending' <= 2 + 2 * errors
  <2>1. opened'[atPath] = opened[atPath] + 1
    BY <1>1 DEF OpenInv
  <2>2. CASE OpenAndSeekEnd
    <3>1. opened[atPath] = 0 /\ pc' # "reopen" /\ Pending' \in {0, 1}
      BY <1>1, <2>2 DEF OpenAndSeekEnd, OpenInv, Pending
    <3> QED
      BY <1>1, <2>1, <3>1
  <2>3. CASE Reopen
    <3>1. Pending' \in {0, 1} /\ Pending = Pending' + 1
      BY <2>3 DEF Reopen, ReopenAt, Pending
    <3> QED
      BY <1>1, <2>1, <3>1
  <2> QED
    BY <2>2, <2>3
<1>3. opened' \in [Files -> Nat] /\ \A f \in Files : f # atPath => opened'[f] = opened[f]
  BY <1>1 DEF OpenInv
<1>4. opened'[atPath] \in Nat /\ Pending' \in 0 .. 2
  BY <1>1, <1>3 DEF Pending
<1>5. \A f \in Files : opened'[f] <= 2 + 2 * errors
  <2>1. opened'[atPath] <= 2 + 2 * errors
    BY <1>1, <1>2, <1>4
  <2> QED
    BY <1>3, <2>1 DEF OpenInv
<1>6. \A f \in Files : f > created => opened'[f] = 0
  BY <1>1, <1>3 DEF OpenInv, Files
<1>7. pc' \notin {"open"} /\ (pc' = "stat" => inode' = Missing)
  BY DEF OpenAndSeekEnd, Reopen, ReopenAt, OpenInv
<1> QED
  BY <1>1, <1>2, <1>3, <1>5, <1>6, <1>7 DEF OpenInv

(* A stat that fails costs two openings, a stat that does not none.        *)
LEMMA StatKeeps ==
    ASSUME OpenInv, FirstInode \/ CheckInode
    PROVE  OpenInv'
<1> USE DEF fsVars, tailVars, histVars
<1>1. UNCHANGED <<created, atPath, opened>> /\ errors \in Nat /\ errors' \in {errors, errors + 1}
  BY DEF FirstInode, CheckInode, OpenInv, InodeOf, Fails
<1>2. ASSUME atPath # Missing
      PROVE  opened[atPath] + Pending' <= 2 + 2 * errors'
  <2>1. opened[atPath] \in Nat /\ opened[atPath] + Pending <= 2 + 2 * errors
    BY <1>2 DEF OpenInv
  <2>2. Pending \in 0 .. 2 /\ Pending' \in 0 .. 2
    BY DEF Pending
  <2>3. CASE errors' = errors
    <3>1. Pending' <= Pending
      BY <1>1, <1>2, <2>3 DEF FirstInode, CheckInode, OpenInv, InodeOf, Fails, Pending
    <3> QED
      BY <1>1, <2>1, <2>2, <2>3, <3>1
  <2>4. CASE errors' = errors + 1
    BY <1>1, <2>1, <2>2, <2>4
  <2> QED
    BY <1>1, <2>3, <2>4
<1>3. \A f \in Files : opened[f] <= 2 + 2 * errors'
  <2>1. \A f \in Files : opened[f] \in Nat /\ opened[f] <= 2 + 2 * errors
    BY DEF OpenInv
  <2> QED
    BY <1>1, <2>1
<1>4. pc' \notin {"open", "stat"}
  BY DEF FirstInode, CheckInode
<1> QED
  BY <1>1, <1>2, <1>3, <1>4 DEF OpenInv

(* The other steps of the reader leave the file at the path alone, and     *)
(* promise no further opening.                                             *)
LEMMA ReadingKeeps ==
    ASSUME OpenInv,
           \/ OpenFails \/ ReadPiece \/ Send \/ ReadNothing \/ ReadFails \/ ReopenFails
           \/ Stop \/ SendFails \/ UNCHANGED vars
    PROVE  OpenInv'
<1> USE DEF fsVars, tailVars, histVars
<1>1. /\ UNCHANGED <<created, atPath, opened, inode, newInode>>
      /\ errors \in Nat /\ errors' \in {errors, errors + 1}
      /\ pc' = "reopen" => pc = "reopen"
      /\ pc' = "open" => pc = "open"
      /\ pc' = "stat" => pc = "stat"
  BY DEF OpenFails, ReadPiece, Send, SendLine, ReadNothing, ReadFails, ReopenFails, Stop, SendFails,
         vars, OpenInv, CannotOpen, Fails
<1>2. Pending \in 0 .. 2 /\ Pending' \in 0 .. 2 /\ Pending' <= Pending
  BY <1>1 DEF Pending
<1>3. 2 + 2 * errors <= 2 + 2 * errors'
  <2>1. errors \in Nat /\ (errors' = errors \/ errors' = errors + 1)
    BY <1>1
  <2> QED
    BY <2>1, Allowance
<1>4. \A f \in Files : opened[f] <= 2 + 2 * errors'
  <2>1. \A f \in Files : opened[f] \in Nat /\ opened[f] <= 2 + 2 * errors
    BY DEF OpenInv
  <2> QED
    BY <1>1, <1>3, <2>1
<1>5. atPath # Missing => opened[atPath] + Pending' <= 2 + 2 * errors'
  <2> SUFFICES ASSUME atPath # Missing
               PROVE  opened[atPath] + Pending' <= 2 + 2 * errors'
    OBVIOUS
  <2>1. opened[atPath] \in Nat /\ opened[atPath] + Pending <= 2 + 2 * errors
    BY DEF OpenInv
  <2> HIDE DEF Pending
  <2> QED
    BY <1>1, <1>2, <1>3, <2>1
<1> QED
  BY <1>1, <1>4, <1>5 DEF OpenInv

(* A file that is created has not been opened, and one that is renamed     *)
(* will not be again.                                                      *)
LEMMA RotatingKeeps ==
    ASSUME OpenInv, Environment
    PROVE  OpenInv'
<1> USE DEF fsVars, tailVars, histVars, Missing
<1>1. UNCHANGED <<pc, opened, inode, newInode, errors>>
  BY DEF Environment, WriteLine, WriteRest, Rename, Create, SwitchWriter
<1>2. CASE Create
  <2>1. /\ created' = created + 1 /\ atPath' = created + 1
        /\ created' \in Files /\ created' > created
    BY <1>2, SyslogAssumption DEF Create, OpenInv, Files
  <2>2. opened[atPath'] = 0 /\ errors \in Nat
    BY <2>1 DEF OpenInv
  <2>3. \A f \in Files : f > created' => opened[f] = 0
    BY <2>1 DEF OpenInv, Files
  <2>4. opened[atPath'] + Pending' <= 2 + 2 * errors
    <3>1. opened[atPath'] + Pending' <= 2
      BY <2>2 DEF Pending
    <3> QED
      BY <2>2, <3>1, Allowance DEF Pending
  <2>5. pc \in {"open", "stat"} => inode = Missing
    BY DEF OpenInv
  <2> QED
    BY <1>1, <2>1, <2>3, <2>4, <2>5 DEF OpenInv
<1>3. CASE ~Create
  <2>1. created' = created /\ atPath' \in {Missing, atPath}
    BY <1>3 DEF Environment, WriteLine, WriteRest, Rename, SwitchWriter
  <2>2. atPath' = atPath => Pending' = Pending
    BY <1>1 DEF Pending
  <2> QED
    BY <1>1, <2>1, <2>2 DEF OpenInv
<1> QED
  BY <1>2, <1>3

LEMMA OpenInvariance == Spec => []OpenInv
<1>1. OpenInv /\ [Next]_vars => OpenInv'
  BY OpeningKeeps, StatKeeps, ReadingKeeps, RotatingKeeps DEF Next, TailStep
<1> QED
  BY <1>1, OpenInvInit, PTL DEF Spec

(* syslog.rs 49-56: however rotations, writes and reads interleave, the    *)
(* source opens a file at most twice, and twice more for each failing      *)
(* call: the race between the stat and the open duplicates a file at most  *)
(* once.                                                                   *)
THEOREM ReadAtMostTwiceTheorem == Spec => []ReadAtMostTwice
<1>1. OpenInv => ReadAtMostTwice
  BY DEF OpenInv, ReadAtMostTwice
<1> QED
  BY <1>1, OpenInvariance, PTL
=============================================================================
