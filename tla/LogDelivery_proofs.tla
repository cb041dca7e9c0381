------------------------- MODULE LogDelivery_proofs -------------------------
(***************************************************************************)
(* Nothing is lost, and nothing is sent too often, for every configuration *)
(* and number of entries, crashes, signals and failing calls.              *)
(*                                                                         *)
(* First, LogPipeline implements LogDelivery, as long as the spool has     *)
(* room for one chunk next to the files that eviction cannot remove.       *)
(* Second, how often one entry reaches the MQTT client: BoundedDuplication *)
(* counts the places an entry is in and how often it was accepted; the sum *)
(* grows only when the process is interrupted or a file-system call fails. *)
(***************************************************************************)
EXTENDS LogPipeline_proofs, FunctionTheorems

Copies == OnDisk \cup Held \cup evicted \cup dropped \cup HandedOver

(* The number of the next entry is above all that are anywhere.            *)
Produced == \A e \in Copies : e <= produced

(* While a tick works on a chunk, its number is not given to another one:  *)
(* it is there, or younger ones are, because an eviction leaves something. *)
FlightInv ==
    ChunkInFlight =>
       /\ path \in DOMAIN spool \/ (DOMAIN spool # {} /\ \A n \in DOMAIN spool : path < n)
       /\ stage = "remove" =>
             /\ target \in DOMAIN spool
             /\ \A n \in DOMAIN spool : target <= n
             /\ DOMAIN spool # {target}
       /\ stage = "rename" => path < target

(* The chunk as it was read, unless it was evicted since.                  *)
ChunkRead ==
    tpc = "pubDisk" =>
       IF path \in DOMAIN spool THEN spool[path] = batch ELSE ToSet(batch) \subseteq evicted

Elsewhere == UNION {ToSet(spool[n]) : n \in DOMAIN spool \ {path}}

(* A chunk that is to be deleted is dispensable.                           *)
Dispensable ==
    path \in DOMAIN spool =>
       /\ tpc = "discard" => ToSet(spool[path]) \subseteq dropped
       /\ tpc = "relockDisk" => ToSet(spool[path]) \subseteq HandedOver \cup ToSet(batch)
       /\ tpc = "repushDisk" => ToSet(spool[path]) \subseteq
             HandedOver \cup ToSet(todo) \cup ToSet(memory) \cup InWrite \cup Elsewhere
                \cup evicted \cup dropped

Accepted == Publishing => \A i \in 1 .. pos : handed[batch[i]] > 0

(* Nothing is left behind by who gives the lock back, or waits for it.     *)
Settled ==
    /\ lock \in {"free", "shutdown"} => todo = <<>>
    /\ ipc # "lock" => hand = 0
    /\ ~loopAlive => phase = "signalled"
    /\ phase = "down" => /\ tpc = "idle" /\ ipc = "recv" /\ lock = "free" /\ chan = <<>>
                         /\ loopAlive

DInv == /\ Produced /\ FlightInv /\ ChunkRead /\ Dispensable /\ Accepted /\ Settled
        /\ SInv

-----------------------------------------------------------------------------
(* The entries of a sequence.                                              *)
LEMMA Members ==
    ASSUME NEW s \in Seq(Entries)
    PROVE  /\ ToSet(s) = {s[i] : i \in 1 .. Len(s)}
           /\ Len(s) \in Nat
BY LenProperties DEF ToSet

(* The empty sequence has no entries.                                      *)
LEMMA MembersEmpty == ToSet(<<>>) = {}
<1>1. ASSUME NEW s \in Seq(Entries), Len(s) = 0 PROVE ToSet(s) = {}
  <2>1. ToSet(s) = {s[i] : i \in 1 .. 0}
    BY <1>1, Members
  <2>2. 1 .. 0 = {}
    OBVIOUS
  <2> QED
    BY <2>1, <2>2, Zenon
<1>2. <<>> \in Seq(Entries) /\ Len(<<>>) = 0
  BY EmptySeq
<1> QED
  BY <1>1, <1>2, Zenon

(* Appending adds one entry.                                               *)
LEMMA MembersAppend ==
    ASSUME NEW s \in Seq(Entries), NEW x \in Entries
    PROVE  ToSet(Append(s, x)) = ToSet(s) \cup {x}
<1> DEFINE t == Append(s, x)
<1>1. /\ t \in Seq(Entries) /\ Len(t) = Len(s) + 1
      /\ \A i \in 1 .. Len(s) : t[i] = s[i]
      /\ t[Len(s) + 1] = x
  BY AppendProperties
<1>2. /\ ToSet(t) = {t[i] : i \in 1 .. Len(t)} /\ ToSet(s) = {s[i] : i \in 1 .. Len(s)}
      /\ Len(s) \in Nat
  BY <1>1, Members
<1>3. 1 .. Len(s) + 1 = (1 .. Len(s)) \cup {Len(s) + 1}
  BY <1>2
<1> HIDE DEF t
<1>4. ToSet(t) = {t[i] : i \in 1 .. Len(s)} \cup {t[Len(s) + 1]}
  BY <1>1, <1>2, <1>3
<1>5. {t[i] : i \in 1 .. Len(s)} = {s[i] : i \in 1 .. Len(s)}
  BY <1>1
<1> QED
  BY <1>1, <1>2, <1>4, <1>5 DEF t

(* The head and the tail make up the sequence.                             *)
LEMMA MembersHead ==
    ASSUME NEW s \in Seq(Entries), s # <<>>
    PROVE  ToSet(s) = {Head(s)} \cup ToSet(Tail(s))
<1>1. /\ Tail(s) \in Seq(Entries) /\ Len(Tail(s)) = Len(s) - 1 /\ Head(s) = s[1]
      /\ \A i \in 1 .. Len(Tail(s)) : Tail(s)[i] = s[i + 1]
      /\ Len(s) \in Nat /\ Len(s) > 0
  BY HeadTailProperties, LenProperties, EmptySeq
<1>2. ToSet(s) = {s[i] : i \in 1 .. Len(s)} /\ ToSet(Tail(s)) = {Tail(s)[i] : i \in 1 .. Len(Tail(s))}
  BY <1>1, Members
<1>3. ASSUME NEW e \in ToSet(s) PROVE e = Head(s) \/ e \in ToSet(Tail(s))
  <2>1. PICK i \in 1 .. Len(s) : s[i] = e
    BY <1>2, <1>3
  <2>2. CASE i # 1
    <3>1. i - 1 \in 1 .. Len(Tail(s)) /\ (i - 1) + 1 = i
      BY <1>1, <2>2
    <3> QED
      BY <1>1, <1>2, <2>1, <3>1
  <2> QED
    BY <1>1, <2>1, <2>2
<1>4. Head(s) \in ToSet(s)
  BY <1>1, <1>2
<1>5. ASSUME NEW e \in ToSet(Tail(s)) PROVE e \in ToSet(s)
  <2>1. PICK i \in 1 .. Len(Tail(s)) : Tail(s)[i] = e
    BY <1>2, <1>5
  <2>2. i + 1 \in 1 .. Len(s)
    BY <1>1, <2>1
  <2> QED
    BY <1>1, <1>2, <2>1, <2>2
<1> QED
  BY <1>3, <1>4, <1>5

(* The entries of a slice are those between its ends.                      *)
LEMMA MembersSlice ==
    ASSUME NEW s \in Seq(Entries), NEW m \in Nat \ {0}, NEW n \in Nat, n <= Len(s)
    PROVE  ToSet(SubSeq(s, m, n)) = {s[i] : i \in m .. n}
<1> DEFINE t == SubSeq(s, m, n)
<1>1. Len(s) \in Nat /\ \A i \in 1 .. Len(s) : s[i] \in Entries
  BY LenProperties, ElementOfSeq
<1>2. \A i \in m .. n : s[i] \in Entries
  BY <1>1
<1>3. m \in Int /\ n \in Int
  OBVIOUS
<1>4. /\ t \in Seq(Entries)
      /\ Len(t) = IF m <= n THEN n - m + 1 ELSE 0
      /\ \A i \in 1 .. n - m + 1 : t[i] = s[m + i - 1]
  BY <1>2, <1>3, SubSeqProperties
<1>5. ToSet(t) = {t[i] : i \in 1 .. Len(t)}
  BY <1>4, Members
<1> HIDE DEF t
<1>6. ASSUME NEW e \in ToSet(t) PROVE e \in {s[i] : i \in m .. n}
  <2>1. PICK i \in 1 .. Len(t) : t[i] = e
    BY <1>5, <1>6
  <2>2. i \in 1 .. n - m + 1 /\ m + i - 1 \in m .. n
    BY <1>4, <2>1
  <2> QED
    BY <1>4, <2>1, <2>2
<1>7. ASSUME NEW j \in m .. n PROVE s[j] \in ToSet(t)
  <2>1. /\ m <= n /\ j - m + 1 \in 1 .. n - m + 1 /\ m + (j - m + 1) - 1 = j
        /\ j - m + 1 \in 1 .. Len(t)
    BY <1>4
  <2>2. t[j - m + 1] = s[j]
    BY <1>4, <2>1
  <2> QED
    BY <1>5, <2>1, <2>2
<1> QED
  BY <1>6, <1>7 DEF t

(* Reversing keeps the entries.                                            *)
LEMMA MembersReverse ==
    ASSUME NEW s \in Seq(Entries)
    PROVE  ToSet(Reverse(s)) = ToSet(s)
<1>1. Len(s) \in Nat /\ ToSet(s) = {s[i] : i \in 1 .. Len(s)}
  BY Members
<1>2. DOMAIN Reverse(s) = 1 .. Len(s) /\ \A i \in 1 .. Len(s) : Reverse(s)[i] = s[(Len(s) - i) + 1]
  BY DEF Reverse
<1>3. ToSet(Reverse(s)) = {Reverse(s)[i] : i \in 1 .. Len(s)}
  BY <1>2 DEF ToSet
<1>4. \A i \in 1 .. Len(s) :
         (Len(s) - i) + 1 \in 1 .. Len(s) /\ (Len(s) - ((Len(s) - i) + 1)) + 1 = i
  BY <1>1
<1>5. ASSUME NEW e \in ToSet(s) PROVE e \in ToSet(Reverse(s))
  <2>1. PICK i \in 1 .. Len(s) : s[i] = e
    BY <1>1, <1>5
  <2>2. Reverse(s)[(Len(s) - i) + 1] = e
    BY <1>2, <1>4, <2>1
  <2> QED
    BY <1>3, <1>4, <2>2
<1>6. ASSUME NEW e \in ToSet(Reverse(s)) PROVE e \in ToSet(s)
  <2>1. PICK i \in 1 .. Len(s) : Reverse(s)[i] = e
    BY <1>3, <1>6
  <2> QED
    BY <1>1, <1>2, <1>4, <2>1
<1> QED
  BY <1>5, <1>6

(* A chunk and what write_chunk leaves for the next ones.                  *)
LEMMA MembersChunk ==
    ASSUME NEW s \in Seq(Entries)
    PROVE  ToSet(s) = ToSet(FirstChunk(s)) \cup ToSet(AfterChunk(s))
<1>1. ChunkMax \in Nat /\ Len(s) \in Nat
  BY LenProperties, ConfigAssumption
<1>2. PICK k \in Nat : k = Min({ChunkMax, Len(s)}) /\ k <= Len(s)
  BY <1>1, MinOfTwo
<1>3. 1 \in Nat \ {0} /\ k + 1 \in Nat \ {0}
  BY <1>2
<1>4. ToSet(SubSeq(s, 1, k)) = {s[i] : i \in 1 .. k}
  BY <1>2, <1>3, MembersSlice
<1>5. ToSet(SubSeq(s, k + 1, Len(s))) = {s[i] : i \in k + 1 .. Len(s)}
  BY <1>1, <1>3, MembersSlice
<1>6. ToSet(s) = {s[i] : i \in 1 .. Len(s)} /\ 1 .. Len(s) = (1 .. k) \cup (k + 1 .. Len(s))
  BY <1>1, <1>2, Members
<1>7. ToSet(FirstChunk(s)) = {s[i] : i \in 1 .. k} /\ ToSet(AfterChunk(s)) = {s[i] : i \in k + 1 .. Len(s)}
  BY <1>2, <1>4, <1>5 DEF FirstChunk, AfterChunk
<1> QED
  BY <1>6, <1>7

-----------------------------------------------------------------------------
(* The part of a batch that has yet to be published.                       *)

Unsent == SubSeq(batch, pos + 1, Len(batch))

(* What a publisher has not sent is its current entry and the rest.        *)
LEMMA UnsentMembers ==
    ASSUME TaskTypeOK
    PROVE  /\ ToSet(Unsent) = {batch[i] : i \in pos + 1 .. Len(batch)}
           /\ ToSet(batch) = {batch[i] : i \in 1 .. Len(batch)}
           /\ Len(batch) \in Nat /\ pos \in 0 .. Len(batch)
           /\ \A i \in 1 .. Len(batch) : batch[i] \in Entries
<1>1. batch \in Seq(Entries) /\ pos \in 0 .. Len(batch)
  BY DEF TaskTypeOK
<1>2. Len(batch) \in Nat /\ ToSet(batch) = {batch[i] : i \in 1 .. Len(batch)}
        /\ \A i \in 1 .. Len(batch) : batch[i] \in Entries
  BY <1>1, Members, ElementOfSeq
<1>3. pos + 1 \in Nat \ {0}
  BY <1>1, <1>2
<1> QED
  BY <1>1, <1>2, <1>3, MembersSlice DEF Unsent

(* At its beginning all of it, at its end nothing.                         *)
LEMMA UnsentEnds ==
    ASSUME TaskTypeOK
    PROVE  /\ pos = 0 => ToSet(Unsent) = ToSet(batch)
           /\ pos = Len(batch) => ToSet(Unsent) = {}
           /\ batch = <<>> => ToSet(Unsent) = {}
           /\ ToSet(Unsent) \subseteq ToSet(batch)
<1>1. /\ ToSet(Unsent) = {batch[i] : i \in pos + 1 .. Len(batch)}
      /\ ToSet(batch) = {batch[i] : i \in 1 .. Len(batch)}
      /\ Len(batch) \in Nat /\ pos \in 0 .. Len(batch)
  BY UnsentMembers
<1>2. batch = <<>> => Len(batch) = 0
  BY EmptySeq
<1>3. pos + 1 .. Len(batch) \subseteq 1 .. Len(batch)
  BY <1>1
<1>4. pos = Len(batch) => pos + 1 .. Len(batch) = {}
  BY <1>1
<1>5. pos = 0 => pos + 1 .. Len(batch) = 1 .. Len(batch)
  BY <1>1
<1>6. batch = <<>> => pos = Len(batch)
  BY <1>1, <1>2
<1> QED
  BY <1>1, <1>3, <1>4, <1>5, <1>6

(* The same in the next state, where only the types matter.                *)
LEMMA UnsentPrime == TaskTypeOK' => ToSet(Unsent') \subseteq ToSet(batch')
<1>1. TaskTypeOK => ToSet(Unsent) \subseteq ToSet(batch)
  BY UnsentEnds
<1>2. (TaskTypeOK => ToSet(Unsent) \subseteq ToSet(batch))'
  BY <1>1, PTL
<1> QED
  BY <1>2

(* What goes back after a failure contains all that the client has not     *)
(* accepted of it, and nothing else that is new.                           *)
LEMMA TailMembers ==
    ASSUME TaskTypeOK
    PROVE  /\ ToSet(Unsent) \subseteq ToSet(UnpublishedTail)
           /\ ToSet(UnpublishedTail) \subseteq {batch[i] : i \in 1 .. pos} \cup ToSet(Unsent)
           /\ ToSet(FailedSlice) \subseteq ToSet(UnpublishedTail)
           /\ SliceStart \in Nat /\ SliceStart <= pos
           /\ ToSet(batch) \subseteq {batch[i] : i \in 1 .. pos} \cup ToSet(UnpublishedTail)
<1>1. /\ ToSet(Unsent) = {batch[i] : i \in pos + 1 .. Len(batch)}
      /\ ToSet(batch) = {batch[i] : i \in 1 .. Len(batch)}
      /\ Len(batch) \in Nat /\ pos \in 0 .. Len(batch) /\ batch \in Seq(Entries)
  BY UnsentMembers DEF TaskTypeOK
<1>2. SliceStart \in Nat /\ SliceStart <= pos
  <2>1. pos \in Nat /\ PubBatch \in Nat \ {0}
    BY <1>1, PipelineAssumption
  <2>2. pos \div PubBatch \in Nat /\ (pos \div PubBatch) * PubBatch <= pos
    BY <2>1
  <2> QED
    BY <2>1, <2>2 DEF SliceStart
<1>3. SliceStart + PubBatch \in Nat
  BY <1>2, PipelineAssumption
<1>4. PICK k \in Nat : k = Min({SliceStart + PubBatch, Len(batch)}) /\ k <= Len(batch)
  BY <1>1, <1>3, MinOfTwo
<1>5. SliceStart + 1 \in Nat \ {0}
  BY <1>2
<1>6. ToSet(UnpublishedTail) = {batch[i] : i \in SliceStart + 1 .. Len(batch)}
  BY <1>1, <1>5, MembersSlice DEF UnpublishedTail
<1>7. ToSet(FailedSlice) = {batch[i] : i \in SliceStart + 1 .. k}
  <2>1. FailedSlice = SubSeq(batch, SliceStart + 1, k)
    BY <1>4 DEF FailedSlice
  <2> QED
    BY <1>1, <1>4, <1>5, <2>1, MembersSlice
<1>8. /\ pos + 1 .. Len(batch) \subseteq SliceStart + 1 .. Len(batch)
      /\ SliceStart + 1 .. Len(batch) \subseteq (1 .. pos) \cup (pos + 1 .. Len(batch))
      /\ SliceStart + 1 .. k \subseteq SliceStart + 1 .. Len(batch)
      /\ 1 .. Len(batch) \subseteq (1 .. pos) \cup (SliceStart + 1 .. Len(batch))
  BY <1>1, <1>2, <1>4
<1> QED
  BY <1>1, <1>2, <1>6, <1>7, <1>8

-----------------------------------------------------------------------------
(* The entries on disk.                                                    *)

(* A new file adds its entries.                                            *)
LEMMA DiskWith ==
    ASSUME NEW files, NEW n, NEW c, n \notin DOMAIN files
    PROVE  UNION {ToSet(With(files, n, c)[m]) : m \in DOMAIN With(files, n, c)}
              = (UNION {ToSet(files[m]) : m \in DOMAIN files}) \cup ToSet(c)
<1> DEFINE g == With(files, n, c)
<1>1. /\ DOMAIN g = DOMAIN files \cup {n} /\ g[n] = c
      /\ \A m \in DOMAIN files : g[m] = files[m]
  BY DEF With
<1> HIDE DEF g
<1>2. UNION {ToSet(g[m]) : m \in DOMAIN g} = (UNION {ToSet(files[m]) : m \in DOMAIN files}) \cup ToSet(c)
  BY <1>1
<1> QED
  BY <1>2 DEF g

(* A removed file takes away at most its entries.                          *)
LEMMA DiskWithout ==
    ASSUME NEW files, NEW n
    PROVE  /\ UNION {ToSet(Without(files, n)[m]) : m \in DOMAIN Without(files, n)}
                = UNION {ToSet(files[m]) : m \in DOMAIN files \ {n}}
           /\ n \notin DOMAIN files => Without(files, n) = [m \in DOMAIN files |-> files[m]]
BY DEF Without

-----------------------------------------------------------------------------
(* The places of the entries, from the sets they are found in, and what    *)
(* changes of those sets mean for LogDelivery.                             *)

PlaceOf(h, d, v, g, p) ==
    [e \in Entries |-> IF e \in h THEN "delivered"
                       ELSE IF e \in d THEN "durable"
                       ELSE IF e \in v THEN "volatile"
                       ELSE IF e \in g THEN "givenUp"
                       ELSE IF e > p THEN "new" ELSE "lost"]

(* The place of an entry, by the five sets.                                *)
LEMMA PlaceIs ==
    /\ Place = PlaceOf(HandedOver, OnDisk, Held, evicted \cup dropped, produced)
    /\ Place' = PlaceOf(HandedOver', OnDisk', Held', evicted' \cup dropped', produced')
BY DEF Place, PlaceOf, HandedOver

(* The abstract specification has the same entries and the same phase.     *)
LEMMA DeliveryFrame ==
    /\ Delivery!Entries = Entries
    /\ Delivery!Up <=> Up
BY DEF Delivery!Entries, Entries, Delivery!Up, Up

GivenUp == evicted \cup dropped

(* Copies appear where better ones are known.                              *)
Shuffles ==
    /\ HandedOver' = HandedOver /\ OnDisk' = OnDisk /\ produced' = produced
    /\ Held \subseteq Held' /\ Held' \subseteq Held \cup OnDisk
    /\ GivenUp \subseteq GivenUp' /\ GivenUp' \subseteq GivenUp \cup OnDisk

(* Moving entries around stutters.                                         *)
LEMMA ShuffleStep == Shuffles => Place' = Place
<1> SUFFICES ASSUME Shuffles PROVE Place' = Place
  OBVIOUS
<1> QED
  BY PlaceIs DEF Shuffles, GivenUp, PlaceOf

(* One more entry is taken in.                                             *)
TakesIn ==
    /\ HandedOver' = HandedOver /\ OnDisk' = OnDisk /\ GivenUp' = GivenUp
    /\ produced' = produced + 1 /\ produced + 1 \in Entries
    /\ Held' = Held \cup {produced + 1}

(* A new entry is produced.                                                *)
LEMMA TakeInStep ==
    ASSUME TakesIn, Produced, produced \in Nat, Up, UNCHANGED phase
    PROVE  Delivery!Next
<1> DEFINE x == produced + 1
<1>1. x \in Entries /\ x \notin HandedOver /\ x \notin OnDisk /\ x \notin Held /\ x \notin GivenUp
  <2>1. \A e \in Copies : e <= produced
    BY DEF Produced
  <2>2. x \notin Copies
    BY <2>1
  <2> QED
    BY <2>2 DEF Copies, TakesIn, GivenUp
<1>2. \A e \in Entries : e <= produced => Place[e] # "new"
  BY PlaceIs DEF PlaceOf, Entries
<1>3. Place[x] = "new"
  BY <1>1, PlaceIs DEF PlaceOf, Entries, GivenUp
<1>4. Place' = [Place EXCEPT ![x] = "volatile"]
  <2>1. DOMAIN Place = Entries /\ DOMAIN Place' = Entries
    BY PlaceIs DEF PlaceOf
  <2>2. Place'[x] = "volatile"
    BY <1>1, PlaceIs DEF PlaceOf, TakesIn
  <2>3. \A e \in Entries : e # x => Place'[e] = Place[e]
    BY PlaceIs DEF PlaceOf, TakesIn, GivenUp, Entries
  <2>4. Place \in [Entries -> {Place[e] : e \in Entries}]
    BY PlaceIs DEF PlaceOf
  <2>5. Place' = [e \in Entries |-> Place'[e]]
    BY PlaceIs DEF PlaceOf
  <2>6. [Place EXCEPT ![x] = "volatile"] = [e \in Entries |-> IF e = x THEN "volatile" ELSE Place[e]]
    BY <2>1
  <2> QED
    BY <2>2, <2>3, <2>5, <2>6
<1>5. \A f \in Entries : f < x => f <= produced
  BY DEF Entries
<1>6. Delivery!Accept
  BY <1>1, <1>2, <1>3, <1>4, <1>5, DeliveryFrame DEF Delivery!Accept
<1> QED
  BY <1>6 DEF Delivery!Next

(* The client takes entries from what is held.                             *)
Delivers ==
    /\ HandedOver \subseteq HandedOver' /\ HandedOver' \subseteq HandedOver \cup Held
    /\ Held' \subseteq Held /\ Held \subseteq Held' \cup HandedOver'
    /\ OnDisk' = OnDisk /\ GivenUp' = GivenUp /\ produced' = produced

(* An entry is accepted.                                                   *)
LEMMA DeliverStep ==
    ASSUME Delivers, Up, UNCHANGED phase
    PROVE  Delivery!Next
<1>1. DOMAIN Place' = Entries
  BY PlaceIs DEF PlaceOf
<1>2. \A e \in Entries : Place'[e] # Place[e] =>
         Place'[e] = "delivered" /\ Place[e] \in {"volatile", "durable"}
  BY PlaceIs DEF PlaceOf, Delivers, GivenUp
<1>3. Delivery!Deliver
  BY <1>1, <1>2, DeliveryFrame DEF Delivery!Deliver, Delivery!Moves
<1> QED
  BY <1>3 DEF Delivery!Next

(* A chunk file appears.                                                   *)
Stores ==
    /\ OnDisk \subseteq OnDisk' /\ OnDisk' \subseteq OnDisk \cup Held
    /\ Held' \subseteq Held /\ Held \subseteq Held' \cup OnDisk'
    /\ HandedOver' = HandedOver /\ GivenUp' = GivenUp /\ produced' = produced

(* Entries come to rest on disk.                                           *)
LEMMA StoreStep ==
    ASSUME Stores, Up, UNCHANGED phase
    PROVE  Delivery!Next
<1>1. DOMAIN Place' = Entries
  BY PlaceIs DEF PlaceOf
<1>2. \A e \in Entries : Place'[e] # Place[e] => Place'[e] = "durable" /\ Place[e] = "volatile"
  BY PlaceIs DEF PlaceOf, Stores, GivenUp
<1>3. Delivery!Store
  BY <1>1, <1>2, DeliveryFrame DEF Delivery!Store, Delivery!Moves
<1> QED
  BY <1>3 DEF Delivery!Next

(* A chunk file disappears.                                                *)
Removes ==
    /\ OnDisk' \subseteq OnDisk /\ OnDisk \subseteq OnDisk' \cup Held' \cup GivenUp' \cup HandedOver'
    /\ GivenUp \subseteq GivenUp' /\ GivenUp' \subseteq GivenUp \cup OnDisk
    /\ HandedOver' = HandedOver /\ Held' = Held /\ produced' = produced

(* Entries that are elsewhere too leave the disk.                          *)
LEMMA RemoveStep ==
    ASSUME Removes, Up, UNCHANGED phase
    PROVE  Delivery!Next
<1>1. DOMAIN Place' = Entries
  BY PlaceIs DEF PlaceOf
<1>2. \A e \in Entries : Place'[e] # Place[e] =>
         Place'[e] \in {"givenUp", "volatile"} /\ Place[e] = "durable"
  BY PlaceIs DEF PlaceOf, Removes, GivenUp
<1>3. Delivery!Remove
  BY <1>1, <1>2, DeliveryFrame DEF Delivery!Remove, Delivery!Moves
<1> QED
  BY <1>3 DEF Delivery!Next

(* A flush is given up.                                                    *)
GivesUp ==
    /\ Held' \subseteq Held /\ Held \subseteq Held' \cup GivenUp'
    /\ GivenUp \subseteq GivenUp' /\ GivenUp' \subseteq GivenUp \cup Held
    /\ HandedOver' = HandedOver /\ OnDisk' = OnDisk /\ produced' = produced

(* Entries on disk are given up.                                           *)
LEMMA GiveUpStep ==
    ASSUME GivesUp, Up, UNCHANGED phase
    PROVE  Delivery!Next
<1>1. DOMAIN Place' = Entries
  BY PlaceIs DEF PlaceOf
<1>2. \A e \in Entries : Place'[e] # Place[e] => Place'[e] = "givenUp" /\ Place[e] = "volatile"
  BY PlaceIs DEF PlaceOf, GivesUp, GivenUp
<1>3. Delivery!GiveUp
  BY <1>1, <1>2, DeliveryFrame DEF Delivery!GiveUp, Delivery!Moves
<1> QED
  BY <1>3 DEF Delivery!Next

(* A task ends with what it holds, except what was accepted before.        *)
Abandons ==
    /\ Held' \subseteq Held \cup HandedOver
    /\ HandedOver' = HandedOver /\ OnDisk' = OnDisk /\ GivenUp' = GivenUp
    /\ produced' = produced

(* Entries that were only in RAM are gone.                                 *)
LEMMA Abandoned ==
    ASSUME Abandons, Produced, produced \in Nat
    PROVE  /\ DOMAIN Place' = Entries
           /\ \A e \in Entries : Place'[e] # Place[e] =>
                 Place'[e] \in {"lost", "givenUp"} /\ Place[e] = "volatile"
           /\ Held' = {} => \A e \in Entries : Place'[e] # "volatile"
<1>1. \A e \in Entries : e \in Held => ~(e > produced)
  <2>1. \A e \in Copies : e <= produced
    BY DEF Produced
  <2> QED
    BY <2>1 DEF Copies, Entries
<1>2. DOMAIN Place' = Entries
  BY PlaceIs DEF PlaceOf
<1>3. \A e \in Entries : Place'[e] # Place[e] =>
                 Place'[e] \in {"lost", "givenUp"} /\ Place[e] = "volatile"
  BY <1>1, PlaceIs DEF PlaceOf, Abandons, GivenUp
<1>4. Held' = {} => \A e \in Entries : Place'[e] # "volatile"
  BY PlaceIs DEF PlaceOf
<1> QED
  BY <1>2, <1>3, <1>4

(* And that is a step of the abstract specification.                       *)
LEMMA AbandonStep ==
    ASSUME Abandons, Produced, produced \in Nat, phase = "signalled", UNCHANGED phase
    PROVE  Delivery!Next
<1>1. Delivery!Abandon
  BY Abandoned, DeliveryFrame DEF Delivery!Abandon, Delivery!Moves
<1> QED
  BY <1>1 DEF Delivery!Next

(* The process ends, and what was only in RAM with it.                     *)
LEMMA EndStep ==
    ASSUME Abandons, Produced, produced \in Nat, Up, phase' = "down", Held' = {}
    PROVE  Delivery!Next
<1>1. Delivery!End
  BY Abandoned, DeliveryFrame DEF Delivery!End, Delivery!Moves
<1> QED
  BY <1>1 DEF Delivery!Next

-----------------------------------------------------------------------------
(* What the steps of the pipeline change of those sets.                    *)

MemBatch  == IF tpc \in {"pubMem", "relock"} THEN ToSet(Unsent) ELSE {}
DiskBatch == IF tpc \in {"pubDisk", "relockDisk"} THEN ToSet(Unsent) ELSE {}

(* What is in RAM, piece by piece.                                         *)
LEMMA Parts ==
    /\ InRAM = ToSet(memory) \cup ToSet(flushing) \cup ToSet(todo) \cup ({hand} \ {0}) \cup MemBatch
    /\ Held = InRAM \cup ToSet(chan) \cup DiskBatch
    /\ InRAM' = ToSet(memory') \cup ToSet(flushing') \cup ToSet(todo') \cup ({hand'} \ {0}) \cup MemBatch'
    /\ Held' = InRAM' \cup ToSet(chan') \cup DiskBatch'
BY DEF InRAM, InWrite, Held, MemBatch, DiskBatch, Unsent

(* The batches depend on the tick alone.                                   *)
LEMMA BatchFrame ==
    /\ UNCHANGED <<tpc, batch, pos>> => MemBatch' = MemBatch /\ DiskBatch' = DiskBatch
    /\ tpc \notin {"pubMem", "relock"} => MemBatch = {}
    /\ tpc \notin {"pubDisk", "relockDisk"} => DiskBatch = {}
    /\ tpc' \notin {"pubMem", "relock"} => MemBatch' = {}
    /\ tpc' \notin {"pubDisk", "relockDisk"} => DiskBatch' = {}
BY DEF MemBatch, DiskBatch, Unsent

(* Each of the sets depends on its own variables alone.                    *)
LEMMA FilesFrame ==
    /\ UNCHANGED spool => OnDisk' = OnDisk
    /\ UNCHANGED handed => HandedOver' = HandedOver
    /\ UNCHANGED <<evicted, dropped>> => GivenUp' = GivenUp
BY DEF OnDisk, HandedOver, GivenUp

FilesSame == UNCHANGED <<spool, handed, evicted, dropped, produced>>

(* Nothing leaves the RAM without a trace.                                 *)
Calm == Shuffles /\ InRAM \subseteq InRAM'

(* A step is calm that keeps the files and only moves what is in RAM.      *)
LEMMA CalmMove ==
    ASSUME FilesSame, Held' = Held, InRAM \subseteq InRAM'
    PROVE  Calm
BY FilesFrame DEF FilesSame, Calm, Shuffles

(* A step that touches nothing of it is calm.                              *)
LEMMA QuietStep ==
    ASSUME FilesSame, UNCHANGED <<memory, flushing, todo, hand, chan>>,
           MemBatch' = MemBatch, DiskBatch' = DiskBatch
    PROVE  Calm
<1>1. Held' = Held /\ InRAM' = InRAM
  BY Parts
<1> QED
  BY <1>1, CalmMove

(* Steps that move no entry.                                               *)
Idles ==
    \/ IngestRelease \/ TickStart \/ NextDiskChunk \/ ListFault \/ FinishMemory \/ Backoff
    \/ (EvictPick \/ WriteTmp) /\ UNCHANGED <<produced, chan, ingestVars, tickVars, mqttVars,
                                              procVars, handed>>
    \/ ShutdownNothing \/ ShutdownFlushed \/ Connect \/ Disconnect \/ Send \/ LoopStop
    \/ Signal \/ Restart \/ UNCHANGED vars

(* The steps that touch no entry are calm.                                 *)
LEMMA IdleSteps == ASSUME IInv, Idles PROVE Calm
<1>1. FilesSame /\ UNCHANGED <<memory, flushing, todo, hand, chan>>
  BY DEF Idles, FilesSame, IngestRelease, TickStart, NextDiskChunk, ListFault, FinishMemory,
     Backoff, EvictPick, WriteTmp, ShutdownNothing, ShutdownFlushed, Connect, Disconnect, Send,
     LoopStop, Signal, Restart, vars, bufVars, diskVars, writeVars, ingestVars, tickVars,
     mqttVars, procVars, EndTick
<1>2. MemBatch' = MemBatch /\ DiskBatch' = DiskBatch
  <2>1. CASE FinishMemory
    <3>1. TaskTypeOK /\ pos = Len(batch) /\ tpc' = "idle" /\ tpc = "pubMem"
      BY <2>1 DEF IInv, TypeOK, FinishMemory, EndTick
    <3>2. ToSet(Unsent) = {}
      BY <3>1, UnsentEnds
    <3> QED
      BY <3>1, <3>2, BatchFrame DEF MemBatch
  <2>2. CASE ~FinishMemory
    <3>1. \/ UNCHANGED <<tpc, batch, pos>>
          \/ /\ tpc \in {"idle", "disk", "repush", "flushWait", "flush"}
             /\ tpc' \in {"memory", "read", "idle", "exit"}
      BY <2>2 DEF Idles, IngestRelease, TickStart, NextDiskChunk, ListFault, 
         Backoff, EvictPick, WriteTmp, ShutdownNothing, ShutdownFlushed, Connect, Disconnect,
         Send, LoopStop, Signal, Restart, vars, ingestVars, tickVars, EndTick
    <3> QED
      BY <3>1, BatchFrame
  <2> QED
    BY <2>1, <2>2
<1> QED
  BY <1>1, <1>2, QuietStep

(* Steps that move entries within the RAM.                                 *)
LEMMA RecvStep ==
    ASSUME IInv, DInv, IngestRecv
    PROVE  Calm
<1>1. FilesSame /\ UNCHANGED <<memory, flushing, todo, tpc, batch, pos>>
  BY DEF IngestRecv, FilesSame, bufVars, diskVars, writeVars, tickVars
<1>2. /\ chan \in Seq(Entries) /\ chan # <<>> /\ hand = 0
      /\ hand' = Head(chan) /\ chan' = Tail(chan)
  BY DEF IngestRecv, DInv, Settled, IInv, TypeOK, TaskTypeOK
<1>3. ToSet(chan) = {hand'} \cup ToSet(chan') /\ hand' \in Entries
  BY <1>2, MembersHead, HeadTailProperties
<1>4. {hand'} \ {0} = {hand'} /\ {hand} \ {0} = {}
  BY <1>2, <1>3 DEF Entries
<1>5. MemBatch' = MemBatch /\ DiskBatch' = DiskBatch
  BY <1>1, BatchFrame
<1>6. Held' = Held /\ InRAM \subseteq InRAM'
  BY <1>1, <1>3, <1>4, <1>5, Parts
<1> QED
  BY <1>1, <1>6, CalmMove

(* The publisher takes the lock.                                           *)
LEMMA TakeLockStep ==
    ASSUME IInv, DInv, IngestLock
    PROVE  Calm
<1>1. FilesSame /\ UNCHANGED <<memory, flushing, chan, tpc, batch, pos>>
  BY DEF IngestLock, FilesSame, diskVars, writeVars, tickVars
<1>2. /\ todo = <<>> /\ hand \in Entries /\ hand' = 0 /\ todo' = <<hand>>
  BY DEF IngestLock, DInv, Settled, IInv, TaskState
<1>3. ToSet(todo) = {} /\ ToSet(todo') = {hand}
  <2>1. <<>> \in Seq(Entries) /\ Append(<<>>, hand) = <<hand>>
    BY EmptySeq
  <2>2. ToSet(Append(<<>>, hand)) = ToSet(<<>>) \cup {hand}
    BY <1>2, <2>1, MembersAppend
  <2> QED
    BY <1>2, <2>1, <2>2, MembersEmpty
<1>4. {hand'} \ {0} = {} /\ {hand} \ {0} = {hand}
  BY <1>2 DEF Entries
<1>5. MemBatch' = MemBatch /\ DiskBatch' = DiskBatch
  BY <1>1, BatchFrame
<1>6. Held' = Held /\ InRAM \subseteq InRAM'
  BY <1>1, <1>3, <1>4, <1>5, Parts
<1> QED
  BY <1>1, <1>6, CalmMove

(* An entry goes to the memory buffer.                                     *)
LEMMA PushStep ==
    ASSUME IInv, NEW h, PushToMemory(h),
           UNCHANGED <<produced, chan, ingestVars, tickVars, mqttVars, procVars, handed>>
    PROVE  Calm
<1>1. FilesSame /\ UNCHANGED <<flushing, chan, hand, tpc, batch, pos>>
  BY DEF PushToMemory, FilesSame, diskVars, writeVars, tickVars, ingestVars
<1>2. /\ memory \in Seq(Entries) /\ todo \in Seq(Entries) /\ todo # <<>>
      /\ memory' = Append(memory, Head(todo)) /\ todo' = Tail(todo)
  BY DEF PushToMemory, IInv, TypeOK, BufferTypeOK
<1>3. ToSet(todo) = {Head(todo)} \cup ToSet(todo') /\ Head(todo) \in Entries
  BY <1>2, MembersHead, HeadTailProperties
<1>4. ToSet(memory') = ToSet(memory) \cup {Head(todo)}
  BY <1>2, <1>3, MembersAppend
<1>5. MemBatch' = MemBatch /\ DiskBatch' = DiskBatch
  BY <1>1, BatchFrame
<1>6. Held' = Held /\ InRAM \subseteq InRAM'
  BY <1>1, <1>3, <1>4, <1>5, Parts
<1> QED
  BY <1>1, <1>6, CalmMove

(* The memory buffer becomes what is to be written.                        *)
LEMMA FlushStarts ==
    ASSUME IInv, BeginFlush,
           UNCHANGED <<todo, produced, chan, ingestVars, handed>>,
           MemBatch' = MemBatch, DiskBatch' = DiskBatch
    PROVE  Calm
<1>1. FilesSame /\ UNCHANGED <<todo, chan, hand>>
  BY DEF BeginFlush, FilesSame, diskVars, ingestVars
<1>2. flushing = <<>> /\ flushing' = memory /\ memory' = <<>>
  BY DEF BeginFlush, IInv, FlushState
<1>3. ToSet(flushing) = {} /\ ToSet(flushing') = ToSet(memory) /\ ToSet(memory') = {}
  BY <1>2, MembersEmpty
<1>4. Held' = Held /\ InRAM \subseteq InRAM'
  BY <1>1, <1>3, Parts
<1> QED
  BY <1>1, <1>4, CalmMove

(* The ingestion task pushes, or the publisher pushes back.                *)
LEMMA PushSteps == ASSUME IInv, IngestPush \/ Repush PROVE Calm
<1>1. PICK h \in {"ingest", "publish"} : PushToMemory(h) \/ FlushForPush(h)
  BY DEF IngestPush, Repush
<1>2. UNCHANGED <<produced, chan, ingestVars, tickVars, mqttVars, procVars, handed>>
  BY DEF IngestPush, Repush
<1>3. CASE PushToMemory(h)
  BY <1>2, <1>3, PushStep
<1>4. CASE FlushForPush(h)
  <2>1. BeginFlush /\ UNCHANGED todo /\ UNCHANGED <<tpc, batch, pos>>
    BY <1>2, <1>4 DEF FlushForPush, tickVars
  <2>2. MemBatch' = MemBatch /\ DiskBatch' = DiskBatch
    BY <2>1, BatchFrame
  <2> QED
    BY <1>2, <2>1, <2>2, FlushStarts
<1> QED
  BY <1>1, <1>3, <1>4

(* The flush at shutdown begins.                                           *)
LEMMA LastFlush == ASSUME IInv, ShutdownFlush PROVE Calm
<1>1. BeginFlush /\ UNCHANGED <<todo, produced, chan, ingestVars, handed>>
  BY DEF ShutdownFlush
<1>2. tpc = "flushWait" /\ tpc' = "flush"
  BY DEF ShutdownFlush
<1>3. MemBatch' = MemBatch /\ DiskBatch' = DiskBatch
  BY <1>2, BatchFrame
<1> QED
  BY <1>1, <1>3, FlushStarts

(* The publisher drains the memory buffer into its batch.                  *)
LEMMA DrainStep == ASSUME IInv, DrainMemory PROVE Calm
<1>1. FilesSame /\ UNCHANGED <<flushing, todo, chan, hand, pos>>
  BY DEF DrainMemory, FilesSame, diskVars, writeVars, ingestVars
<1>2. tpc = "memory" /\ pos = 0 /\ memory' = <<>> /\ batch' = memory /\ memory \in Seq(Entries)
  BY DEF DrainMemory, IInv, TaskState, TypeOK, BufferTypeOK
<1>3. MemBatch = {} /\ DiskBatch = {} /\ ToSet(memory') = {}
  BY <1>2, BatchFrame, MembersEmpty
<1>4. MemBatch' = ToSet(memory) /\ DiskBatch' = {}
  <2>1. CASE memory = <<>>
    BY <1>3, <2>1, BatchFrame, MembersEmpty DEF DrainMemory
  <2>2. CASE memory # <<>>
    <3>1. tpc' = "pubMem"
      BY <2>2 DEF DrainMemory
    <3>2. MemBatch' = ToSet(SubSeq(memory, 0 + 1, Len(memory)))
      BY <1>1, <1>2, <3>1 DEF MemBatch, Unsent
    <3>3. ToSet(SubSeq(memory, 0 + 1, Len(memory))) = ToSet(memory)
      <4>1. Len(memory) \in Nat /\ 0 + 1 \in Nat \ {0} /\ 0 + 1 = 1
        BY <1>2, LenProperties
      <4>2. ToSet(SubSeq(memory, 0 + 1, Len(memory))) = {memory[i] : i \in 0 + 1 .. Len(memory)}
        BY <1>2, <4>1, MembersSlice
      <4>3. ToSet(memory) = {memory[i] : i \in 1 .. Len(memory)}
        BY <1>2, Members
      <4> QED
        BY <4>1, <4>2, <4>3
    <3> QED
      BY <3>1, <3>2, <3>3, BatchFrame
  <2> QED
    BY <2>1, <2>2
<1>5. Held' = Held /\ InRAM \subseteq InRAM'
  BY <1>1, <1>3, <1>4, Parts
<1> QED
  BY <1>1, <1>5, CalmMove

(* The publisher, interrupted, waits for the lock to push back.            *)
LEMMA RelockStep == ASSUME IInv, DInv, Relock PROVE Calm
<1>1. FilesSame /\ UNCHANGED <<memory, flushing, chan, hand, pos>>
  BY DEF Relock, FilesSame, diskVars, writeVars, ingestVars
<1>2. /\ tpc \in {"relock", "relockDisk"} /\ tpc' \in {"repush", "repushDisk"}
      /\ todo = <<>> /\ pos = 0 /\ batch \in Seq(Entries) /\ TaskTypeOK
  BY DEF Relock, DInv, Settled, IInv, TaskState, TypeOK, TaskTypeOK
<1>3. ToSet(todo) = {} /\ MemBatch' = {} /\ DiskBatch' = {}
  BY <1>2, BatchFrame, MembersEmpty
<1>4. ToSet(todo') = ToSet(batch)
  BY <1>2, MembersReverse DEF Relock
<1>5. ToSet(Unsent) = ToSet(batch)
  BY <1>2, UnsentEnds
<1>6. MemBatch \cup DiskBatch = ToSet(batch)
  BY <1>2, <1>5 DEF MemBatch, DiskBatch
<1>7. Held' = Held /\ InRAM \subseteq InRAM'
  BY <1>1, <1>3, <1>4, <1>6, Parts
<1> QED
  BY <1>1, <1>7, CalmMove

-----------------------------------------------------------------------------
(* Steps that move entries between RAM, disk and client.                   *)

(* The steps of a flush leave the tasks alone.                             *)
TasksSame == UNCHANGED <<produced, chan, ingestVars, tickVars, mqttVars, procVars, handed>>

(* A source sends an entry.                                                *)
LEMMA ProduceStep ==
    ASSUME IInv, Produce
    PROVE  TakesIn /\ InRAM \subseteq InRAM'
<1>1. UNCHANGED <<memory, flushing, todo, hand, tpc, batch, pos, spool, handed, evicted, dropped>>
  BY DEF Produce, bufVars, diskVars, writeVars, ingestVars, tickVars
<1>2. /\ produced' = produced + 1 /\ produced + 1 \in Entries
      /\ chan \in Seq(Entries) /\ chan' = Append(chan, produced + 1)
  BY PipelineAssumption DEF Produce, IInv, TypeOK, TaskTypeOK, ProcessTypeOK, Entries
<1>3. ToSet(chan') = ToSet(chan) \cup {produced + 1}
  BY <1>2, MembersAppend
<1>4. MemBatch' = MemBatch /\ DiskBatch' = DiskBatch
  BY <1>1, BatchFrame
<1>5. Held' = Held \cup {produced + 1} /\ InRAM' = InRAM
  BY <1>1, <1>3, <1>4, Parts
<1> QED
  BY <1>1, <1>2, <1>5, FilesFrame DEF TakesIn

(* The publisher reads the oldest chunk.                                   *)
LEMMA ReadStep ==
    ASSUME IInv, ReadChunk \/ ReadFault
    PROVE  Shuffles /\ InRAM \subseteq InRAM'
<1>1. /\ UNCHANGED <<memory, flushing, todo, hand, chan, spool, handed, evicted, produced>>
      /\ tpc = "read" /\ tpc' \in {"pubDisk", "discard"}
      /\ UNCHANGED pos
  BY DEF ReadChunk, ReadFault, bufVars, diskVars, writeVars, ingestVars
<1>2. MemBatch = {} /\ DiskBatch = {} /\ MemBatch' = {}
  BY <1>1, BatchFrame
<1>3. \/ DiskBatch' = {}
      \/ tpc' = "pubDisk" /\ path \in DOMAIN spool /\ batch' = spool[path]
  BY <1>1, BatchFrame DEF ReadChunk, ReadFault
<1>4. path \in DOMAIN spool => ToSet(spool[path]) \subseteq OnDisk
  BY DEF OnDisk
<1>5. DiskBatch' \subseteq OnDisk
  <2>1. CASE DiskBatch' = {}
    BY <2>1
  <2>2. CASE tpc' = "pubDisk" /\ path \in DOMAIN spool /\ batch' = spool[path]
    <3>1. pos' = 0
      BY <1>1 DEF IInv, TaskState
    <3>2. spool[path] \in Seq(Entries)
      BY <2>2 DEF IInv, TypeOK, FilesTypeOK
    <3>3. DiskBatch' = ToSet(SubSeq(spool[path], 0 + 1, Len(spool[path])))
      BY <2>2, <3>1 DEF DiskBatch, Unsent
    <3>4. ToSet(SubSeq(spool[path], 0 + 1, Len(spool[path]))) = ToSet(spool[path])
      <4> DEFINE s == spool[path]
      <4>1. s \in Seq(Entries)
        BY <3>2
      <4> HIDE DEF s
      <4>2. Len(s) \in Nat /\ 0 + 1 \in Nat \ {0} /\ 0 + 1 = 1
        BY <4>1, LenProperties
      <4>3. ToSet(SubSeq(s, 0 + 1, Len(s))) = {s[i] : i \in 0 + 1 .. Len(s)}
        BY <4>1, <4>2, MembersSlice
      <4>4. ToSet(s) = {s[i] : i \in 1 .. Len(s)}
        BY <4>1, Members
      <4>5. ToSet(SubSeq(s, 0 + 1, Len(s))) = ToSet(s)
        BY <4>2, <4>3, <4>4
      <4> QED
        BY <4>5 DEF s
    <3> QED
      BY <1>4, <2>2, <3>3, <3>4
  <2> QED
    BY <1>3, <2>1, <2>2
<1>6. Held' = Held \cup DiskBatch' /\ InRAM' = InRAM
  BY <1>1, <1>2, Parts
<1>7. GivenUp \subseteq GivenUp' /\ GivenUp' \subseteq GivenUp \cup OnDisk
  BY <1>1, <1>4 DEF GivenUp, ReadChunk, ReadFault, bufVars
<1> QED
  BY <1>1, <1>5, <1>6, <1>7, FilesFrame DEF Shuffles

(* The publisher hands over one entry.                                     *)
LEMMA PublishStep ==
    ASSUME IInv, PublishEntry
    PROVE  Delivers /\ InRAM \subseteq InRAM' \cup HandedOver'
<1> DEFINE x == batch[pos + 1]
<1>1. /\ UNCHANGED <<memory, flushing, todo, hand, chan, spool, evicted, dropped, produced, tpc, batch>>
      /\ pos' = pos + 1 /\ pos < Len(batch) /\ TaskTypeOK /\ Publishing
      /\ handed' = [handed EXCEPT ![x] = @ + 1]
      /\ handed \in [Entries -> Nat]
  BY DEF PublishEntry, bufVars, diskVars, writeVars, ingestVars, IInv, TypeOK, ProcessTypeOK
<1>2. /\ ToSet(Unsent) = {batch[i] : i \in pos + 1 .. Len(batch)}
      /\ Len(batch) \in Nat /\ pos \in 0 .. Len(batch)
      /\ \A i \in 1 .. Len(batch) : batch[i] \in Entries
      /\ batch \in Seq(Entries)
  BY <1>1, UnsentMembers DEF TaskTypeOK
<1>3. x \in Entries /\ x \in ToSet(Unsent)
  BY <1>1, <1>2
<1>4. ToSet(Unsent') = {batch[i] : i \in (pos + 1) + 1 .. Len(batch)}
  <2>1. (pos + 1) + 1 \in Nat \ {0}
    BY <1>2
  <2>2. ToSet(SubSeq(batch, (pos + 1) + 1, Len(batch))) = {batch[i] : i \in (pos + 1) + 1 .. Len(batch)}
    BY <1>2, <2>1, MembersSlice
  <2>3. Unsent' = SubSeq(batch, (pos + 1) + 1, Len(batch))
    BY <1>1 DEF Unsent
  <2> QED
    BY <2>2, <2>3
<1>5. pos + 1 .. Len(batch) = {pos + 1} \cup ((pos + 1) + 1 .. Len(batch))
  BY <1>1, <1>2
<1>6. ToSet(Unsent) = {x} \cup ToSet(Unsent')
  BY <1>2, <1>4, <1>5
<1>7. HandedOver' = HandedOver \cup {x}
  <2>1. handed'[x] = handed[x] + 1 /\ handed[x] \in Nat
    BY <1>1, <1>3
  <2>2. \A e \in Entries : e # x => handed'[e] = handed[e]
    BY <1>1
  <2> HIDE DEF x
  <2>3. x \in HandedOver'
    BY <1>3, <2>1 DEF HandedOver
  <2>4. \A e \in Entries : e # x => (e \in HandedOver' <=> e \in HandedOver)
    BY <2>2 DEF HandedOver
  <2>5. HandedOver \subseteq Entries /\ HandedOver' \subseteq Entries
    BY DEF HandedOver
  <2> QED
    BY <1>3, <2>3, <2>4, <2>5
<1> HIDE DEF x
<1>8. \/ /\ MemBatch = ToSet(Unsent) /\ MemBatch' = ToSet(Unsent')
         /\ DiskBatch = {} /\ DiskBatch' = {}
      \/ /\ DiskBatch = ToSet(Unsent) /\ DiskBatch' = ToSet(Unsent')
         /\ MemBatch = {} /\ MemBatch' = {}
  <2>1. CASE tpc = "pubMem"
    BY <1>1, <2>1 DEF MemBatch, DiskBatch
  <2>2. CASE tpc = "pubDisk"
    BY <1>1, <2>2 DEF MemBatch, DiskBatch
  <2> QED
    BY <1>1, <2>1, <2>2 DEF Publishing
<1>9. /\ ToSet(Unsent) \subseteq Held
      /\ Held' \subseteq Held /\ Held \subseteq Held' \cup {x}
      /\ InRAM \subseteq InRAM' \cup {x}
  BY <1>1, <1>6, <1>8, Parts
<1>10. OnDisk' = OnDisk /\ GivenUp' = GivenUp /\ produced' = produced
  BY <1>1, FilesFrame
<1> QED
  BY <1>3, <1>7, <1>9, <1>10 DEF Delivers

(* A deletion takes at most the entries of that file.                      *)
LEMMA DeletedFile ==
    ASSUME DeleteChunk
    PROVE  /\ OnDisk' \subseteq OnDisk
           /\ path \notin DOMAIN spool => OnDisk' = OnDisk
           /\ path \in DOMAIN spool => OnDisk \subseteq OnDisk' \cup ToSet(spool[path])
           /\ Elsewhere \subseteq OnDisk'
           /\ DOMAIN spool' \subseteq DOMAIN spool
<1>1. CASE UNCHANGED spool
  <2>1. OnDisk' = OnDisk /\ DOMAIN spool' \subseteq DOMAIN spool
    BY <1>1, FilesFrame
  <2>2. Elsewhere \subseteq OnDisk
    BY DEF Elsewhere, OnDisk
  <2> QED
    BY <2>1, <2>2
<1>2. CASE spool' = Without(spool, path)
  <2>1. OnDisk' = UNION {ToSet(spool[n]) : n \in DOMAIN spool \ {path}}
    <3>1. OnDisk' = UNION {ToSet(spool'[n]) : n \in DOMAIN spool'}
      BY DEF OnDisk
    <3>2. DOMAIN spool' = DOMAIN spool \ {path} /\ \A n \in DOMAIN spool' : spool'[n] = spool[n]
      BY <1>2 DEF Without
    <3> QED
      BY <3>1, <3>2
  <2>2. DOMAIN spool' \subseteq DOMAIN spool
    BY <1>2 DEF Without
  <2> QED
    BY <2>1, <2>2 DEF Elsewhere, OnDisk
<1> QED
  BY <1>1, <1>2 DEF DeleteChunk, DeleteFile

(* Whatever the publisher deletes is dispensable.                          *)
LEMMA DeleteStep ==
    ASSUME IInv, DInv, FinishDisk \/ Discard \/ DeletePartial
    PROVE  /\ Removes /\ InRAM' = InRAM
           /\ OnDisk \subseteq OnDisk' \cup InRAM' \cup GivenUp' \cup HandedOver'
<1>1. /\ UNCHANGED <<memory, flushing, todo, hand, chan, evicted, dropped, produced, handed>>
      /\ DeleteChunk /\ tpc' = "idle" /\ batch' = <<>>
      /\ tpc \in {"pubDisk", "discard", "repushDisk"}
      /\ tpc = "pubDisk" => pos = Len(batch)
      /\ tpc = "repushDisk" => Repushed
  BY DEF FinishDisk, Discard, DeletePartial, EndTick, diskVars, writeVars, ingestVars
<1>2. TaskTypeOK /\ FlushState /\ ChunkRead /\ Dispensable /\ Accepted
  BY DEF IInv, TypeOK, DInv
<1>3. MemBatch = {} /\ MemBatch' = {} /\ DiskBatch' = {} /\ DiskBatch = {}
  BY <1>1, <1>2, BatchFrame, UnsentEnds DEF DiskBatch
<1>4. Held' = Held /\ InRAM' = InRAM
  BY <1>1, <1>3, Parts
<1>5. HandedOver' = HandedOver /\ GivenUp' = GivenUp
  BY <1>1, FilesFrame
<1>6. path \in DOMAIN spool => ToSet(spool[path]) \subseteq OnDisk' \cup InRAM \cup GivenUp \cup HandedOver
  <2>1. ASSUME path \in DOMAIN spool, tpc = "pubDisk"
        PROVE  ToSet(spool[path]) \subseteq HandedOver
    <3>1. spool[path] = batch /\ pos = Len(batch) /\ Publishing
      BY <1>1, <1>2, <2>1 DEF ChunkRead, Publishing
    <3>2. \A i \in 1 .. pos : handed[batch[i]] > 0
      BY <1>2, <3>1 DEF Accepted
    <3>3. /\ ToSet(batch) = {batch[i] : i \in 1 .. Len(batch)}
          /\ \A i \in 1 .. Len(batch) : batch[i] \in Entries
      BY <1>2, UnsentMembers
    <3> QED
      BY <3>1, <3>2, <3>3 DEF HandedOver
  <2>2. ASSUME path \in DOMAIN spool, tpc = "discard"
        PROVE  ToSet(spool[path]) \subseteq GivenUp
    BY <1>2, <2>2 DEF Dispensable, GivenUp
  <2>3. ASSUME path \in DOMAIN spool, tpc = "repushDisk"
        PROVE  ToSet(spool[path]) \subseteq OnDisk' \cup InRAM \cup GivenUp \cup HandedOver
    <3>1. ToSet(spool[path]) \subseteq
             HandedOver \cup ToSet(todo) \cup ToSet(memory) \cup InWrite \cup Elsewhere
                \cup evicted \cup dropped
      BY <1>2, <2>3 DEF Dispensable
    <3>2. Elsewhere \subseteq OnDisk'
      BY <1>1, DeletedFile
    <3> QED
      BY <3>1, <3>2, Parts DEF InWrite, GivenUp
  <2> QED
    BY <1>1, <2>1, <2>2, <2>3
<1>7. OnDisk' \subseteq OnDisk /\ OnDisk \subseteq OnDisk' \cup InRAM \cup GivenUp \cup HandedOver
  BY <1>1, <1>6, DeletedFile
<1>8. InRAM' \subseteq Held'
  BY Parts
<1> QED
  BY <1>1, <1>4, <1>5, <1>7, <1>8 DEF Removes

(* A publication that fails, when the event loop is gone.                  *)
LEMMA FailStep ==
    ASSUME IInv, DInv, PublishFailMemory \/ PublishFailDisk
    PROVE  /\ Abandons /\ phase = "signalled" /\ UNCHANGED phase
           /\ tpc # "pubMem" => InRAM \subseteq InRAM'
<1>1. /\ UNCHANGED <<memory, flushing, todo, hand, chan, spool, evicted, dropped, produced, handed, phase>>
      /\ Publishing /\ ~loopAlive /\ pos' = 0
      /\ tpc' \in {"relock", "relockDisk", "idle"}
  BY DEF PublishFailMemory, PublishFailDisk, EndTick, bufVars, diskVars, writeVars, ingestVars,
     procVars, Publishing
<1>2. TaskTypeOK /\ TaskTypeOK' /\ Accepted /\ phase = "signalled"
  <2>1. TaskTypeOK /\ Accepted /\ Settled
    BY DEF DInv, IInv, TypeOK
  <2>2. TaskTypeOK'
    <3>1. Next
      BY DEF Next, Tick
    <3> QED
      BY <3>1, StepIInv DEF IInv, TypeOK
  <2> QED
    BY <1>1, <2>1, <2>2 DEF Settled
<1>3. ToSet(UnpublishedTail) \subseteq HandedOver \cup ToSet(Unsent)
  <2>1. ToSet(UnpublishedTail) \subseteq {batch[i] : i \in 1 .. pos} \cup ToSet(Unsent)
    BY <1>2, TailMembers
  <2>2. /\ pos \in 0 .. Len(batch) /\ Len(batch) \in Nat
        /\ \A i \in 1 .. Len(batch) : batch[i] \in Entries
    BY <1>2, UnsentMembers
  <2>3. \A i \in 1 .. pos : batch[i] \in HandedOver
    BY <1>1, <1>2, <2>2 DEF Accepted, HandedOver
  <2> QED
    BY <2>1, <2>3
<1>4. MemBatch' \cup DiskBatch' \subseteq ToSet(UnpublishedTail)
  <2>1. CASE tpc' = "idle"
    BY <2>1, BatchFrame
  <2>2. CASE tpc' # "idle"
    <3>1. batch' = FailedSlice \/ batch' = UnpublishedTail
      BY <2>2 DEF PublishFailMemory, PublishFailDisk, EndTick
    <3>2. ToSet(batch') \subseteq ToSet(UnpublishedTail)
      BY <1>2, <3>1, TailMembers
    <3>3. ToSet(Unsent') \subseteq ToSet(batch')
      BY <1>2, UnsentPrime
    <3> QED
      BY <3>2, <3>3 DEF MemBatch, DiskBatch
  <2> QED
    BY <2>1, <2>2
<1>5. ToSet(Unsent) = MemBatch \cup DiskBatch
  BY <1>1 DEF Publishing, MemBatch, DiskBatch
<1>6. Held' \subseteq Held \cup HandedOver
  BY <1>1, <1>3, <1>4, <1>5, Parts
<1>7. ASSUME tpc # "pubMem" PROVE InRAM \subseteq InRAM'
  <2>1. MemBatch = {}
    BY <1>1, <1>7, BatchFrame DEF Publishing
  <2> QED
    BY <1>1, <2>1, Parts
<1> QED
  BY <1>1, <1>2, <1>6, <1>7, FilesFrame DEF Abandons

(* The oldest chunk is evicted.                                            *)
LEMMA EvictStep ==
    ASSUME IInv, EvictRemove, TasksSame
    PROVE  /\ Removes /\ InRAM' = InRAM
           /\ OnDisk \subseteq OnDisk' \cup GivenUp'
<1>1. /\ UNCHANGED <<memory, flushing, todo, hand, chan, tpc, batch, pos, dropped, produced, handed>>
      /\ target \in DOMAIN spool /\ spool' = Without(spool, target)
      /\ evicted' = evicted \cup ToSet(spool[target])
  BY DEF EvictRemove, TasksSame, ingestVars, tickVars
<1>2. OnDisk' \subseteq OnDisk /\ OnDisk \subseteq OnDisk' \cup ToSet(spool[target])
      /\ ToSet(spool[target]) \subseteq OnDisk
  <2>1. DOMAIN spool' = DOMAIN spool \ {target} /\ \A n \in DOMAIN spool' : spool'[n] = spool[n]
    BY <1>1 DEF Without
  <2>2. OnDisk' = UNION {ToSet(spool'[n]) : n \in DOMAIN spool'}
    BY DEF OnDisk
  <2>3. OnDisk' = UNION {ToSet(spool[n]) : n \in DOMAIN spool \ {target}}
    BY <2>1, <2>2
  <2> QED
    BY <1>1, <2>3 DEF OnDisk
<1>3. MemBatch' = MemBatch /\ DiskBatch' = DiskBatch
  BY <1>1, BatchFrame
<1>4. Held' = Held /\ InRAM' = InRAM
  BY <1>1, <1>3, Parts
<1>5. HandedOver' = HandedOver /\ produced' = produced
  BY <1>1, FilesFrame
<1>6. GivenUp' = GivenUp \cup ToSet(spool[target])
  BY <1>1 DEF GivenUp
<1> QED
  BY <1>2, <1>4, <1>5, <1>6 DEF Removes

(* A chunk is complete.                                                    *)
LEMMA RenameStep ==
    ASSUME IInv, DInv, RenameChunk, TasksSame
    PROVE  Stores /\ InRAM \subseteq InRAM' \cup OnDisk'
<1>1. /\ UNCHANGED <<memory, todo, hand, chan, tpc, batch, pos, evicted, dropped, produced, handed>>
      /\ stage = "rename" /\ spool' = With(spool, target, tmp[target])
      /\ flushing' = AfterChunk(flushing) /\ flushing \in Seq(Entries)
  BY DEF RenameChunk, TasksSame, ingestVars, tickVars, IInv, TypeOK, BufferTypeOK
<1>2. target \notin DOMAIN spool /\ tmp[target] = FirstChunk(flushing)
  BY <1>1 DEF DInv, SInv, RenameInv
<1>3. OnDisk' = OnDisk \cup ToSet(FirstChunk(flushing))
  <2>1. OnDisk' = UNION {ToSet(spool'[n]) : n \in DOMAIN spool'}
    BY DEF OnDisk
  <2>2. spool' = With(spool, target, FirstChunk(flushing))
    BY <1>1, <1>2
  <2> QED
    BY <1>2, <2>1, <2>2, DiskWith DEF OnDisk
<1>4. ToSet(flushing) = ToSet(FirstChunk(flushing)) \cup ToSet(flushing')
  BY <1>1, MembersChunk
<1>5. MemBatch' = MemBatch /\ DiskBatch' = DiskBatch
  BY <1>1, BatchFrame
<1>6. /\ Held' \subseteq Held /\ Held \subseteq Held' \cup OnDisk' /\ OnDisk' \subseteq OnDisk \cup Held
      /\ InRAM \subseteq InRAM' \cup OnDisk'
  BY <1>1, <1>3, <1>4, <1>5, Parts
<1>7. HandedOver' = HandedOver /\ GivenUp' = GivenUp
  BY <1>1, FilesFrame
<1> QED
  BY <1>1, <1>3, <1>6, <1>7 DEF Stores

(* A flush is aborted.                                                     *)
LEMMA AbortStep ==
    ASSUME IInv, EvictGone \/ WriteFault, TasksSame
    PROVE  GivesUp /\ InRAM \subseteq InRAM' \cup GivenUp'
<1>1. /\ UNCHANGED <<memory, hand, chan, tpc, batch, pos, spool, evicted, produced, handed>>
      /\ flushing' = <<>> /\ todo \in Seq(Entries)
      /\ dropped' = dropped \cup ToSet(flushing) \cup (IF todo = <<>> THEN {} ELSE {Head(todo)})
      /\ todo' = IF todo = <<>> THEN <<>> ELSE Tail(todo)
  BY DEF EvictGone, WriteFault, AbortFlush, TasksSame, ingestVars, tickVars, diskVars, InWrite,
     IInv, TypeOK, BufferTypeOK
<1> DEFINE one == IF todo = <<>> THEN {} ELSE {Head(todo)}
<1>2. ToSet(todo) = one \cup ToSet(todo')
  BY <1>1, MembersHead, MembersEmpty
<1> HIDE DEF one
<1>3. ToSet(flushing') = {}
  BY <1>1, MembersEmpty
<1>4. GivenUp' = GivenUp \cup ToSet(flushing) \cup one
  BY <1>1 DEF GivenUp, one
<1>5. MemBatch' = MemBatch /\ DiskBatch' = DiskBatch
  BY <1>1, BatchFrame
<1>6. /\ Held' \subseteq Held /\ Held \subseteq Held' \cup GivenUp'
      /\ GivenUp' \subseteq GivenUp \cup Held
      /\ InRAM \subseteq InRAM' \cup GivenUp'
  BY <1>1, <1>2, <1>3, <1>4, <1>5, Parts
<1>7. HandedOver' = HandedOver /\ OnDisk' = OnDisk
  BY <1>1, FilesFrame
<1> QED
  BY <1>1, <1>4, <1>6, <1>7 DEF GivesUp

(* The shutdown signal takes the place of what a task waits for.           *)
LEMMA CancelStep ==
    ASSUME IInv, CancelTick \/ IngestStop
    PROVE  /\ Abandons /\ phase = "signalled" /\ UNCHANGED phase
           /\ tpc \notin {"pubMem", "relock"} => InRAM \subseteq InRAM'
<1>1. /\ UNCHANGED <<memory, flushing, todo, hand, spool, evicted, dropped, produced, handed, phase>>
      /\ phase = "signalled"
      /\ \/ UNCHANGED <<tpc, batch, pos>> /\ chan' = <<>>
         \/ tpc' = "flushWait" /\ UNCHANGED chan
  BY DEF CancelTick, IngestStop, bufVars, diskVars, writeVars, ingestVars, tickVars, procVars
<1>2. ToSet(chan') \subseteq ToSet(chan)
  BY <1>1, MembersEmpty
<1>3. MemBatch' \subseteq MemBatch /\ DiskBatch' \subseteq DiskBatch
  BY <1>1, BatchFrame
<1>4. Held' \subseteq Held
  BY <1>1, <1>2, <1>3, Parts
<1>5. tpc \notin {"pubMem", "relock"} => InRAM \subseteq InRAM'
  BY <1>1, BatchFrame, Parts
<1> QED
  BY <1>1, <1>4, <1>5, FilesFrame DEF Abandons

(* The process ends: nothing is held any more.                             *)
LEMMA VanishStep ==
    ASSUME Vanish
    PROVE  /\ Abandons /\ Held' = {} /\ phase' = "down" /\ OnDisk' = OnDisk
<1>1. /\ UNCHANGED <<spool, evicted, dropped, produced, handed>>
      /\ memory' = <<>> /\ flushing' = <<>> /\ todo' = <<>> /\ chan' = <<>> /\ hand' = 0
      /\ tpc' = "idle" /\ phase' = "down"
  BY DEF Vanish, FreshBuffer, EndTick, diskVars
<1>2. MemBatch' = {} /\ DiskBatch' = {}
  BY <1>1, BatchFrame
<1>3. Held' = {}
  BY <1>1, <1>2, Parts, MembersEmpty
<1> QED
  BY <1>1, <1>3, FilesFrame DEF Abandons

-----------------------------------------------------------------------------
(* Every step is of one of these kinds.                                    *)

Kind ==
    \/ Shuffles /\ (UNCHANGED phase \/ Signal \/ Restart)
    \/ TakesIn /\ Up /\ UNCHANGED phase
    \/ Delivers /\ Up /\ UNCHANGED phase
    \/ Stores /\ Up /\ UNCHANGED phase
    \/ Removes /\ Up /\ UNCHANGED phase
    \/ GivesUp /\ Up /\ UNCHANGED phase
    \/ Abandons /\ phase = "signalled" /\ UNCHANGED phase
    \/ Abandons /\ Held' = {} /\ Up /\ phase' = "down"

Keeps ==
    \/ phase' = "down"
    \/ phase = "signalled" /\ tpc \in {"pubMem", "relock"}
    \/ Accounted \subseteq Accounted'

Survives == OnDisk \subseteq OnDisk' \cup InRAM' \cup GivenUp' \cup HandedOver'

Effect == Kind /\ Keeps /\ Survives

(* What is accounted for, by those sets.                                   *)
LEMMA AccountedIs ==
    /\ Accounted = InRAM \cup OnDisk \cup HandedOver \cup GivenUp
    /\ Accounted' = InRAM' \cup OnDisk' \cup HandedOver' \cup GivenUp'
BY DEF Accounted, GivenUp

(* A calm step is accounted for.                                           *)
LEMMA CalmEffect == ASSUME Calm, UNCHANGED phase \/ Signal \/ Restart PROVE Effect
BY AccountedIs DEF Calm, Shuffles, Effect, Kind, Keeps, Survives

(* Whoever works, works in a process that is up.                           *)
LEMMA WorkingMeansUp ==
    ASSUME IInv, DInv, tpc # "idle" \/ lock # "free"
    PROVE  Up
BY DEF DInv, Settled, Up

(* Every step of the ingestion task is accounted for.                      *)
LEMMA IngestEffect == ASSUME IInv, DInv, IngestTask PROVE Effect
<1>1. UNCHANGED phase
  BY DEF IngestTask, IngestRecv, IngestLock, IngestPush, IngestRelease, IngestStop, procVars
<1>2. CASE IngestRecv
  BY <1>1, <1>2, RecvStep, CalmEffect
<1>3. CASE IngestLock
  BY <1>1, <1>3, TakeLockStep, CalmEffect
<1>4. CASE IngestPush
  BY <1>1, <1>4, PushSteps, CalmEffect
<1>5. CASE IngestRelease
  BY <1>1, <1>5, IdleSteps, CalmEffect DEF Idles
<1>6. CASE IngestStop
  <2>1. Abandons /\ phase = "signalled" /\ (tpc \notin {"pubMem", "relock"} => InRAM \subseteq InRAM')
    BY <1>6, CancelStep
  <2> QED
    BY <1>1, <2>1, AccountedIs DEF Abandons, Effect, Kind, Keeps, Survives
<1> QED
  BY <1>2, <1>3, <1>4, <1>5, <1>6 DEF IngestTask

(* Every step of a flush is accounted for.                                 *)
LEMMA WriteEffect == ASSUME IInv, DInv, Write PROVE Effect
<1>1. TasksSame /\ UNCHANGED phase
  BY DEF Write, TasksSame, procVars
<1>2. Up
  <2>1. stage # "none"
    BY DEF Write, FlushStep, EvictPick, EvictRemove, EvictGone, WriteTmp, RenameChunk, WriteFault
  <2> QED
    BY <2>1, WorkingMeansUp DEF IInv, FlushState
<1>3. CASE EvictPick \/ WriteTmp
  <2>1. Idles
    BY <1>1, <1>3 DEF Idles, TasksSame
  <2> QED
    BY <1>1, <2>1, IdleSteps, CalmEffect
<1>4. CASE EvictRemove
  <2>1. Removes /\ InRAM' = InRAM /\ OnDisk \subseteq OnDisk' \cup GivenUp'
    BY <1>1, <1>4, EvictStep
  <2> QED
    BY <1>1, <1>2, <2>1, AccountedIs DEF Removes, Effect, Kind, Keeps, Survives
<1>5. CASE RenameChunk
  <2>1. Stores /\ InRAM \subseteq InRAM' \cup OnDisk'
    BY <1>1, <1>5, RenameStep
  <2> QED
    BY <1>1, <1>2, <2>1, AccountedIs DEF Stores, Effect, Kind, Keeps, Survives
<1>6. CASE EvictGone \/ WriteFault
  <2>1. GivesUp /\ InRAM \subseteq InRAM' \cup GivenUp'
    BY <1>1, <1>6, AbortStep
  <2> QED
    BY <1>1, <1>2, <2>1, AccountedIs DEF GivesUp, Effect, Kind, Keeps, Survives
<1> QED
  BY <1>3, <1>4, <1>5, <1>6 DEF Write, FlushStep

(* Every step of the publisher is accounted for.                           *)
LEMMA TickEffect == ASSUME IInv, DInv, Tick PROVE Effect
<1>1. UNCHANGED phase
  BY DEF Tick, TickStart, DrainMemory, NextDiskChunk, ListFault, ReadChunk, ReadFault,
     PublishEntry, FinishMemory, FinishDisk, Discard, PublishFailMemory, PublishFailDisk,
     Relock, Repush, Backoff, DeletePartial, procVars
<1>2. CASE TickStart \/ NextDiskChunk \/ ListFault \/ FinishMemory \/ Backoff
  BY <1>1, <1>2, IdleSteps, CalmEffect DEF Idles
<1>3. CASE DrainMemory
  BY <1>1, <1>3, DrainStep, CalmEffect
<1>4. CASE Relock
  BY <1>1, <1>4, RelockStep, CalmEffect
<1>5. CASE Repush
  BY <1>1, <1>5, PushSteps, CalmEffect
<1>6. CASE ReadChunk \/ ReadFault
  <2>1. Calm
    BY <1>6, ReadStep DEF Calm
  <2> QED
    BY <1>1, <2>1, CalmEffect
<1>7. CASE PublishEntry
  <2>1. Delivers /\ InRAM \subseteq InRAM' \cup HandedOver'
    BY <1>7, PublishStep
  <2>2. Up
    BY <1>7, WorkingMeansUp DEF PublishEntry, Publishing
  <2> QED
    BY <1>1, <2>1, <2>2, AccountedIs DEF Delivers, Effect, Kind, Keeps, Survives
<1>8. CASE FinishDisk \/ Discard \/ DeletePartial
  <2>1. /\ Removes /\ InRAM' = InRAM
        /\ OnDisk \subseteq OnDisk' \cup InRAM' \cup GivenUp' \cup HandedOver'
    BY <1>8, DeleteStep
  <2>2. Up
    BY <1>8, WorkingMeansUp DEF FinishDisk, Discard, DeletePartial
  <2> QED
    BY <1>1, <2>1, <2>2, AccountedIs DEF Removes, Effect, Kind, Keeps, Survives
<1>9. CASE PublishFailMemory \/ PublishFailDisk
  <2>1. Abandons /\ phase = "signalled" /\ (tpc # "pubMem" => InRAM \subseteq InRAM')
    BY <1>9, FailStep
  <2> QED
    BY <1>1, <2>1, AccountedIs DEF Abandons, Effect, Kind, Keeps, Survives
<1> QED
  BY <1>2, <1>3, <1>4, <1>5, <1>6, <1>7, <1>8, <1>9 DEF Tick

(* The end of the process abandons what was only in RAM.                   *)
LEMMA VanishEffect == ASSUME Vanish, Up PROVE Effect
<1>1. Abandons /\ Held' = {} /\ phase' = "down" /\ OnDisk' = OnDisk
  BY VanishStep
<1> QED
  BY <1>1 DEF Abandons, Effect, Kind, Keeps, Survives

(* Every step of the shutdown is accounted for.                            *)
LEMMA ShutdownEffect == ASSUME IInv, DInv, Shutdown PROVE Effect
<1>1. CASE CancelTick
  <2>1. /\ Abandons /\ phase = "signalled" /\ UNCHANGED phase
        /\ tpc \notin {"pubMem", "relock"} => InRAM \subseteq InRAM'
    BY <1>1, CancelStep
  <2> QED
    BY <2>1, AccountedIs DEF Abandons, Effect, Kind, Keeps, Survives
<1>2. CASE ShutdownFlush
  <2>1. UNCHANGED phase
    BY <1>2 DEF ShutdownFlush, procVars
  <2> QED
    BY <1>2, <2>1, LastFlush, CalmEffect
<1>3. CASE ShutdownNothing \/ ShutdownFlushed
  <2>1. UNCHANGED phase
    BY <1>3 DEF ShutdownNothing, ShutdownFlushed, procVars
  <2> QED
    BY <1>3, <2>1, IdleSteps, CalmEffect DEF Idles
<1>4. CASE Exit
  <2>1. Up
    BY <1>4, WorkingMeansUp DEF Exit
  <2> QED
    BY <1>4, <2>1, VanishEffect DEF Exit
<1> QED
  BY <1>1, <1>2, <1>3, <1>4 DEF Shutdown

(* Every step of the pipeline is accounted for.                            *)
LEMMA StepEffect == ASSUME IInv, DInv, [Next]_vars PROVE Effect
<1>1. CASE EventLoop
  <2>1. UNCHANGED phase
    BY <1>1 DEF EventLoop, Connect, Disconnect, Send, LoopStop, procVars
  <2> QED
    BY <1>1, <2>1, IdleSteps, CalmEffect DEF Idles, EventLoop
<1>2. CASE Produce
  <2>1. TakesIn /\ InRAM \subseteq InRAM'
    BY <1>2, ProduceStep
  <2>2. Up /\ UNCHANGED phase
    BY <1>2 DEF Produce, procVars
  <2> QED
    BY <2>1, <2>2, AccountedIs DEF TakesIn, Effect, Kind, Keeps, Survives
<1>3. CASE Signal \/ Restart
  BY <1>3, IdleSteps, CalmEffect DEF Idles
<1>4. CASE Crash
  BY <1>4, VanishEffect DEF Crash
<1>5. CASE UNCHANGED vars
  <2>1. UNCHANGED phase
    BY <1>5 DEF vars, procVars
  <2> QED
    BY <1>5, <2>1, IdleSteps, CalmEffect DEF Idles
<1> QED
  BY <1>1, <1>2, <1>3, <1>4, <1>5, IngestEffect, WriteEffect, TickEffect, ShutdownEffect
     DEF Next, Environment

(* What is anywhere is an entry.                                           *)
LEMMA CopiesType == ASSUME IInv PROVE Copies \subseteq Entries
<1>1. FilesTypeOK /\ BufferTypeOK /\ TaskTypeOK
  BY DEF IInv, TypeOK
<1>2. OnDisk \subseteq Entries
  <2>1. \A n \in DOMAIN spool : spool[n] \in Seq(Entries)
    BY <1>1 DEF FilesTypeOK
  <2>2. \A n \in DOMAIN spool : ToSet(spool[n]) \subseteq Entries
    BY <2>1, ToSetType
  <2> QED
    BY <2>2 DEF OnDisk
<1>3. /\ ToSet(memory) \subseteq Entries /\ ToSet(flushing) \subseteq Entries
      /\ ToSet(todo) \subseteq Entries
  BY <1>1, ToSetType DEF BufferTypeOK
<1>4. ToSet(chan) \subseteq Entries /\ ToSet(batch) \subseteq Entries
  BY <1>1, ToSetType DEF TaskTypeOK
<1>5. MemBatch \subseteq Entries /\ DiskBatch \subseteq Entries
  BY <1>1, <1>4, UnsentEnds DEF MemBatch, DiskBatch
<1>6. {hand} \ {0} \subseteq Entries
  BY <1>1 DEF TaskTypeOK
<1>7. Held \subseteq Entries
  BY <1>3, <1>4, <1>5, <1>6, Parts
<1>8. evicted \cup dropped \cup HandedOver \subseteq Entries
  BY <1>1 DEF FilesTypeOK, HandedOver
<1> QED
  BY <1>2, <1>7, <1>8 DEF Copies

-----------------------------------------------------------------------------
(* The invariant is inductive, as long as a chunk fits.                    *)
LEMMA ProducedStep == ASSUME IInv, DInv, [Next]_vars PROVE Produced'
<1>1. produced \in Nat /\ \A e \in Copies : e <= produced
  BY DEF DInv, Produced, IInv, TypeOK, ProcessTypeOK
<1>2. Kind
  BY StepEffect DEF Effect
<1>3. /\ Copies = OnDisk \cup Held \cup GivenUp \cup HandedOver
      /\ Copies' = OnDisk' \cup Held' \cup GivenUp' \cup HandedOver'
  BY DEF Copies, GivenUp
<1>4. \/ Copies' \subseteq Copies /\ produced' = produced
      \/ Copies' \subseteq Copies \cup {produced + 1} /\ produced' = produced + 1
  <2>1. CASE Shuffles
    BY <1>3, <2>1 DEF Shuffles
  <2>2. CASE TakesIn
    BY <1>3, <2>2 DEF TakesIn
  <2>3. CASE Delivers
    BY <1>3, <2>3 DEF Delivers
  <2>4. CASE Stores
    BY <1>3, <2>4 DEF Stores
  <2>5. CASE Removes
    BY <1>3, <2>5 DEF Removes
  <2>6. CASE GivesUp
    BY <1>3, <2>6 DEF GivesUp
  <2>7. CASE Abandons
    BY <1>3, <2>7 DEF Abandons
  <2> QED
    BY <1>2, <2>1, <2>2, <2>3, <2>4, <2>5, <2>6, <2>7 DEF Kind
<1>5. \A e \in Copies' : e <= produced'
  <2>1. CASE Copies' \subseteq Copies /\ produced' = produced
    BY <1>1, <2>1
  <2>2. CASE Copies' \subseteq Copies \cup {produced + 1} /\ produced' = produced + 1
    <3>1. ASSUME NEW e \in Copies' PROVE e <= produced + 1
      <4>1. CASE e = produced + 1
        BY <1>1, <4>1
      <4>2. CASE e \in Copies
        <5>1. e \in Int
          BY <4>2, CopiesType DEF Entries
        <5> QED
          BY <1>1, <4>2, <5>1
      <4> QED
        BY <2>2, <3>1, <4>1, <4>2
    <3> QED
      BY <2>2, <3>1
  <2> QED
    BY <1>4, <2>1, <2>2
<1> QED
  BY <1>5 DEF Produced

(* A single chunk cannot fill a spool it fits in.                          *)
LEMMA OneChunk ==
    ASSUME IInv, DInv, Fits, stage = "check", SpoolFull, NEW n \in DOMAIN spool
    PROVE  DOMAIN spool # {n}
<1> SUFFICES ASSUME DOMAIN spool = {n} PROVE FALSE
  OBVIOUS
<1>1. /\ spool[n] \in Seq(Entries) /\ Len(spool[n]) <= ChunkMax /\ IsFiniteSet(Slots(spool))
  BY DEF IInv, TypeOK, FilesTypeOK, ChunksBounded, DInv, SInv
<1>2. Size(spool) = Size(Without(spool, n)) + Len(spool[n])
  BY <1>1, SizeWithout
<1>3. Size(Without(spool, n)) = 0
  <2>1. DOMAIN Without(spool, n) = {}
    BY DEF Without
  <2>2. Slots(Without(spool, n)) = {}
    BY <2>1 DEF Slots
  <2> QED
    BY <2>2, FS_EmptySet DEF Size
<1>4. Size(tmp) \in Nat /\ Len(spool[n]) \in Nat
  BY <1>1, OrphansAre, LenProperties DEF DInv
<1>5. OtherBytes + Size(spool) + Size(tmp) > SpoolMax
  BY DEF SpoolFull, TotalSpoolBytes, Size
<1>6. OtherBytes + Size(tmp) + ChunkMax <= SpoolMax
  BY DEF Fits
<1> QED
  BY <1>1, <1>2, <1>3, <1>4, <1>5, <1>6, ConfigAssumption

(* A tick takes up a chunk only under the free lock, and keeps to it.      *)
LEMMA FlightFootprint ==
    ASSUME [Next]_vars, ChunkInFlight'
    PROVE  \/ NextDiskChunk
           \/ /\ ChunkInFlight /\ UNCHANGED path
              /\ \/ Write
                 \/ UNCHANGED <<spool, stage, target>>
                 \/ UNCHANGED <<spool, target>> /\ stage' = "check"
BY DEF Next, IngestTask, Tick, Shutdown, EventLoop, Environment, IngestRecv, IngestLock,
   IngestPush, PushToMemory, FlushForPush, BeginFlush, IngestRelease, IngestStop, TickStart,
   DrainMemory, NextDiskChunk, ListFault, ReadChunk, ReadFault, PublishEntry, FinishMemory,
   FinishDisk, Discard, PublishFailMemory, PublishFailDisk, Relock, Repush, Backoff, Write,
   DeletePartial, CancelTick, ShutdownFlush, ShutdownNothing, ShutdownFlushed, Exit, Vanish,
   FreshBuffer, Connect, Disconnect, Send, LoopStop, Produce, Signal, Crash, Restart, EndTick,
   ChunkInFlight, vars, bufVars, diskVars, writeVars, ingestVars, tickVars, mqttVars, procVars

(* The number of a chunk in flight is not given again, as a chunk fits.    *)
LEMMA FlightInvStep == ASSUME IInv, DInv, Fits, [Next]_vars PROVE FlightInv'
<1>1. FlightInv /\ FilesTypeOK /\ ChunksBounded /\ FlushState
  BY DEF DInv, IInv, TypeOK
<1> SUFFICES ASSUME ChunkInFlight'
             PROVE  /\ path' \in DOMAIN spool' \/ (DOMAIN spool' # {} /\ \A n \in DOMAIN spool' : path' < n)
                    /\ stage' = "remove" =>
                          /\ target' \in DOMAIN spool'
                          /\ \A n \in DOMAIN spool' : target' <= n
                          /\ DOMAIN spool' # {target'}
                    /\ stage' = "rename" => path' < target'
  BY DEF FlightInv
<1>2. CASE NextDiskChunk
  <2>1. /\ UNCHANGED <<spool, stage>> /\ stage = "none"
        /\ DOMAIN spool # {} /\ path' = NewestChunk(spool)
    BY <1>1, <1>2 DEF NextDiskChunk, FlushState, diskVars, writeVars, ChunkInFlight
  <2>2. path' \in DOMAIN spool
    BY <1>1, <2>1, NewestInSpool
  <2> QED
    BY <2>1, <2>2
<1>3. CASE /\ ChunkInFlight /\ UNCHANGED <<path, spool, target>>
           /\ stage' = stage \/ stage' = "check"
  BY <1>1, <1>3 DEF FlightInv
<1>4. CASE ChunkInFlight /\ UNCHANGED path /\ Write
  <2>1. /\ path \in Nat /\ DOMAIN spool \subseteq Nat
        /\ path \in DOMAIN spool \/ (DOMAIN spool # {} /\ \A n \in DOMAIN spool : path < n)
        /\ stage = "remove" =>
              /\ target \in DOMAIN spool
              /\ \A n \in DOMAIN spool : target <= n
              /\ DOMAIN spool # {target}
        /\ stage = "rename" => path < target
    BY <1>1, <1>4 DEF FlightInv, FilesTypeOK, IInv, TypeOK, TaskTypeOK
  <2>2. CASE EvictPick
    <3>1. /\ UNCHANGED spool /\ target' = OldestChunk(spool) /\ SpoolFull /\ DOMAIN spool # {}
          /\ stage' = "remove" /\ stage = "check"
      BY <2>2 DEF EvictPick, diskVars
    <3>2. target' \in DOMAIN spool /\ \A n \in DOMAIN spool : target' <= n
      BY <1>1, <3>1, OldestInSpool
    <3>3. DOMAIN spool # {target'}
      BY <3>1, <3>2, OneChunk
    <3> QED
      BY <1>4, <2>1, <3>1, <3>2, <3>3
  <2>3. CASE EvictRemove
    <3>1. stage = "remove" /\ stage' = "check" /\ DOMAIN spool' = DOMAIN spool \ {target}
      BY <2>3 DEF EvictRemove, Without
    <3>2. DOMAIN spool' # {} /\ \A n \in DOMAIN spool' : target < n
      BY <2>1, <3>1
    <3> QED
      BY <1>4, <2>1, <3>1, <3>2
  <2>4. CASE WriteTmp
    <3>1. UNCHANGED spool /\ target' = NextChunkNumber(spool) /\ stage' = "rename"
      BY <2>4 DEF WriteTmp
    <3>2. target' \in Nat /\ \A n \in DOMAIN spool : n < target'
      BY <1>1, <3>1, NextNumber
    <3>3. path < target'
      BY <2>1, <3>2
    <3> QED
      BY <1>4, <2>1, <3>1, <3>3
  <2>5. CASE RenameChunk
    <3>1. stage = "rename" /\ stage' \in {"none", "check"} /\ DOMAIN spool' = DOMAIN spool \cup {target}
      BY <2>5 DEF RenameChunk, With
    <3> QED
      BY <1>4, <2>1, <3>1
  <2>6. CASE stage' = "none" /\ UNCHANGED <<spool, tmp>>
    BY <1>4, <2>1, <2>6
  <2> QED
    BY <1>4, <2>2, <2>3, <2>4, <2>5, <2>6, WriteFootprint
<1> QED
  BY <1>2, <1>3, <1>4, FlightFootprint

(* What a flush does to the file of a tick: nothing, unless it evicts it.  *)
LEMMA FlightFile ==
    ASSUME IInv, DInv, Write, ChunkInFlight
    PROVE  \/ path \in DOMAIN spool /\ path \in DOMAIN spool' /\ spool'[path] = spool[path]
           \/ /\ path \in DOMAIN spool /\ path \notin DOMAIN spool'
              /\ EvictRemove /\ evicted' = evicted \cup ToSet(spool[path])
           \/ path \notin DOMAIN spool /\ path \notin DOMAIN spool'
<1>1. FlightInv /\ ChunkInFlight
  BY DEF DInv
<1>2. CASE EvictPick \/ WriteTmp \/ UNCHANGED spool
  BY <1>2 DEF EvictPick, WriteTmp, diskVars
<1>3. CASE EvictRemove
  BY <1>3 DEF EvictRemove, Without
<1>4. CASE RenameChunk
  <2>1. path < target /\ path # target
    <3>1. path < target /\ path \in Nat /\ target \in Nat
      BY <1>1, <1>4 DEF FlightInv, RenameChunk, IInv, TypeOK, TaskTypeOK, BufferTypeOK
    <3> QED
      BY <3>1
  <2> QED
    BY <1>4, <2>1 DEF RenameChunk, With
<1> QED
  BY <1>2, <1>3, <1>4, WriteFootprint

(* The batch stays what the file holds.                                    *)
LEMMA ChunkReadStep == ASSUME IInv, DInv, [Next]_vars PROVE ChunkRead'
<1>1. ChunkRead
  BY DEF DInv
<1> SUFFICES ASSUME tpc' = "pubDisk"
             PROVE  IF path' \in DOMAIN spool' THEN spool'[path'] = batch' ELSE ToSet(batch') \subseteq evicted'
  BY DEF ChunkRead
<1>2. ChunkInFlight'
  BY DEF ChunkInFlight
<1>3. \/ ReadChunk
      \/ /\ tpc = "pubDisk" /\ UNCHANGED <<path, batch>>
         /\ Write \/ UNCHANGED <<spool, evicted>>
  BY DEF Next, IngestTask, Tick, Shutdown, EventLoop, Environment, IngestRecv, IngestLock,
   IngestPush, PushToMemory, FlushForPush, BeginFlush, IngestRelease, IngestStop, TickStart,
   DrainMemory, NextDiskChunk, ListFault, ReadChunk, ReadFault, PublishEntry, FinishMemory,
   FinishDisk, Discard, PublishFailMemory, PublishFailDisk, Relock, Repush, Backoff, Write,
   DeletePartial, CancelTick, ShutdownFlush, ShutdownNothing, ShutdownFlushed, Exit, Vanish,
   FreshBuffer, Connect, Disconnect, Send, LoopStop, Produce, Signal, Crash, Restart, EndTick,
   vars, bufVars, diskVars, writeVars, ingestVars, tickVars, mqttVars, procVars
<1>4. CASE ReadChunk
  BY <1>4 DEF ReadChunk, bufVars, diskVars
<1>5. CASE tpc = "pubDisk" /\ UNCHANGED <<path, batch>> /\ UNCHANGED <<spool, evicted>>
  BY <1>1, <1>5 DEF ChunkRead
<1>6. CASE tpc = "pubDisk" /\ UNCHANGED <<path, batch>> /\ Write
  <2>1. ChunkInFlight
    BY <1>6 DEF ChunkInFlight
  <2>2. evicted \subseteq evicted'
    BY <1>6, WriteFootprint DEF EvictPick, EvictRemove, WriteTmp, RenameChunk, AbortFlush
  <2> QED
    BY <1>1, <1>6, <2>1, <2>2, FlightFile DEF ChunkRead
<1> QED
  BY <1>3, <1>4, <1>5, <1>6


(* What was sent of a batch stays accepted.                                *)
LEMMA AcceptedStep == ASSUME IInv, DInv, [Next]_vars PROVE Accepted'
<1>1. Accepted /\ TaskTypeOK /\ TaskState /\ handed \in [Entries -> Nat]
  BY DEF DInv, IInv, TypeOK, ProcessTypeOK
<1>2. \/ ~Publishing'
      \/ tpc \in {"memory", "read"} /\ UNCHANGED pos
      \/ PublishEntry
      \/ Publishing /\ UNCHANGED <<batch, pos, handed>>
  BY DEF Next, IngestTask, Tick, Shutdown, EventLoop, Environment, IngestRecv, IngestLock,
     IngestPush, PushToMemory, FlushForPush, BeginFlush, IngestRelease, IngestStop, TickStart,
     DrainMemory, NextDiskChunk, ListFault, ReadChunk, ReadFault, PublishEntry, FinishMemory,
     FinishDisk, Discard, PublishFailMemory, PublishFailDisk, Relock, Repush, Backoff, Write,
     DeletePartial, CancelTick, ShutdownFlush, ShutdownNothing, ShutdownFlushed, Exit, Vanish,
     FreshBuffer, Connect, Disconnect, Send, LoopStop, Produce, Signal, Crash, Restart, EndTick,
     Publishing, vars, bufVars, diskVars, writeVars, ingestVars, tickVars, mqttVars, procVars
<1>3. CASE ~Publishing'
  BY <1>3 DEF Accepted
<1>4. CASE tpc \in {"memory", "read"} /\ UNCHANGED pos
  <2>1. pos' = 0
    BY <1>1, <1>4 DEF TaskState
  <2>2. 1 .. pos' = {}
    BY <2>1
  <2> QED
    BY <2>2 DEF Accepted
<1>5. CASE PublishEntry
  <2> DEFINE x == batch[pos + 1]
  <2>1. /\ UNCHANGED <<batch, tpc>> /\ pos' = pos + 1 /\ pos < Len(batch) /\ Publishing
        /\ handed' = [handed EXCEPT ![x] = @ + 1]
    BY <1>5 DEF PublishEntry
  <2>2. /\ \A i \in 1 .. Len(batch) : batch[i] \in Entries
        /\ Len(batch) \in Nat /\ pos \in 0 .. Len(batch)
    BY <1>1, UnsentMembers
  <2>3. x \in Entries
    BY <2>1, <2>2
  <2>4. \A e \in Entries : handed'[e] = IF e = x THEN handed[e] + 1 ELSE handed[e]
    BY <1>1, <2>1, <2>3
  <2>5. \A e \in Entries : (handed[e] > 0 \/ e = x) => handed'[e] > 0
    BY <1>1, <2>4
  <2>6. \A i \in 1 .. pos : batch[i] \in Entries /\ handed[batch[i]] > 0
    BY <1>1, <2>1, <2>2 DEF Accepted
  <2>7. ASSUME NEW i \in 1 .. pos + 1 PROVE handed'[batch[i]] > 0
    <3>1. CASE i = pos + 1
      BY <2>3, <2>5, <3>1
    <3>2. CASE i # pos + 1
      <4>1. i \in 1 .. pos
        BY <2>2, <3>2
      <4> QED
        BY <2>5, <2>6, <4>1
    <3> QED
      BY <3>1, <3>2
  <2> QED
    BY <2>1, <2>7 DEF Accepted
<1>6. CASE Publishing /\ UNCHANGED <<batch, pos, handed>>
  BY <1>1, <1>6 DEF Accepted
<1> QED
  BY <1>2, <1>3, <1>4, <1>5, <1>6

(* Nothing that has been accepted or given up is taken back.               *)
LEMMA HistoryGrows ==
    ASSUME IInv, DInv, [Next]_vars
    PROVE  HandedOver \subseteq HandedOver' /\ GivenUp \subseteq GivenUp'
<1>1. Kind
  BY StepEffect DEF Effect
<1> QED
  BY <1>1 DEF Kind, Shuffles, TakesIn, Delivers, Stores, Removes, GivesUp, Abandons

(* Nothing is left behind by who gives the lock back.                      *)
LEMMA SettledStep == ASSUME IInv, DInv, [Next]_vars PROVE Settled'
<1>1. Settled /\ LockOwnership /\ FlushState
  BY DEF DInv, IInv
<1>2. (lock' \in {"free", "shutdown"} => todo' = <<>>)
  BY <1>1 DEF Next, IngestTask, Tick, Shutdown, EventLoop, Environment, IngestRecv, IngestLock,
     IngestPush, PushToMemory, FlushForPush, BeginFlush, IngestRelease, IngestStop, TickStart,
     DrainMemory, NextDiskChunk, ListFault, ReadChunk, ReadFault, PublishEntry, FinishMemory,
     FinishDisk, Discard, PublishFailMemory, PublishFailDisk, Relock, Repush, Backoff, Write,
     DeletePartial, CancelTick, ShutdownFlush, ShutdownNothing, ShutdownFlushed, Exit, Vanish,
     FreshBuffer, Connect, Disconnect, Send, LoopStop, Produce, Signal, Crash, Restart, EndTick,
     Suspended, Repushed, Publishing, AbortFlush, FlushStep, EvictPick, EvictRemove, WriteTmp, RenameChunk, EvictGone, WriteFault, Settled, LockOwnership, vars, bufVars, diskVars, writeVars, ingestVars, tickVars, mqttVars, procVars
<1>3. (ipc' # "lock" => hand' = 0)
  BY <1>1 DEF Next, IngestTask, Tick, Shutdown, EventLoop, Environment, IngestRecv, IngestLock,
     IngestPush, PushToMemory, FlushForPush, BeginFlush, IngestRelease, IngestStop, TickStart,
     DrainMemory, NextDiskChunk, ListFault, ReadChunk, ReadFault, PublishEntry, FinishMemory,
     FinishDisk, Discard, PublishFailMemory, PublishFailDisk, Relock, Repush, Backoff, Write,
     DeletePartial, CancelTick, ShutdownFlush, ShutdownNothing, ShutdownFlushed, Exit, Vanish,
     FreshBuffer, Connect, Disconnect, Send, LoopStop, Produce, Signal, Crash, Restart, EndTick,
     Settled, vars, bufVars, diskVars, writeVars, ingestVars, tickVars, mqttVars, procVars
<1>4. (~loopAlive' => phase' = "signalled")
  BY <1>1 DEF Next, IngestTask, Tick, Shutdown, EventLoop, Environment, IngestRecv, IngestLock,
     IngestPush, PushToMemory, FlushForPush, BeginFlush, IngestRelease, IngestStop, TickStart,
     DrainMemory, NextDiskChunk, ListFault, ReadChunk, ReadFault, PublishEntry, FinishMemory,
     FinishDisk, Discard, PublishFailMemory, PublishFailDisk, Relock, Repush, Backoff, Write,
     DeletePartial, CancelTick, ShutdownFlush, ShutdownNothing, ShutdownFlushed, Exit, Vanish,
     FreshBuffer, Connect, Disconnect, Send, LoopStop, Produce, Signal, Crash, Restart, EndTick,
     Settled, Up, vars, bufVars, diskVars, writeVars, ingestVars, tickVars, mqttVars, procVars
<1>5. phase' = "down" => /\ tpc' = "idle" /\ ipc' = "recv" /\ lock' = "free" /\ chan' = <<>>
                         /\ loopAlive'
  <2> SUFFICES ASSUME phase' = "down"
               PROVE  /\ tpc' = "idle" /\ ipc' = "recv" /\ lock' = "free" /\ chan' = <<>>
                      /\ loopAlive'
    OBVIOUS
  <2>1. Vanish \/ (phase = "down" /\ ~Write /\ UNCHANGED <<tpc, ipc, lock, chan, loopAlive>>)
    <3>1. Vanish \/ phase = "down"
      BY DEF Next, IngestTask, Tick, Shutdown, EventLoop, Environment, IngestRecv, IngestLock,
         IngestPush, PushToMemory, FlushForPush, BeginFlush, IngestRelease, IngestStop, TickStart,
         DrainMemory, NextDiskChunk, ListFault, ReadChunk, ReadFault, PublishEntry, FinishMemory,
         FinishDisk, Discard, PublishFailMemory, PublishFailDisk, Relock, Repush, Backoff, Write,
         DeletePartial, CancelTick, ShutdownFlush, ShutdownNothing, ShutdownFlushed, Exit, Vanish,
         FreshBuffer, Connect, Disconnect, Send, LoopStop, Produce, Signal, Crash, Restart, EndTick,
         vars, bufVars, diskVars, writeVars, ingestVars, tickVars, mqttVars, procVars
    <3>2. phase = "down" => /\ tpc = "idle" /\ ipc = "recv" /\ lock = "free" /\ loopAlive
                            /\ chan = <<>> /\ stage = "none"
      BY <1>1 DEF Settled, FlushState
    <3>3. phase = "down" => ~Write
      BY <3>2 DEF Write, FlushStep, EvictPick, EvictRemove, EvictGone, WriteTmp, RenameChunk, WriteFault
    <3>4. phase = "down" => Vanish \/ UNCHANGED <<tpc, ipc, lock, chan, loopAlive>>
      <4> SUFFICES ASSUME phase = "down"
                   PROVE  Vanish \/ UNCHANGED <<tpc, ipc, lock, chan, loopAlive>>
        OBVIOUS
      <4>1. ~IngestTask
        BY <3>2 DEF IngestTask, IngestRecv, IngestLock, IngestPush, IngestRelease, IngestStop,
           PushToMemory, FlushForPush, BeginFlush, Up
      <4>2. ~Tick
        <5>1. ~(TickStart \/ DrainMemory \/ NextDiskChunk \/ ListFault \/ ReadChunk \/ ReadFault)
          BY <3>2 DEF TickStart, DrainMemory, NextDiskChunk, ListFault, ReadChunk, ReadFault, Up
        <5>2. ~(PublishEntry \/ FinishMemory \/ FinishDisk \/ Discard)
          BY <3>2 DEF PublishEntry, FinishMemory, FinishDisk, Discard, Publishing
        <5>3. ~(PublishFailMemory \/ PublishFailDisk)
          BY <3>2 DEF PublishFailMemory, PublishFailDisk
        <5>4. ~(Relock \/ Repush \/ Backoff \/ DeletePartial)
          BY <3>2 DEF Relock, Repush, PushToMemory, FlushForPush, BeginFlush, Backoff, DeletePartial
        <5> QED
          BY <5>1, <5>2, <5>3, <5>4 DEF Tick
      <4>3. Shutdown => Vanish \/ UNCHANGED <<tpc, ipc, lock, chan, loopAlive>>
        BY <3>2 DEF Shutdown, CancelTick, ShutdownFlush, ShutdownNothing, ShutdownFlushed, Exit
      <4>4. EventLoop => UNCHANGED <<tpc, ipc, lock, chan, loopAlive>>
        BY <3>2 DEF EventLoop, Connect, Disconnect, Send, LoopStop, Up, vars, bufVars, diskVars,
           writeVars, ingestVars, tickVars, mqttVars, procVars
      <4>5. Environment => Vanish \/ UNCHANGED <<tpc, ipc, lock, chan, loopAlive>>
        BY <3>2 DEF Environment, Produce, Signal, Crash, Restart, Up, vars, bufVars, diskVars,
           writeVars, ingestVars, tickVars, mqttVars, procVars
      <4>6. UNCHANGED vars => UNCHANGED <<tpc, ipc, lock, chan, loopAlive>>
        BY DEF vars, bufVars, diskVars, writeVars, ingestVars, tickVars, mqttVars, procVars
      <4> QED
        BY <1>1, <3>3, <4>1, <4>2, <4>3, <4>4, <4>5, <4>6 DEF Next
    <3> QED
      BY <3>1, <3>3, <3>4
  <2> QED
    BY <1>1, <2>1 DEF Settled, Vanish, FreshBuffer, EndTick
<1> QED
  BY <1>2, <1>3, <1>4, <1>5 DEF Settled


(* What holds the entries of a chunk that goes back into the buffer.       *)
Refuge == ToSet(todo) \cup ToSet(memory) \cup InWrite \cup Elsewhere \cup GivenUp

(* What is to be found outside the chunk that goes stays to be found.      *)
LEMMA RefugeStep ==
    ASSUME IInv, DInv, tpc = "repushDisk", path \in DOMAIN spool,
           path' = path, path' \in DOMAIN spool',
           \/ Repush
           \/ Write
           \/ UNCHANGED <<spool, todo, memory, flushing, evicted, dropped>>
    PROVE  Refuge \subseteq Refuge'
<1> DEFINE Others == UNION {ToSet(spool'[n]) : n \in DOMAIN spool' \ {path}}
<1>1. /\ Refuge = ToSet(todo) \cup ToSet(memory) \cup ToSet(flushing) \cup Elsewhere \cup GivenUp
      /\ Refuge' = ToSet(todo') \cup ToSet(memory') \cup ToSet(flushing') \cup Elsewhere' \cup GivenUp'
      /\ Elsewhere' = Others
  BY DEF Refuge, InWrite, Elsewhere
<1>2. Elsewhere = UNION {ToSet(spool[n]) : n \in DOMAIN spool \ {path}}
  BY DEF Elsewhere
<1>3. CASE UNCHANGED <<spool, todo, memory, flushing, evicted, dropped>>
  BY <1>1, <1>2, <1>3, FilesFrame
<1>4. CASE Repush
  <2>1. UNCHANGED <<spool, evicted, dropped>>
    BY <1>4 DEF Repush, PushToMemory, FlushForPush, BeginFlush, diskVars
  <2>2. Elsewhere' = Elsewhere /\ GivenUp' = GivenUp
    BY <1>1, <1>2, <2>1, FilesFrame
  <2>3. memory \in Seq(Entries) /\ todo \in Seq(Entries)
    BY DEF IInv, TypeOK, BufferTypeOK
  <2>4. CASE PushToMemory("publish")
    <3>1. /\ todo # <<>> /\ memory' = Append(memory, Head(todo)) /\ todo' = Tail(todo)
          /\ flushing' = flushing
      BY <2>4 DEF PushToMemory, writeVars
    <3>2. ToSet(todo) = {Head(todo)} \cup ToSet(todo') /\ Head(todo) \in Entries
      BY <2>3, <3>1, MembersHead, HeadTailProperties
    <3>3. ToSet(memory') = ToSet(memory) \cup {Head(todo)}
      BY <2>3, <3>1, <3>2, MembersAppend
    <3> QED
      BY <1>1, <2>2, <3>1, <3>2, <3>3
  <2>5. CASE FlushForPush("publish")
    <3>1. todo' = todo /\ flushing' = memory /\ flushing = <<>>
      BY <2>5 DEF FlushForPush, BeginFlush, IInv, FlushState
    <3> QED
      BY <1>1, <2>2, <3>1, MembersEmpty
  <2> QED
    BY <1>4, <2>4, <2>5 DEF Repush
<1>5. CASE Write
  <2>1. CASE EvictPick \/ WriteTmp
    <3>1. UNCHANGED <<spool, todo, memory, flushing, evicted, dropped>>
      BY <2>1 DEF EvictPick, WriteTmp, diskVars
    <3> QED
      BY <1>1, <1>2, <3>1, FilesFrame
  <2>2. CASE EvictRemove
    <3>1. /\ UNCHANGED <<todo, memory, flushing, dropped>>
          /\ evicted' = evicted \cup ToSet(spool[target])
          /\ DOMAIN spool' = DOMAIN spool \ {target} /\ \A n \in DOMAIN spool' : spool'[n] = spool[n]
      BY <2>2 DEF EvictRemove, Without
    <3>2. Elsewhere \subseteq Others \cup ToSet(spool[target])
      BY <1>2, <3>1
    <3>3. GivenUp' = GivenUp \cup ToSet(spool[target])
      BY <3>1 DEF GivenUp
    <3> HIDE DEF Others
    <3> QED
      BY <1>1, <3>1, <3>2, <3>3
  <2>3. CASE RenameChunk
    <3>1. /\ UNCHANGED <<todo, memory, evicted, dropped>>
          /\ stage = "rename" /\ flushing' = AfterChunk(flushing)
          /\ spool' = With(spool, target, tmp[target])
      BY <2>3 DEF RenameChunk
    <3>2. target \notin DOMAIN spool /\ tmp[target] = FirstChunk(flushing)
      BY <3>1 DEF DInv, SInv, RenameInv
    <3>3. /\ DOMAIN spool' = DOMAIN spool \cup {target} /\ target # path
          /\ \A n \in DOMAIN spool : spool'[n] = spool[n]
          /\ spool'[target] = FirstChunk(flushing)
      BY <3>1, <3>2 DEF With
    <3>4. Elsewhere \subseteq Others /\ ToSet(FirstChunk(flushing)) \subseteq Others
      BY <1>2, <3>3
    <3>5. ToSet(flushing) = ToSet(FirstChunk(flushing)) \cup ToSet(flushing')
      BY <3>1, MembersChunk DEF IInv, TypeOK, BufferTypeOK
    <3>6. GivenUp' = GivenUp
      BY <3>1, FilesFrame
    <3> HIDE DEF Others
    <3> QED
      BY <1>1, <3>1, <3>4, <3>5, <3>6
  <2>4. CASE AbortFlush /\ UNCHANGED <<spool, tmp>>
    <3>1. /\ UNCHANGED <<memory, evicted>> /\ todo \in Seq(Entries)
          /\ dropped' = dropped \cup ToSet(flushing) \cup (IF todo = <<>> THEN {} ELSE {Head(todo)})
          /\ todo' = IF todo = <<>> THEN <<>> ELSE Tail(todo)
      BY <2>4 DEF AbortFlush, InWrite, IInv, TypeOK, BufferTypeOK
    <3>2. ToSet(todo) \subseteq dropped' \cup ToSet(todo')
      BY <3>1, MembersHead, MembersEmpty
    <3>3. GivenUp' = GivenUp \cup dropped' /\ ToSet(flushing) \subseteq dropped'
      BY <3>1 DEF GivenUp
    <3>4. Elsewhere' = Elsewhere
      BY <1>1, <1>2, <2>4
    <3> QED
      BY <1>1, <3>1, <3>2, <3>3, <3>4
  <2> QED
    BY <1>5, <2>1, <2>2, <2>3, <2>4, WriteFootprint
<1> QED
  BY <1>3, <1>4, <1>5

(* What is to be deleted stays dispensable.                                *)
LEMMA DispensableStep == ASSUME IInv, DInv, [Next]_vars PROVE Dispensable'
<1>1. Dispensable /\ ChunkRead /\ Accepted /\ TaskTypeOK /\ LockOwnership
  BY DEF DInv, IInv, TypeOK
<1>2. HandedOver \subseteq HandedOver' /\ GivenUp \subseteq GivenUp'
  BY HistoryGrows
<1> SUFFICES ASSUME path' \in DOMAIN spool'
             PROVE  /\ tpc' = "discard" => ToSet(spool'[path']) \subseteq dropped'
                    /\ tpc' = "relockDisk" => ToSet(spool'[path']) \subseteq HandedOver' \cup ToSet(batch')
                    /\ tpc' = "repushDisk" => ToSet(spool'[path']) \subseteq HandedOver' \cup Refuge'
  BY DEF Dispensable, Refuge, GivenUp
<1>3. ChunkInFlight /\ Write /\ path' = path => path \in DOMAIN spool /\ spool'[path'] = spool[path]
  BY FlightFile
<1>4. ASSUME tpc' = "discard" PROVE ToSet(spool'[path']) \subseteq dropped'
  <2>1. \/ ReadChunk /\ path \notin DOMAIN spool
        \/ ReadFault
        \/ /\ tpc = "discard" /\ UNCHANGED path
           /\ Write \/ UNCHANGED <<spool, dropped>>
    BY <1>4 DEF Next, IngestTask, Tick, Shutdown, EventLoop, Environment, IngestRecv, IngestLock,
       IngestPush, PushToMemory, FlushForPush, BeginFlush, IngestRelease, IngestStop, TickStart,
       DrainMemory, NextDiskChunk, ListFault, ReadChunk, ReadFault, PublishEntry, FinishMemory,
       FinishDisk, Discard, PublishFailMemory, PublishFailDisk, Relock, Repush, Backoff, Write,
       DeletePartial, CancelTick, ShutdownFlush, ShutdownNothing, ShutdownFlushed, Exit, Vanish,
       FreshBuffer, Connect, Disconnect, Send, LoopStop, Produce, Signal, Crash, Restart, EndTick,
       vars, bufVars, diskVars, writeVars, ingestVars, tickVars, mqttVars, procVars
  <2>2. CASE ReadChunk /\ path \notin DOMAIN spool
    BY <2>2 DEF ReadChunk, bufVars, diskVars
  <2>3. CASE ReadFault
    BY <2>3 DEF ReadFault, diskVars
  <2>4. CASE tpc = "discard" /\ UNCHANGED path /\ UNCHANGED <<spool, dropped>>
    BY <1>1, <2>4 DEF Dispensable
  <2>5. CASE tpc = "discard" /\ UNCHANGED path /\ Write
    <3>1. dropped \subseteq dropped'
      BY <2>5, WriteFootprint DEF EvictPick, EvictRemove, WriteTmp, RenameChunk, AbortFlush
    <3>2. path \in DOMAIN spool /\ spool'[path'] = spool[path]
      BY <1>3, <2>5 DEF ChunkInFlight
    <3> QED
      BY <1>1, <2>5, <3>1, <3>2 DEF Dispensable
  <2> QED
    BY <2>1, <2>2, <2>3, <2>4, <2>5
<1>5. ASSUME tpc' = "relockDisk" PROVE ToSet(spool'[path']) \subseteq HandedOver' \cup ToSet(batch')
  <2>1. \/ PublishFailDisk
        \/ /\ tpc = "relockDisk" /\ UNCHANGED <<path, batch>>
           /\ Write \/ UNCHANGED spool
    BY <1>5 DEF Next, IngestTask, Tick, Shutdown, EventLoop, Environment, IngestRecv, IngestLock,
       IngestPush, PushToMemory, FlushForPush, BeginFlush, IngestRelease, IngestStop, TickStart,
       DrainMemory, NextDiskChunk, ListFault, ReadChunk, ReadFault, PublishEntry, FinishMemory,
       FinishDisk, Discard, PublishFailMemory, PublishFailDisk, Relock, Repush, Backoff, Write,
       DeletePartial, CancelTick, ShutdownFlush, ShutdownNothing, ShutdownFlushed, Exit, Vanish,
       FreshBuffer, Connect, Disconnect, Send, LoopStop, Produce, Signal, Crash, Restart, EndTick,
       vars, bufVars, diskVars, writeVars, ingestVars, tickVars, mqttVars, procVars
  <2>2. CASE PublishFailDisk
    <3>1. /\ UNCHANGED <<spool, path>> /\ batch' = UnpublishedTail /\ tpc = "pubDisk"
      BY <1>5, <2>2 DEF PublishFailDisk, EndTick, bufVars, diskVars
    <3>2. spool[path] = batch
      BY <1>1, <3>1 DEF ChunkRead
    <3>3. ToSet(batch) \subseteq {batch[i] : i \in 1 .. pos} \cup ToSet(UnpublishedTail)
      BY <1>1, TailMembers
    <3>4. \A i \in 1 .. pos : batch[i] \in HandedOver
      <4>1. /\ pos \in 0 .. Len(batch) /\ Len(batch) \in Nat
            /\ \A i \in 1 .. Len(batch) : batch[i] \in Entries
        BY <1>1, UnsentMembers
      <4> QED
        BY <1>1, <3>1, <4>1 DEF Accepted, Publishing, HandedOver
    <3> QED
      BY <1>2, <3>1, <3>2, <3>3, <3>4
  <2>3. CASE tpc = "relockDisk" /\ UNCHANGED <<path, batch>> /\ (Write \/ UNCHANGED spool)
    <3>1. path \in DOMAIN spool /\ spool'[path'] = spool[path]
      BY <1>3, <2>3 DEF ChunkInFlight
    <3> QED
      BY <1>1, <1>2, <2>3, <3>1 DEF Dispensable
  <2> QED
    BY <2>1, <2>2, <2>3
<1>6. ASSUME tpc' = "repushDisk" PROVE ToSet(spool'[path']) \subseteq HandedOver' \cup Refuge'
  <2>1. \/ Relock /\ tpc = "relockDisk"
        \/ /\ tpc = "repushDisk" /\ UNCHANGED path
           /\ Repush \/ Write \/ UNCHANGED <<spool, todo, memory, flushing, evicted, dropped>>
    BY <1>1, <1>6 DEF Next, IngestTask, Tick, Shutdown, EventLoop, Environment, IngestRecv, IngestLock,
       IngestPush, PushToMemory, FlushForPush, BeginFlush, IngestRelease, IngestStop, TickStart,
       DrainMemory, NextDiskChunk, ListFault, ReadChunk, ReadFault, PublishEntry, FinishMemory,
       FinishDisk, Discard, PublishFailMemory, PublishFailDisk, Relock, Repush, Backoff, Write,
       DeletePartial, CancelTick, ShutdownFlush, ShutdownNothing, ShutdownFlushed, Exit, Vanish,
       FreshBuffer, Connect, Disconnect, Send, LoopStop, Produce, Signal, Crash, Restart, EndTick,
       LockOwnership, vars, bufVars, diskVars, writeVars, ingestVars, tickVars, mqttVars, procVars
  <2>2. CASE Relock /\ tpc = "relockDisk"
    <3>1. UNCHANGED <<spool, path>> /\ todo' = Reverse(batch) /\ batch \in Seq(Entries)
      BY <1>1, <2>2 DEF Relock, diskVars, TaskTypeOK
    <3>2. ToSet(todo') = ToSet(batch) /\ ToSet(todo') \subseteq Refuge'
      BY <3>1, MembersReverse DEF Refuge
    <3> QED
      BY <1>1, <1>2, <2>2, <3>1, <3>2 DEF Dispensable
  <2>3. CASE /\ tpc = "repushDisk" /\ UNCHANGED path
             /\ Repush \/ Write \/ UNCHANGED <<spool, todo, memory, flushing, evicted, dropped>>
    <3>1. Repush => UNCHANGED spool
      BY DEF Repush, PushToMemory, FlushForPush, BeginFlush, diskVars
    <3>2. path \in DOMAIN spool /\ spool'[path'] = spool[path]
      BY <1>3, <2>3, <3>1 DEF ChunkInFlight
    <3>3. ToSet(spool[path]) \subseteq HandedOver \cup Refuge
      BY <1>1, <2>3, <3>2 DEF Dispensable, Refuge, GivenUp
    <3>4. Refuge \subseteq Refuge'
      BY <2>3, <3>2, RefugeStep
    <3> QED
      BY <1>2, <3>2, <3>3, <3>4
  <2> QED
    BY <2>1, <2>2, <2>3
<1> QED
  BY <1>4, <1>5, <1>6

(* The invariant is inductive, as long as a chunk fits.                    *)
LEMMA StepDInv == IInv /\ DInv /\ Fits /\ [Next]_vars => DInv'
<1> SUFFICES ASSUME IInv, DInv, Fits, [Next]_vars PROVE DInv'
  OBVIOUS
<1>1. SInv'
  BY StepSInv DEF DInv
<1> QED
  BY <1>1, ProducedStep, FlightInvStep, ChunkReadStep, DispensableStep, AcceptedStep,
     SettledStep DEF DInv

-----------------------------------------------------------------------------
(* The theorems.                                                           *)
LEMMA StartsEmpty ==
    ASSUME Init
    PROVE  OnDisk = {} /\ Held = {} /\ GivenUp = {} /\ HandedOver = {}
<1>1. /\ memory = <<>> /\ flushing = <<>> /\ todo = <<>> /\ chan = <<>> /\ hand = 0
      /\ tpc = "idle" /\ DOMAIN spool = {} /\ evicted = {} /\ dropped = {}
      /\ handed = [e \in Entries |-> 0]
  BY DEF Init, InitBuffer
<1>2. MemBatch = {} /\ DiskBatch = {}
  BY <1>1, BatchFrame
<1>3. Held = {}
  BY <1>1, <1>2, Parts, MembersEmpty
<1>4. OnDisk = {} /\ GivenUp = {}
  BY <1>1 DEF OnDisk, GivenUp
<1>5. HandedOver = {}
  BY <1>1 DEF HandedOver
<1> QED
  BY <1>3, <1>4, <1>5

(* It holds at the start.                                                  *)
LEMMA InitDInv == Init => DInv
<1> SUFFICES ASSUME Init PROVE DInv
  OBVIOUS
<1>1. /\ stage = "none" /\ tpc = "idle" /\ ipc = "recv" /\ lock = "free" /\ todo = <<>>
      /\ hand = 0 /\ loopAlive /\ phase = "running"
  BY DEF Init, InitBuffer
<1>2. Copies = {}
  BY StartsEmpty DEF Copies, GivenUp
<1>3. Produced
  BY <1>2 DEF Produced
<1>4. FlightInv /\ ChunkRead /\ Dispensable /\ Accepted
  BY <1>1 DEF FlightInv, ChunkInFlight, ChunkRead, Dispensable, Accepted, Publishing
<1>5. Settled
  BY <1>1 DEF Settled
<1> QED
  BY <1>3, <1>4, <1>5, InitSInv DEF DInv

(* The invariant of the deliveries, as long as a chunk fits.               *)
THEOREM DeliveryInvariance == Spec /\ []Fits => []DInv
<1>1. Spec => []IInv
  BY Invariance
<1>2. Init => DInv
  BY InitDInv
<1>3. IInv /\ DInv /\ Fits /\ [Next]_vars => DInv'
  BY StepDInv
<1> QED
  BY <1>1, <1>2, <1>3, PTL DEF Spec

(* The publisher never holds a chunk number that means another chunk by    *)
(* now, although it works without the lock: as long as a chunk fits, an    *)
(* eviction leaves a younger chunk behind, so no number is used again      *)
(* while a tick still means it.                                            *)
THEOREM ChunkStaysItself == Spec /\ []Fits => []InFlightIntact
<1>1. DInv => InFlightIntact
  BY DEF DInv, ChunkRead, InFlightIntact
<1> QED
  BY <1>1, DeliveryInvariance, PTL

(* What has reached the disk is never lost, through crashes, restarts and  *)
(* shutdowns.                                                              *)
THEOREM DiskIsSafe == Spec /\ []Fits => DiskSurvives
<1>1. IInv /\ DInv /\ [Next]_vars =>
         [OnDisk \ OnDisk' \subseteq HandedOver' \cup evicted' \cup dropped' \cup InRAM']_vars
  BY StepEffect DEF Effect, Survives, GivenUp
<1> QED
  BY <1>1, Invariance, DeliveryInvariance, PTL DEF Spec, DiskSurvives

(* While the process is up, only a memory batch that the shutdown signal   *)
(* interrupts disappears without a trace.                                  *)
THEOREM NothingVanishes == Spec /\ []Fits => NoSilentLoss
<1>1. IInv /\ DInv /\ [Next]_vars =>
         [\/ phase' = "down"
          \/ phase = "signalled" /\ tpc \in {"pubMem", "relock"}
          \/ Accounted \subseteq Accounted']_vars
  BY StepEffect DEF Effect, Keeps
<1> QED
  BY <1>1, Invariance, DeliveryInvariance, PTL DEF Spec, NoSilentLoss

(* The pipeline starts as the abstract specification does.                 *)
LEMMA InitImplements == Init => Delivery!Init
<1> SUFFICES ASSUME Init PROVE Delivery!Init
  OBVIOUS
<1>1. produced = 0 /\ phase = "running"
  BY DEF Init
<1>2. Place = PlaceOf({}, {}, {}, {}, 0)
  BY <1>1, StartsEmpty, PlaceIs DEF GivenUp
<1>3. Place = [e \in Entries |-> "new"]
  BY <1>2 DEF PlaceOf, Entries
<1> QED
  BY <1>1, <1>3, DeliveryFrame DEF Delivery!Init

(* Every step of the pipeline is one of LogDelivery, or a stutter.         *)
LEMMA StepImplements ==
    ASSUME IInv, DInv, [Next]_vars
    PROVE  Delivery!Next \/ UNCHANGED Delivery!vars
<1>1. Kind
  BY StepEffect DEF Effect
<1>2. Produced /\ produced \in Nat
  BY DEF DInv, IInv, TypeOK, ProcessTypeOK
<1>3. CASE Shuffles /\ (UNCHANGED phase \/ Signal \/ Restart)
  <2>1. Place' = Place
    BY <1>3, ShuffleStep
  <2>2. CASE UNCHANGED phase
    BY <2>1, <2>2 DEF Delivery!vars
  <2>3. CASE Signal
    <3>1. Delivery!Signal
      BY <2>1, <2>3 DEF Signal, Delivery!Signal
    <3> QED
      BY <3>1 DEF Delivery!Next
  <2>4. CASE Restart
    <3>1. Delivery!Start
      BY <2>1, <2>4 DEF Restart, Delivery!Start
    <3> QED
      BY <3>1 DEF Delivery!Next
  <2> QED
    BY <1>3, <2>2, <2>3, <2>4
<1>4. CASE TakesIn /\ Up /\ UNCHANGED phase
  BY <1>2, <1>4, TakeInStep
<1>5. CASE Delivers /\ Up /\ UNCHANGED phase
  BY <1>5, DeliverStep
<1>6. CASE Stores /\ Up /\ UNCHANGED phase
  BY <1>6, StoreStep
<1>7. CASE Removes /\ Up /\ UNCHANGED phase
  BY <1>7, RemoveStep
<1>8. CASE GivesUp /\ Up /\ UNCHANGED phase
  BY <1>8, GiveUpStep
<1>9. CASE Abandons /\ phase = "signalled" /\ UNCHANGED phase
  BY <1>2, <1>9, AbandonStep
<1>10. CASE Abandons /\ Held' = {} /\ Up /\ phase' = "down"
  BY <1>2, <1>10, EndStep
<1> QED
  BY <1>1, <1>3, <1>4, <1>5, <1>6, <1>7, <1>8, <1>9, <1>10 DEF Kind

(* The pipeline implements LogDelivery: whatever the tasks, the file       *)
(* system, crashes and signals do, each entry moves as that module allows. *)
THEOREM PipelineDelivers == Spec /\ []Fits => ImplementsDelivery
<1>1. Init => Delivery!Init
  BY InitImplements
<1>2. IInv /\ DInv /\ [Next]_vars => [Delivery!Next]_(Delivery!vars)
  BY StepImplements
<1> QED
  BY <1>1, <1>2, Invariance, DeliveryInvariance, PTL DEF Spec, ImplementsDelivery, Delivery!Spec

(* With a limit that leaves room for a chunk and for what crashes and      *)
(* failed calls may leave behind, all of it holds without a premise.       *)
THEOREM EntriesAreSafe ==
    ASSUME EnoughRoom
    PROVE  Spec => []InFlightIntact /\ DiskSurvives /\ NoSilentLoss /\ ImplementsDelivery
BY RoomForAChunk, ChunkStaysItself, DiskIsSafe, NothingVanishes, PipelineDelivers, PTL

-----------------------------------------------------------------------------
(* How often: the places of an entry, counted.                             *)

(* Where and how often an entry is in a queue.                             *)
Within(s, m, n, e) == {i \in m .. n : s[i] = e}
At(s, e) == {i \in 1 .. Len(s) : s[i] = e}
Times(s, e) == Cardinality(At(s, e))

(* The queue s is a, and behind it b.                                      *)
Joins(s, a, b) ==
    /\ Len(s) = Len(a) + Len(b)
    /\ \A i \in 1 .. Len(a) : s[i] = a[i]
    /\ \A i \in 1 .. Len(b) : s[Len(a) + i] = b[i]
-----------------------------------------------------------------------------
(* Counting in queues.                                                     *)

(* A count is a number, and 0 means that the entry is nowhere.             *)
LEMMA TimesType ==
    ASSUME NEW s \in Seq(Entries), NEW e
    PROVE  /\ IsFiniteSet(At(s, e)) /\ Times(s, e) \in Nat /\ Len(s) \in Nat
           /\ Times(s, e) = 0 <=> At(s, e) = {}
<1>1. Len(s) \in Nat
  BY LenProperties
<1>2. IsFiniteSet(1 .. Len(s))
  <2>1. 1 \in Int /\ Len(s) \in Int
    BY <1>1
  <2> QED
    BY <2>1, FS_Interval
<1>3. At(s, e) \in SUBSET (1 .. Len(s))
  BY DEF At
<1>4. IsFiniteSet(At(s, e))
  BY <1>2, <1>3, FS_Subset
<1> QED
  BY <1>1, <1>4, FS_CardinalityType, FS_EmptySet DEF Times

(* A queue made of two.                                                    *)
LEMMA TimesInTwo ==
    ASSUME NEW a \in Seq(Entries), NEW b \in Seq(Entries), NEW s \in Seq(Entries), NEW e,
           Joins(s, a, b)
    PROVE  Times(s, e) = Times(a, e) + Times(b, e)
<1> DEFINE k == Len(a)
           moved == {i \in k + 1 .. Len(s) : s[i] = e}
           shift == [i \in At(b, e) |-> k + i]
<1>1. k \in Nat /\ Len(b) \in Nat /\ Len(s) \in Nat
  BY LenProperties
<1>2. At(s, e) = At(a, e) \cup moved /\ At(a, e) \cap moved = {}
  BY <1>1 DEF At, Joins
<1>3. ExistsBijection(At(b, e), moved)
  <2>1. shift \in [At(b, e) -> moved]
    BY <1>1 DEF At, Joins
  <2>2. \A i, j \in At(b, e) : shift[i] = shift[j] => i = j
    BY <1>1 DEF At
  <2>3. ASSUME NEW m \in moved PROVE \E i \in At(b, e) : shift[i] = m
    <3>1. m - k \in 1 .. Len(b) /\ k + (m - k) = m
      BY <1>1 DEF Joins
    <3>2. m - k \in At(b, e)
      BY <3>1 DEF At, Joins
    <3> QED
      BY <3>1, <3>2
  <2> HIDE DEF shift, moved
  <2>4. shift \in Bijection(At(b, e), moved)
    BY <2>1, <2>2, <2>3, Fun_IsBij
  <2> QED
    BY <2>4, Fun_ExistsBij
<1> HIDE DEF moved
<1>4. /\ IsFiniteSet(At(a, e)) /\ Times(a, e) \in Nat
      /\ IsFiniteSet(At(b, e)) /\ Times(b, e) \in Nat
  BY TimesType
<1>5. IsFiniteSet(moved) /\ Cardinality(moved) = Times(b, e)
  BY <1>3, <1>4, FS_Bijection DEF Times
<1>6. Cardinality(At(a, e) \cup moved) =
        Cardinality(At(a, e)) + Cardinality(moved) - Cardinality(At(a, e) \cap moved)
  BY <1>4, <1>5, FS_Union
<1>7. Cardinality(At(a, e) \cap moved) = 0
  BY <1>2, FS_EmptySet
<1> QED
  BY <1>2, <1>4, <1>5, <1>6, <1>7 DEF Times

(* The empty queue, and one of a single entry.                             *)
LEMMA EmptyTimes ==
    ASSUME NEW e
    PROVE  <<>> \in Seq(Entries) /\ Times(<<>>, e) = 0
<1>1. <<>> \in Seq(Entries) /\ Len(<<>>) = 0
  BY EmptySeq
<1>2. At(<<>>, e) = {}
  BY <1>1 DEF At
<1> QED
  BY <1>1, <1>2, FS_EmptySet DEF Times

LEMMA TimesOfOne ==
    ASSUME NEW e, NEW x \in Entries
    PROVE  <<x>> \in Seq(Entries) /\ Times(<<x>>, e) = IF x = e THEN 1 ELSE 0
<1>1. At(<<x>>, e) = IF x = e THEN {1} ELSE {}
  BY DEF At
<1>2. Cardinality({}) = 0 /\ Cardinality({1}) = 1
  BY FS_EmptySet, FS_Singleton
<1>3. <<x>> \in Seq(Entries)
  OBVIOUS
<1> QED
  BY <1>1, <1>2, <1>3 DEF Times

(* One entry more at the end.                                              *)
LEMMA TimesAppend ==
    ASSUME NEW s \in Seq(Entries), NEW x \in Entries, NEW e
    PROVE  /\ Append(s, x) \in Seq(Entries)
           /\ Times(Append(s, x), e) = Times(s, e) + (IF x = e THEN 1 ELSE 0)
<1> DEFINE t == Append(s, x)
<1>1. /\ t \in Seq(Entries) /\ Len(t) = Len(s) + 1 /\ Len(s) \in Nat
      /\ \A i \in 1 .. Len(s) : t[i] = s[i]
      /\ t[Len(s) + 1] = x
  BY AppendProperties, LenProperties
<1>2. <<x>> \in Seq(Entries) /\ Len(<<x>>) = 1 /\ <<x>>[1] = x
  OBVIOUS
<1> DEFINE o == <<x>>
<1> HIDE DEF t, o
<1>3. o \in Seq(Entries) /\ Joins(t, s, o)
  BY <1>1, <1>2 DEF o, Joins
<1>4. Times(t, e) = Times(s, e) + Times(o, e)
  BY <1>1, <1>3, TimesInTwo
<1> QED
  BY <1>1, <1>4, TimesOfOne DEF t, o

(* The first of a queue and the rest.                                      *)
LEMMA TimesHeadTail ==
    ASSUME NEW s \in Seq(Entries), s # <<>>, NEW e
    PROVE  /\ Head(s) \in Entries /\ Tail(s) \in Seq(Entries)
           /\ Times(s, e) = (IF Head(s) = e THEN 1 ELSE 0) + Times(Tail(s), e)
<1> DEFINE t == Tail(s)
           h == Head(s)
           o == <<h>>
<1>1. /\ h \in Entries /\ t \in Seq(Entries) /\ Len(t) = Len(s) - 1 /\ Len(s) \in Nat
      /\ \A i \in 1 .. Len(t) : t[i] = s[i + 1]
  BY HeadTailProperties, LenProperties
<1>2. h = s[1]
  OBVIOUS
<1> HIDE DEF t, h
<1>3. o \in Seq(Entries) /\ Len(o) = 1 /\ o[1] = h
  BY <1>1
<1> HIDE DEF o
<1>4. Joins(s, o, t)
  BY <1>1, <1>2, <1>3, LenProperties DEF Joins
<1>5. Times(s, e) = Times(o, e) + Times(t, e)
  BY <1>1, <1>3, <1>4, TimesInTwo
<1>6. Times(o, e) = IF h = e THEN 1 ELSE 0
  BY <1>1, TimesOfOne DEF o
<1> QED
  BY <1>1, <1>5, <1>6 DEF t, h

(* A queue cut in two.                                                     *)
LEMMA TimesCut ==
    ASSUME NEW s \in Seq(Entries), NEW k \in Nat, k <= Len(s), NEW e
    PROVE  /\ SubSeq(s, 1, k) \in Seq(Entries) /\ SubSeq(s, k + 1, Len(s)) \in Seq(Entries)
           /\ Times(s, e) = Times(SubSeq(s, 1, k), e) + Times(SubSeq(s, k + 1, Len(s)), e)
           /\ Times(SubSeq(s, 1, k), e) \in Nat
           /\ Times(SubSeq(s, k + 1, Len(s)), e) \in Nat
<1> DEFINE a == SubSeq(s, 1, k)
           b == SubSeq(s, k + 1, Len(s))
<1>1. Len(s) \in Nat /\ \A i \in 1 .. Len(s) : s[i] \in Entries
  BY LenProperties, ElementOfSeq
<1>2. a \in Seq(Entries) /\ Len(a) = k /\ \A i \in 1 .. k : a[i] = s[i]
  <2>1. 1 \in Int /\ k \in Int /\ \A i \in 1 .. k : s[i] \in Entries
    BY <1>1
  <2> QED
    BY <2>1, SubSeqProperties
<1>3. /\ b \in Seq(Entries) /\ Len(b) = Len(s) - k
      /\ \A i \in 1 .. Len(b) : b[i] = s[k + i]
  <2>1. k + 1 \in Int /\ Len(s) \in Int /\ \A i \in k + 1 .. Len(s) : s[i] \in Entries
    BY <1>1
  <2>2. /\ b \in Seq(Entries) /\ Len(b) = (IF k + 1 <= Len(s) THEN Len(s) - (k + 1) + 1 ELSE 0)
        /\ \A i \in 1 .. Len(s) - (k + 1) + 1 : b[i] = s[(k + 1) + i - 1]
    BY <2>1, SubSeqProperties
  <2>3. Len(b) = Len(s) - k
    BY <1>1, <2>2
  <2>4. ASSUME NEW i \in 1 .. Len(b) PROVE b[i] = s[k + i]
    <3>1. i \in 1 .. Len(s) - (k + 1) + 1 /\ (k + 1) + i - 1 = k + i
      BY <1>1, <2>3
    <3> QED
      BY <2>2, <3>1
  <2> QED
    BY <2>2, <2>3, <2>4
<1> HIDE DEF a, b
<1>4. Times(s, e) = Times(a, e) + Times(b, e)
  <2>1. Joins(s, a, b)
    BY <1>1, <1>2, <1>3 DEF Joins
  <2> QED
    BY <1>2, <1>3, <2>1, TimesInTwo
<1> QED
  BY <1>2, <1>3, <1>4, TimesType DEF a, b

(* A queue turned round.                                                   *)
LEMMA TimesReverse ==
    ASSUME NEW s \in Seq(Entries), NEW e
    PROVE  Reverse(s) \in Seq(Entries) /\ Times(Reverse(s), e) = Times(s, e)
<1> DEFINE t == Reverse(s)
           turn == [i \in At(s, e) |-> (Len(s) - i) + 1]
<1>1. Len(s) \in Nat /\ t \in Seq(Entries) /\ t = [i \in 1 .. Len(s) |-> s[(Len(s) - i) + 1]]
  BY ReverseType, LenProperties DEF Reverse
<1>2. Len(t) = Len(s)
  <2>1. DOMAIN t = 1 .. Len(s) /\ DOMAIN t = 1 .. Len(t) /\ Len(t) \in Nat
    BY <1>1, LenProperties
  <2> HIDE DEF t
  <2> QED
    BY <1>1, <2>1
<1>3. ExistsBijection(At(s, e), At(t, e))
  <2>1. turn \in [At(s, e) -> At(t, e)]
    <3>1. ASSUME NEW i \in At(s, e) PROVE (Len(s) - i) + 1 \in At(t, e)
      <4>1. (Len(s) - i) + 1 \in 1 .. Len(t) /\ (Len(s) - ((Len(s) - i) + 1)) + 1 = i
        BY <1>1, <1>2 DEF At
      <4>2. t[(Len(s) - i) + 1] = s[i]
        BY <1>1, <1>2, <4>1
      <4> QED
        BY <4>1, <4>2 DEF At
    <3> QED
      BY <3>1
  <2>2. \A i, j \in At(s, e) : turn[i] = turn[j] => i = j
    BY <1>1 DEF At
  <2>3. ASSUME NEW m \in At(t, e) PROVE \E i \in At(s, e) : turn[i] = m
    <3>1. (Len(s) - m) + 1 \in 1 .. Len(s) /\ (Len(s) - ((Len(s) - m) + 1)) + 1 = m
      BY <1>1, <1>2 DEF At
    <3>2. t[m] = s[(Len(s) - m) + 1]
      BY <1>1, <1>2 DEF At
    <3>3. (Len(s) - m) + 1 \in At(s, e)
      BY <3>1, <3>2 DEF At
    <3> QED
      BY <3>1, <3>3
  <2> HIDE DEF turn, t
  <2>4. turn \in Bijection(At(s, e), At(t, e))
    BY <2>1, <2>2, <2>3, Fun_IsBij
  <2> QED
    BY <2>4, Fun_ExistsBij
<1> HIDE DEF t
<1>4. Cardinality(At(t, e)) = Cardinality(At(s, e))
  BY <1>3, TimesType, FS_Bijection
<1> QED
  BY <1>1, <1>4 DEF Times, t

(* A slice has the copies at its positions, so a shorter one has no more.  *)
LEMMA TimesInSlice ==
    ASSUME NEW s \in Seq(Entries), NEW m \in Nat \ {0}, NEW n \in Nat, n <= Len(s), NEW e
    PROVE  /\ SubSeq(s, m, n) \in Seq(Entries)
           /\ IsFiniteSet(Within(s, m, n, e))
           /\ Times(SubSeq(s, m, n), e) = Cardinality(Within(s, m, n, e))
<1> DEFINE t == SubSeq(s, m, n)
           among == Within(s, m, n, e)
           shift == [i \in At(t, e) |-> (m + i) - 1]
<1>1. Len(s) \in Nat /\ \A i \in m .. n : s[i] \in Entries
  BY LenProperties, ElementOfSeq
<1>2. /\ t \in Seq(Entries) /\ Len(t) = (IF m <= n THEN n - m + 1 ELSE 0)
      /\ \A i \in 1 .. n - m + 1 : t[i] = s[m + i - 1]
  <2>1. m \in Int /\ n \in Int
    OBVIOUS
  <2> QED
    BY <1>1, <2>1, SubSeqProperties
<1> HIDE DEF t
<1>3. \A i : i \in 1 .. Len(t) => /\ (m + i) - 1 \in m .. n /\ t[i] = s[(m + i) - 1]
                                /\ i \in Nat
  BY <1>2
<1>4. \A j \in m .. n : /\ (j - m) + 1 \in 1 .. Len(t) /\ (m + ((j - m) + 1)) - 1 = j
                       /\ t[(j - m) + 1] = s[j]
  <2>1. ASSUME NEW j \in m .. n
        PROVE  (j - m) + 1 \in 1 .. Len(t) /\ (m + ((j - m) + 1)) - 1 = j
    BY <1>2
  <2> QED
    BY <1>3, <2>1
<1>5. ExistsBijection(At(t, e), among)
  <2>1. shift \in [At(t, e) -> among]
    BY <1>3 DEF At, Within
  <2>2. \A i, j \in At(t, e) : shift[i] = shift[j] => i = j
    BY <1>3 DEF At
  <2>3. ASSUME NEW j \in among PROVE \E i \in At(t, e) : shift[i] = j
    <3>1. (j - m) + 1 \in At(t, e) /\ (m + ((j - m) + 1)) - 1 = j
      BY <1>4 DEF At, Within
    <3> QED
      BY <3>1
  <2> HIDE DEF shift, among
  <2>4. shift \in Bijection(At(t, e), among)
    BY <2>1, <2>2, <2>3, Fun_IsBij
  <2> QED
    BY <2>4, Fun_ExistsBij
<1> HIDE DEF among
<1>6. IsFiniteSet(among) /\ Cardinality(among) = Cardinality(At(t, e))
  BY <1>2, <1>5, TimesType, FS_Bijection
<1> QED
  BY <1>2, <1>6 DEF Times, t, among

(* A slice of a queue has no more copies than a longer one.                *)
LEMMA TimesInside ==
    ASSUME NEW s \in Seq(Entries), NEW e,
           NEW m \in Nat \ {0}, NEW n \in Nat, n <= Len(s),
           NEW k \in Nat \ {0}, NEW l \in Nat, k <= m, n <= l, l <= Len(s)
    PROVE  /\ Times(SubSeq(s, m, n), e) <= Times(SubSeq(s, k, l), e)
           /\ Times(SubSeq(s, k, l), e) <= Times(s, e)
<1> DEFINE inner == Within(s, m, n, e)
           outer == Within(s, k, l, e)
<1>1. /\ IsFiniteSet(outer) /\ Times(SubSeq(s, k, l), e) = Cardinality(outer)
      /\ Times(SubSeq(s, m, n), e) = Cardinality(inner)
  BY TimesInSlice
<1>2. inner \in SUBSET outer /\ outer \in SUBSET At(s, e)
  BY LenProperties DEF At, Within
<1> HIDE DEF inner, outer
<1>3. Cardinality(inner) <= Cardinality(outer)
  BY <1>1, <1>2, FS_Subset
<1>4. Cardinality(outer) <= Cardinality(At(s, e))
  BY <1>2, TimesType, FS_Subset
<1> QED
  BY <1>1, <1>3, <1>4 DEF Times

(* A chunk is cut off what a flush has drained.                            *)
LEMMA TimesChunk ==
    ASSUME NEW s \in Seq(Entries), NEW e
    PROVE  /\ FirstChunk(s) \in Seq(Entries) /\ AfterChunk(s) \in Seq(Entries)
           /\ Times(s, e) = Times(FirstChunk(s), e) + Times(AfterChunk(s), e)
<1>1. ChunkMax \in Nat /\ Len(s) \in Nat
  BY LenProperties, ConfigAssumption
<1>2. PICK k \in Nat : k = Min({ChunkMax, Len(s)}) /\ k <= Len(s)
  BY <1>1, MinOfTwo
<1>3. Times(s, e) = Times(SubSeq(s, 1, k), e) + Times(SubSeq(s, k + 1, Len(s)), e)
  BY <1>2, TimesCut
<1> QED
  BY <1>2, <1>3, ChunkCut DEF FirstChunk, AfterChunk

-----------------------------------------------------------------------------
(* Counting in the batch of the tick.                                      *)

(* What is left to publish.                                                *)
LEMMA UnsentTimes ==
    ASSUME batch \in Seq(Entries), pos \in 0 .. Len(batch), NEW e
    PROVE  /\ Unsent \in Seq(Entries) /\ Times(Unsent, e) \in Nat
           /\ Times(batch, e) \in Nat /\ Times(Unsent, e) <= Times(batch, e)
           /\ pos = 0 => Times(Unsent, e) = Times(batch, e)
           /\ pos = Len(batch) => Times(Unsent, e) = 0
<1>1. Len(batch) \in Nat /\ pos \in Nat /\ pos <= Len(batch)
  BY LenProperties
<1> DEFINE front == Times(SubSeq(batch, 1, pos), e)
           back == Times(Unsent, e)
<1>2. /\ Unsent \in Seq(Entries) /\ Times(batch, e) = front + back
      /\ front \in Nat /\ back \in Nat
  BY <1>1, TimesCut DEF Unsent
<1>3. pos = 0 => front = 0
  <2>1. 1 \in Int /\ 0 \in Int /\ 0 < 1
    OBVIOUS
  <2>2. SubSeq(batch, 1, 0) = <<>>
    BY <2>1, SubSeqEmpty
  <2>3. Times(<<>>, e) = 0
    BY EmptyTimes
  <2> QED
    BY <2>2, <2>3
<1>4. pos = Len(batch) => back = 0
  <2> SUFFICES ASSUME pos = Len(batch) PROVE back = 0
    OBVIOUS
  <2>1. pos + 1 \in Int /\ Len(batch) \in Int /\ Len(batch) < pos + 1
    BY <1>1
  <2>2. Unsent = <<>>
    BY <2>1, SubSeqEmpty DEF Unsent
  <2> QED
    BY <2>2, EmptyTimes
<1> HIDE DEF front, back
<1>5. back <= front + back /\ (front = 0 => front + back = back)
  BY <1>2
<1> QED
  BY <1>2, <1>3, <1>4, <1>5 DEF back

(* The next entry of the batch is accepted.                                *)
LEMMA NextUnsent ==
    ASSUME batch \in Seq(Entries), pos \in 0 .. Len(batch), pos < Len(batch),
           batch' = batch, pos' = pos + 1, NEW e
    PROVE  /\ batch[pos + 1] \in Entries
           /\ Times(Unsent, e) = (IF batch[pos + 1] = e THEN 1 ELSE 0) + Times(Unsent', e)
           /\ Times(Unsent', e) \in Nat
<1>1. /\ Len(batch) \in Nat /\ pos + 1 \in 1 .. Len(batch)
      /\ Len(batch) \in pos + 1 .. Len(batch)
  BY LenProperties
<1>2. Head(Unsent) = batch[pos + 1] /\ Tail(Unsent) = SubSeq(batch, pos + 1 + 1, Len(batch))
  BY <1>1, HeadTailOfSubSeq DEF Unsent
<1>3. Tail(Unsent) = Unsent'
  BY <1>2 DEF Unsent
<1>4. Unsent \in Seq(Entries) /\ Unsent # <<>>
  <2>1. Unsent \in Seq(Entries)
    BY UnsentTimes
  <2>2. Len(Unsent) = Len(batch) - pos
    <3>1. pos + 1 \in Nat \ {0} /\ Len(batch) \in Nat /\ Len(batch) <= Len(batch)
      BY <1>1
    <3>2. Len(Unsent) = IF pos + 1 <= Len(batch) THEN Len(batch) - (pos + 1) + 1 ELSE 0
      BY <3>1, SliceType DEF Unsent
    <3> QED
      BY <1>1, <3>2
  <2>3. Len(Unsent) # 0
    BY <1>1, <2>2
  <2> QED
    BY <2>1, <2>3, EmptySeq
<1> QED
  BY <1>2, <1>3, <1>4, TimesHeadTail, TimesType

(* What goes back into the buffer after a failed publish is part of the    *)
(* batch; the tail of a chunk is at least what is left of it.              *)
LEMMA SliceTimes ==
    ASSUME batch \in Seq(Entries), pos \in 0 .. Len(batch), NEW e
    PROVE  /\ FailedSlice \in Seq(Entries) /\ Times(FailedSlice, e) <= Times(batch, e)
           /\ UnpublishedTail \in Seq(Entries) /\ Times(UnpublishedTail, e) <= Times(batch, e)
           /\ Times(Unsent, e) <= Times(UnpublishedTail, e)
           /\ SliceStart # 0 => pos > 0
<1>1. pos \in Nat /\ Len(batch) \in Nat /\ pos <= Len(batch)
  BY LenProperties
<1>2. SliceStart \in Nat /\ SliceStart <= pos
  BY <1>1, PipelineAssumption DEF SliceStart
<1>3. SliceStart + PubBatch \in Nat
  BY <1>2, PipelineAssumption
<1>4. PICK k \in Nat : k = Min({SliceStart + PubBatch, Len(batch)}) /\ k <= Len(batch)
  BY <1>1, <1>3, MinOfTwo
<1> DEFINE a == SliceStart + 1
           b == pos + 1
           l == Len(batch)
<1>5. a \in Nat \ {0} /\ b \in Nat \ {0} /\ a <= b /\ l <= l /\ l \in Nat /\ a <= a /\ k <= k
  BY <1>1, <1>2, <1>4
<1> HIDE DEF a, b
<1>6. Times(SubSeq(batch, a, k), e) <= Times(batch, e)
  BY <1>4, <1>5, TimesInside
<1>7. /\ Times(SubSeq(batch, a, l), e) <= Times(batch, e)
      /\ Times(SubSeq(batch, b, l), e) <= Times(SubSeq(batch, a, l), e)
  BY <1>5, TimesInside
<1>8. SliceStart # 0 => pos > 0
  BY <1>1, <1>2
<1> QED
  BY <1>4, <1>6, <1>7, <1>8, SliceTypes DEF FailedSlice, UnpublishedTail, Unsent, a, b

-----------------------------------------------------------------------------
(* Where an entry is, and how often.                                       *)

(* Times on the way to the disk: at most one, ever.                       *)
Underway(e) ==
    Times(chan, e) + (IF hand = e THEN 1 ELSE 0) + Times(todo, e)
                    + Times(memory, e) + Times(flushing, e)

(* Times the tick is still to hand over or to put back.                   *)
InTick(e) ==
    IF tpc \in {"pubMem", "relock", "pubDisk", "relockDisk"} THEN Times(Unsent, e) ELSE 0

(* The chunk the tick has read is counted with the tick.                   *)
Aside == IF tpc \in {"pubDisk", "relockDisk", "repushDisk"} THEN {path} ELSE {}

Holding(e) == {n \in DOMAIN spool \ Aside : Times(spool[n], e) > 0}
InChunks(e) == Cardinality(Holding(e))

InRead(e) == IF path \in DOMAIN spool THEN Times(spool[path], e) ELSE 0

(* A shutdown that is under way can still bring one copy more to light: it *)
(* cancels the tick, or makes a publish fail, after part of the batch has  *)
(* been accepted.                                                          *)
MayRecur(e) ==
    /\ phase = "signalled"
    /\ tpc \notin {"flushWait", "flush", "exit"}
    /\ \/ loopAlive
       \/ Publishing /\ Times(batch, e) > Times(Unsent, e)
       \/ tpc \in {"pubDisk", "relockDisk"} /\ InRead(e) > Times(Unsent, e)

Recurs(e) == IF MayRecur(e) THEN 1 ELSE 0

Total(e) == handed[e] + Underway(e) + InTick(e) + InChunks(e) + Recurs(e)
Allowed == 1 + crashes + signals + faults

(* The batch, while it may go back into the queues; a chunk of which       *)
(* nothing was accepted does not.                                          *)
MemoryLoad(e) == IF tpc \in {"pubMem", "relock", "relockDisk"} THEN Times(batch, e) ELSE 0
Load(e) ==
    IF tpc = "pubDisk" /\ (loopAlive \/ pos > 0) THEN Times(batch, e) ELSE MemoryLoad(e)

(* The invariant of one entry.                                             *)
CountInv(e) ==
    /\ Total(e) <= Allowed
    /\ Underway(e) + Load(e) <= 1
    /\ Times(batch, e) <= 1
    /\ \A n \in DOMAIN spool : Times(spool[n], e) <= 1
    /\ loopAlive /\ (\E n \in DOMAIN spool : Times(spool[n], e) > 0)
          => Underway(e) + MemoryLoad(e) = 0
    /\ e > produced => /\ Underway(e) = 0 /\ Times(batch, e) = 0 /\ handed[e] = 0
                       /\ \A n \in DOMAIN spool : Times(spool[n], e) = 0

(* A publish fails only once the event loop is gone, and that only in a    *)
(* shutdown.                                                               *)
ShutdownInv ==
    /\ tpc \in {"relock", "repush", "relockDisk", "repushDisk"} => ~loopAlive
    /\ ~loopAlive => phase = "signalled"
    /\ phase = "signalled" => signals > 0

FewChunks == IsFiniteSet(DOMAIN spool)

CInv == FewChunks /\ ShutdownInv /\ \A e \in Entries : CountInv(e)

-----------------------------------------------------------------------------
(* The counts are numbers.                                                 *)
Naturals(e) ==
    /\ handed[e] \in Nat /\ Underway(e) \in Nat /\ InTick(e) \in Nat /\ InChunks(e) \in Nat
    /\ Recurs(e) \in Nat /\ Total(e) \in Nat /\ InRead(e) \in Nat
    /\ Times(batch, e) \in Nat /\ Times(Unsent, e) \in Nat
    /\ Load(e) \in Nat /\ MemoryLoad(e) \in Nat

Limits(e) ==
    /\ Recurs(e) <= 1
    /\ Times(Unsent, e) <= Times(batch, e) /\ InTick(e) <= Times(Unsent, e)
    /\ pos = 0 => Times(Unsent, e) = Times(batch, e)
    /\ pos = Len(batch) => Times(Unsent, e) = 0
    /\ Load(e) <= Times(batch, e) /\ MemoryLoad(e) <= Load(e)

NumbersOK(e) ==
    /\ Naturals(e) /\ Limits(e)
    /\ IsFiniteSet(Holding(e))
    /\ \A n \in DOMAIN spool : Times(spool[n], e) \in Nat

AllNumbersOK == /\ \A e \in Entries : NumbersOK(e)
                /\ Allowed \in Nat /\ produced \in Nat

LEMMA Numbers == IInv /\ FewChunks => AllNumbersOK
<1> SUFFICES ASSUME IInv, FewChunks PROVE AllNumbersOK
  OBVIOUS
<1>1. /\ \A n \in DOMAIN spool : spool[n] \in Seq(Entries)
      /\ memory \in Seq(Entries) /\ todo \in Seq(Entries) /\ flushing \in Seq(Entries)
      /\ chan \in Seq(Entries) /\ batch \in Seq(Entries) /\ pos \in 0 .. Len(batch)
      /\ handed \in [Entries -> Nat] /\ produced \in Nat
      /\ crashes \in Nat /\ signals \in Nat /\ faults \in Nat
  BY DEF IInv, TypeOK, FilesTypeOK, BufferTypeOK, TaskTypeOK, ProcessTypeOK
<1>2. Allowed \in Nat
  BY <1>1 DEF Allowed
<1>3. ASSUME NEW e \in Entries PROVE NumbersOK(e)
  <2>1. /\ Times(chan, e) \in Nat /\ Times(todo, e) \in Nat /\ Times(memory, e) \in Nat
        /\ Times(flushing, e) \in Nat /\ \A n \in DOMAIN spool : Times(spool[n], e) \in Nat
    BY <1>1, TimesType
  <2>2. Underway(e) \in Nat
    BY <2>1 DEF Underway
  <2>3. /\ Times(Unsent, e) \in Nat /\ Times(batch, e) \in Nat
        /\ Times(Unsent, e) <= Times(batch, e)
        /\ pos = 0 => Times(Unsent, e) = Times(batch, e)
        /\ pos = Len(batch) => Times(Unsent, e) = 0
    BY <1>1, UnsentTimes
  <2>4. InTick(e) \in Nat /\ InTick(e) <= Times(Unsent, e)
    BY <2>3 DEF InTick
  <2>5. /\ MemoryLoad(e) \in Nat /\ Load(e) \in Nat
        /\ MemoryLoad(e) <= Load(e) /\ Load(e) <= Times(batch, e)
    BY <2>3 DEF MemoryLoad, Load
  <2>6. Holding(e) \in SUBSET DOMAIN spool
    BY DEF Holding
  <2>7. IsFiniteSet(Holding(e)) /\ InChunks(e) \in Nat
    BY <2>6, FS_Subset, FS_CardinalityType DEF FewChunks, InChunks
  <2>8. InRead(e) \in Nat /\ Recurs(e) \in Nat /\ Recurs(e) <= 1
    BY <2>1 DEF InRead, Recurs
  <2>9. Total(e) \in Nat
    <3>1. handed[e] \in Nat
      BY <1>1
    <3> QED
      BY <3>1, <2>2, <2>4, <2>7, <2>8 DEF Total
  <2> QED
    BY <1>1, <2>1, <2>2, <2>3, <2>4, <2>5, <2>7, <2>8, <2>9
    DEF NumbersOK, Naturals, Limits
<1> QED
  BY <1>1, <1>2, <1>3 DEF AllNumbersOK

LEMMA NumbersNext == ASSUME IInv', FewChunks' PROVE AllNumbersOK'
BY Numbers, PTL

-----------------------------------------------------------------------------
(* The two parts of the invariant that do not count.                       *)
LEMMA ShutdownStep == ASSUME IInv, ShutdownInv, [Next]_vars PROVE ShutdownInv'
<1>1. signals \in Nat
  BY DEF IInv, TypeOK, ProcessTypeOK
<1>2. CASE Write \/ IngestPush \/ Repush
  <2>1. UNCHANGED <<tpc, loopAlive, phase, signals>>
    BY <1>2 DEF Write, IngestPush, Repush, tickVars, mqttVars, procVars
  <2> QED
    BY <2>1 DEF ShutdownInv
<1>3. CASE Signal
  BY <1>1, <1>3 DEF Signal, ShutdownInv, tickVars, mqttVars
<1>4. CASE PublishFailMemory \/ PublishFailDisk
  BY <1>4 DEF PublishFailMemory, PublishFailDisk, EndTick, ShutdownInv, mqttVars, procVars
<1>5. CASE Relock
  BY <1>5 DEF Relock, ShutdownInv, mqttVars, procVars
<1>6. CASE Exit \/ Crash
  BY <1>6 DEF Exit, Crash, Vanish, EndTick, ShutdownInv
<1>7. CASE LoopStop
  BY <1>7 DEF LoopStop, ShutdownInv, tickVars, procVars
<1>8. CASE Restart
  BY <1>8 DEF Restart, ShutdownInv, tickVars, mqttVars
<1>9. CASE \/ TickStart \/ DrainMemory \/ NextDiskChunk \/ ListFault \/ ReadChunk \/ ReadFault
           \/ PublishEntry \/ FinishMemory \/ FinishDisk \/ Discard \/ Backoff \/ DeletePartial
           \/ CancelTick \/ ShutdownFlush \/ ShutdownNothing \/ ShutdownFlushed
  <2>1. /\ UNCHANGED <<loopAlive, phase, signals>>
        /\ tpc' \notin {"relock", "repush", "relockDisk", "repushDisk"} \/ tpc' = tpc
    BY <1>9 DEF TickStart, DrainMemory, NextDiskChunk, ListFault, ReadChunk, ReadFault,
       PublishEntry, FinishMemory, FinishDisk, Discard, Backoff, DeletePartial, CancelTick,
       ShutdownFlush, ShutdownNothing, ShutdownFlushed, EndTick, mqttVars, procVars
  <2> QED
    BY <2>1 DEF ShutdownInv
<1>10. CASE \/ IngestRecv \/ IngestLock \/ IngestRelease \/ IngestStop \/ Produce
            \/ Connect \/ Disconnect \/ Send \/ UNCHANGED vars
  <2>1. UNCHANGED <<tpc, loopAlive, phase, signals>>
    BY <1>10 DEF IngestRecv, IngestLock, IngestRelease, IngestStop, Produce, Connect,
       Disconnect, Send, vars, tickVars, mqttVars, procVars
  <2> QED
    BY <2>1 DEF ShutdownInv
<1> QED
  BY <1>2, <1>3, <1>4, <1>5, <1>6, <1>7, <1>8, <1>9, <1>10
  DEF Next, IngestTask, Tick, Shutdown, EventLoop, Environment

LEMMA FewChunksStep == ASSUME FewChunks, [Next]_vars PROVE FewChunks'
<1>1. DOMAIN spool' \subseteq DOMAIN spool \cup {target}
  <2>1. CASE Write
    BY <2>1, WriteFootprint DEF EvictPick, EvictRemove, WriteTmp, RenameChunk, Without, With,
       diskVars
  <2>2. CASE ~Write
    <3>1. UNCHANGED spool \/ DeleteChunk
      BY <2>2, FlushFootprint
    <3> QED
      BY <3>1 DEF DeleteChunk, DeleteFile, Without
  <2> QED
    BY <2>1, <2>2
<1>2. IsFiniteSet(DOMAIN spool \cup {target})
  BY FS_AddElement DEF FewChunks
<1> QED
  BY <1>1, <1>2, FS_Subset DEF FewChunks

-----------------------------------------------------------------------------
(* How the counts change.                                                  *)

(* A set that gains at most one element.                                   *)
LEMMA OneMoreElement ==
    ASSUME NEW A, NEW B, NEW x, IsFiniteSet(A), B \subseteq A \cup {x}
    PROVE  Cardinality(B) <= Cardinality(A) + 1
<1>1. /\ IsFiniteSet(A \cup {x}) /\ Cardinality(A) \in Nat
      /\ Cardinality(A \cup {x}) <= Cardinality(A) + 1
  <2>1. /\ IsFiniteSet(A \cup {x})
        /\ Cardinality(A \cup {x}) = IF x \in A THEN Cardinality(A) ELSE Cardinality(A) + 1
    BY FS_AddElement
  <2>2. Cardinality(A) \in Nat
    BY FS_CardinalityType
  <2> QED
    BY <2>1, <2>2
<1>2. Cardinality(B) <= Cardinality(A \cup {x}) /\ IsFiniteSet(B)
  BY <1>1, FS_Subset
<1>3. Cardinality(B) \in Nat /\ Cardinality(A \cup {x}) \in Nat
  BY <1>1, <1>2, FS_CardinalityType
<1> QED
  BY <1>1, <1>2, <1>3

(* What holds around a step.                                               *)
Around == /\ IInv /\ CInv /\ RenameInv
          /\ IInv' /\ FewChunks' /\ AllNumbersOK /\ AllNumbersOK'

(* The sum is no larger when its parts are not.                            *)
LEMMA TotalLess ==
    ASSUME NEW e, Naturals(e), Naturals(e)', handed'[e] = handed[e],
           Underway(e)' + InTick(e)' <= Underway(e) + InTick(e),
           InChunks(e)' = InChunks(e), Recurs(e)' <= Recurs(e)
    PROVE  Total(e)' <= Total(e)
BY DEF Naturals, Total

LEMMA TotalWithin ==
    ASSUME NEW e, Naturals(e), Naturals(e)', Allowed \in Nat, Allowed' \in Nat,
           handed'[e] = handed[e],
           Underway(e)' + InTick(e)' + InChunks(e)' + Recurs(e)' + Allowed
             <= Underway(e) + InTick(e) + InChunks(e) + Recurs(e) + Allowed'
    PROVE  Total(e)' + Allowed <= Total(e) + Allowed'
BY DEF Naturals, Total

(* A step after which the counts are no larger, but for what is allowed.   *)
LEMMA NoMore ==
    ASSUME Around, NEW e \in Entries,
           Total(e)' + Allowed <= Total(e) + Allowed',
           Underway(e)' + Load(e)' <= Underway(e) + Load(e),
           Times(batch, e)' <= Times(batch, e),
           \A n \in DOMAIN spool' : n \in DOMAIN spool /\ spool'[n] = spool[n],
           \/ loopAlive' =>
                 loopAlive /\ Underway(e)' + MemoryLoad(e)' <= Underway(e) + MemoryLoad(e)
           \/ Underway(e)' + MemoryLoad(e)' = 0,
           handed'[e] = handed[e], produced' = produced
    PROVE  CountInv(e)'
<1>1. /\ CountInv(e) /\ Naturals(e) /\ Naturals(e)' /\ Limits(e)
      /\ Allowed \in Nat /\ Allowed' \in Nat
  BY DEF Around, CInv, AllNumbersOK, NumbersOK
<1>2. Total(e) \in Nat /\ Total(e)' \in Nat
  BY <1>1 DEF Naturals
<1>3. Total(e)' <= Allowed'
  BY <1>1, <1>2 DEF CountInv
<1>4. /\ Underway(e) \in Nat /\ Underway(e)' \in Nat /\ Load(e) \in Nat /\ Load(e)' \in Nat
      /\ MemoryLoad(e) \in Nat /\ MemoryLoad(e)' \in Nat /\ Load(e) <= Times(batch, e)
      /\ Times(batch, e) \in Nat /\ Times(batch, e)' \in Nat
  BY <1>1 DEF Naturals, Limits
<1>5. Underway(e)' + Load(e)' <= 1 /\ Times(batch, e)' <= 1
  BY <1>1, <1>4 DEF CountInv
<1>6. \A n \in DOMAIN spool' : Times(spool'[n], e) <= 1
  BY <1>1 DEF CountInv
<1>7. loopAlive' /\ (\E n \in DOMAIN spool' : Times(spool'[n], e) > 0)
        => Underway(e)' + MemoryLoad(e)' = 0
  <2> SUFFICES ASSUME loopAlive', \E n \in DOMAIN spool' : Times(spool'[n], e) > 0
               PROVE  Underway(e)' + MemoryLoad(e)' = 0
    OBVIOUS
  <2>1. loopAlive => Underway(e) + MemoryLoad(e) = 0
    BY <1>1 DEF CountInv
  <2> QED
    BY <1>4, <2>1
<1>8. e > produced' => /\ Underway(e)' = 0 /\ Times(batch, e)' = 0 /\ handed'[e] = 0
                       /\ \A n \in DOMAIN spool' : Times(spool'[n], e) = 0
  <2> SUFFICES ASSUME e > produced'
               PROVE  /\ Underway(e)' = 0 /\ Times(batch, e)' = 0 /\ handed'[e] = 0
                      /\ \A n \in DOMAIN spool' : Times(spool'[n], e) = 0
    OBVIOUS
  <2>1. /\ Underway(e) = 0 /\ Times(batch, e) = 0 /\ handed[e] = 0
        /\ \A n \in DOMAIN spool : Times(spool[n], e) = 0
    BY <1>1 DEF CountInv
  <2>2. Underway(e)' = 0 /\ Times(batch, e)' = 0
    BY <1>4, <2>1
  <2> QED
    BY <2>1, <2>2
<1> QED
  BY <1>3, <1>5, <1>6, <1>7, <1>8 DEF CountInv

-----------------------------------------------------------------------------
(* The steps that move a copy through the queues, or drop it there.        *)

(* The types of the queues.                                                *)
LEMMA QueueTypes ==
    ASSUME IInv
    PROVE  /\ chan \in Seq(Entries) /\ todo \in Seq(Entries) /\ memory \in Seq(Entries)
           /\ flushing \in Seq(Entries) /\ hand \in Entries \cup {0}
           /\ batch \in Seq(Entries) /\ pos \in 0 .. Len(batch)
           /\ \A n \in DOMAIN spool : spool[n] \in Seq(Entries)
BY DEF IInv, TypeOK, FilesTypeOK, BufferTypeOK, TaskTypeOK

LEMMA QueueCounts ==
    ASSUME IInv, NEW e
    PROVE  /\ Times(chan, e) \in Nat /\ Times(todo, e) \in Nat /\ Times(memory, e) \in Nat
           /\ Times(flushing, e) \in Nat /\ Times(batch, e) \in Nat
BY QueueTypes, TimesType

(* Buffer::push, and the flush it may begin.                               *)
LEMMA PushCount ==
    ASSUME IInv, NEW e, NEW h, PushToMemory(h) \/ FlushForPush(h), UNCHANGED <<chan, hand>>
    PROVE  Underway(e)' <= Underway(e)
<1>1. CASE PushToMemory(h)
  <2>1. /\ todo # <<>> /\ memory' = Append(memory, Head(todo)) /\ todo' = Tail(todo)
        /\ flushing' = flushing
    BY <1>1 DEF PushToMemory, writeVars
  <2>2. /\ Head(todo) \in Entries
        /\ Times(todo, e) = (IF Head(todo) = e THEN 1 ELSE 0) + Times(Tail(todo), e)
    BY <2>1, QueueTypes, TimesHeadTail
  <2>3. Times(memory', e) = Times(memory, e) + (IF Head(todo) = e THEN 1 ELSE 0)
    BY <2>1, <2>2, QueueTypes, TimesAppend
  <2>4. Times(Tail(todo), e) \in Nat
    BY <2>1, QueueTypes, HeadTailProperties, TimesType
  <2> QED
    BY <2>1, <2>2, <2>3, <2>4, QueueCounts DEF Underway
<1>2. CASE FlushForPush(h)
  <2>1. memory' = <<>> /\ flushing' = memory /\ todo' = todo
    BY <1>2 DEF FlushForPush, BeginFlush
  <2>2. Times(<<>>, e) = 0
    BY EmptyTimes
  <2> QED
    BY <2>1, <2>2, QueueCounts DEF Underway
<1> QED
  BY <1>1, <1>2

(* A flush that gives up.                                                  *)
LEMMA AbortCount ==
    ASSUME IInv, NEW e, AbortFlush, UNCHANGED <<chan, hand>>
    PROVE  Underway(e)' <= Underway(e)
<1>1. memory' = memory /\ flushing' = <<>> /\ todo' = IF todo = <<>> THEN <<>> ELSE Tail(todo)
  BY DEF AbortFlush
<1>2. Times(<<>>, e) = 0
  BY EmptyTimes
<1>3. Times(todo', e) \in Nat /\ Times(todo', e) <= Times(todo, e)
  <2>1. CASE todo = <<>>
    BY <1>1, <2>1, <1>2
  <2>2. CASE todo # <<>>
    <3>1. Times(todo, e) = (IF Head(todo) = e THEN 1 ELSE 0) + Times(Tail(todo), e)
      BY <2>2, QueueTypes, TimesHeadTail
    <3>2. Times(Tail(todo), e) \in Nat
      BY <2>2, QueueTypes, HeadTailProperties, TimesType
    <3> QED
      BY <1>1, <2>2, <3>1, <3>2
  <2> QED
    BY <2>1, <2>2
<1> QED
  BY <1>1, <1>2, <1>3, QueueCounts DEF Underway

(* The ingestion task receives, locks, and stops.                          *)
LEMMA IngestCount ==
    ASSUME IInv, NEW e \in Entries, IngestRecv \/ IngestLock \/ IngestStop
    PROVE  Underway(e)' <= Underway(e)
<1>1. CASE IngestRecv
  <2>1. /\ chan # <<>> /\ hand' = Head(chan) /\ chan' = Tail(chan)
        /\ UNCHANGED <<todo, memory, flushing>>
    BY <1>1 DEF IngestRecv, bufVars, writeVars
  <2>2. Times(chan, e) = (IF Head(chan) = e THEN 1 ELSE 0) + Times(Tail(chan), e)
    BY <2>1, QueueTypes, TimesHeadTail
  <2>3. Times(Tail(chan), e) \in Nat
    BY <2>1, QueueTypes, HeadTailProperties, TimesType
  <2> QED
    BY <2>1, <2>2, <2>3, QueueCounts DEF Underway
<1>2. CASE IngestLock
  <2>1. todo' = <<hand>> /\ hand' = 0 /\ UNCHANGED <<chan, memory, flushing>> /\ hand \in Entries
    BY <1>2 DEF IngestLock, writeVars, IInv, TaskState
  <2>2. Times(todo', e) = IF hand = e THEN 1 ELSE 0
    BY <2>1, TimesOfOne
  <2>3. e # 0
    BY PipelineAssumption DEF Entries
  <2> QED
    BY <2>1, <2>2, <2>3, QueueCounts DEF Underway
<1>3. CASE IngestStop
  <2>1. chan' = <<>> /\ UNCHANGED <<hand, todo, memory, flushing>>
    BY <1>3 DEF IngestStop, bufVars, writeVars
  <2>2. Times(<<>>, e) = 0
    BY EmptyTimes
  <2> QED
    BY <2>1, <2>2, QueueCounts DEF Underway
<1> QED
  BY <1>1, <1>2, <1>3

-----------------------------------------------------------------------------
(* Steps that leave the tick and the chunks alone.                         *)
LEMMA QuietCount ==
    ASSUME Around, NEW e \in Entries,
           UNCHANGED <<tickVars, spool, handed, produced, loopAlive>>,
           phase' \in {phase, "running"}, Underway(e)' <= Underway(e), Allowed <= Allowed'
    PROVE  CountInv(e)'
<1>1. /\ InTick(e)' = InTick(e) /\ InChunks(e)' = InChunks(e)
      /\ Load(e)' = Load(e) /\ MemoryLoad(e)' = MemoryLoad(e)
      /\ Times(batch, e)' = Times(batch, e)
  BY DEF InTick, Unsent, InChunks, Holding, Aside, Load, MemoryLoad, tickVars
<1>2. Naturals(e) /\ Naturals(e)' /\ Allowed \in Nat /\ Allowed' \in Nat
  BY DEF Around, AllNumbersOK, NumbersOK
<1>3. Total(e)' + Allowed <= Total(e) + Allowed'
  <2>1. Recurs(e)' <= Recurs(e)
    <3>1. MayRecur(e)' => MayRecur(e)
      BY DEF MayRecur, Publishing, InRead, Unsent, tickVars
    <3> QED
      BY <3>1 DEF Recurs
  <2> QED
    BY <1>1, <1>2, <2>1 DEF Total, Naturals
<1>4. /\ Underway(e)' + Load(e)' <= Underway(e) + Load(e)
      /\ Underway(e)' + MemoryLoad(e)' <= Underway(e) + MemoryLoad(e)
  BY <1>1, <1>2 DEF Naturals
<1>5. Times(batch, e)' <= Times(batch, e)
  BY <1>1, <1>2 DEF Naturals
<1> QED
  BY <1>3, <1>4, <1>5, NoMore

(* Steps after which the tick holds nothing, and held no chunk before.     *)
LetGo ==
    /\ UNCHANGED <<spool, handed, produced, loopAlive, phase>>
    /\ tpc \notin {"pubDisk", "relockDisk", "repushDisk"}
    /\ tpc' \notin {"pubMem", "relock", "pubDisk", "relockDisk", "repushDisk"}
    /\ tpc \in {"flushWait", "flush", "exit"} => tpc' \in {"flushWait", "flush", "exit"}
    /\ batch' = batch \/ batch' = <<>>

LEMMA LetGoCount ==
    ASSUME Around, NEW e \in Entries, LetGo, Underway(e)' <= Underway(e), Allowed <= Allowed'
    PROVE  CountInv(e)'
<1>1. Naturals(e) /\ Naturals(e)' /\ Allowed \in Nat /\ Allowed' \in Nat
  BY DEF Around, AllNumbersOK, NumbersOK
<1>2. InTick(e)' = 0 /\ Load(e)' = 0 /\ MemoryLoad(e)' = 0
  BY DEF LetGo, InTick, Load, MemoryLoad
<1>3. InChunks(e)' = InChunks(e)
  BY DEF LetGo, InChunks, Holding, Aside
<1>4. Recurs(e)' <= Recurs(e)
  BY DEF LetGo, Recurs, MayRecur, Publishing
<1>5. Times(batch, e)' <= Times(batch, e)
  <2>1. Times(batch', e) = Times(batch, e) \/ Times(batch', e) = 0
    BY EmptyTimes DEF LetGo
  <2> QED
    BY <1>1, <2>1 DEF Naturals
<1>6. Total(e)' + Allowed <= Total(e) + Allowed'
  <2>1. handed'[e] = handed[e]
    BY DEF LetGo
  <2>2. Underway(e)' + InTick(e)' <= Underway(e) + InTick(e)
    BY <1>1, <1>2 DEF Naturals
  <2>3. Total(e)' <= Total(e)
    BY <1>1, <1>3, <1>4, <2>1, <2>2, TotalLess
  <2> QED
    BY <1>1, <2>3 DEF Naturals
<1>7. /\ Underway(e)' + Load(e)' <= Underway(e) + Load(e)
      /\ Underway(e)' + MemoryLoad(e)' <= Underway(e) + MemoryLoad(e)
  BY <1>1, <1>2 DEF Naturals
<1> QED
  BY <1>5, <1>6, <1>7, NoMore DEF LetGo

(* The memory buffer is drained into the batch.                            *)
LEMMA DrainCount ==
    ASSUME Around, NEW e \in Entries, DrainMemory
    PROVE  CountInv(e)'
<1>1. /\ tpc = "memory" /\ tpc' \in {"pubMem", "disk"} /\ batch' = memory /\ memory' = <<>>
      /\ pos' = pos
      /\ UNCHANGED <<chan, hand, todo, flushing, spool, handed, produced, loopAlive, phase,
                     faults, crashes, signals>>
  BY DEF DrainMemory, diskVars, writeVars, ingestVars, mqttVars, procVars
<1>2. pos = 0 /\ IInv'
  BY <1>1 DEF Around, IInv, TaskState
<1>3. Naturals(e) /\ Naturals(e)' /\ CountInv(e) /\ Allowed \in Nat /\ Allowed' = Allowed
  BY <1>1 DEF Around, CInv, AllNumbersOK, NumbersOK, Allowed
<1> DEFINE m == Times(memory, e)
<1>4. m \in Nat /\ Underway(e) = Underway(e)' + m
  <2>1. Times(<<>>, e) = 0
    BY EmptyTimes
  <2> QED
    BY <1>1, <2>1, QueueCounts DEF Underway, Around
<1>5. Times(batch, e)' = m
  BY <1>1
<1>6. Times(Unsent, e)' = Times(batch, e)'
  BY <1>1, <1>2 DEF Around, AllNumbersOK, NumbersOK, Limits
<1> HIDE DEF m
<1>7. InTick(e)' <= m /\ InTick(e) = 0
  BY <1>1, <1>3, <1>5, <1>6 DEF InTick, Naturals
<1>8. InChunks(e)' = InChunks(e)
  BY <1>1 DEF InChunks, Holding, Aside
<1>9. Recurs(e)' <= Recurs(e)
  <2>1. ~ (Times(batch, e)' > Times(Unsent, e)')
    BY <1>3, <1>6 DEF Naturals
  <2>2. MayRecur(e)' => MayRecur(e)
    BY <1>1, <2>1 DEF MayRecur
  <2> QED
    BY <2>2 DEF Recurs
<1>10. /\ Load(e)' = MemoryLoad(e)' /\ MemoryLoad(e)' <= m
       /\ Load(e) = 0 /\ MemoryLoad(e) = 0
  BY <1>1, <1>4, <1>5 DEF Load, MemoryLoad
<1>11. Total(e)' <= Allowed'
  <2>1. Total(e)' <= Total(e)
    <3>1. Underway(e)' + InTick(e)' <= Underway(e) + InTick(e)
      BY <1>3, <1>4, <1>7 DEF Naturals
    <3>2. handed'[e] = handed[e]
      BY <1>1
    <3> QED
      BY <1>3, <1>8, <1>9, <3>1, <3>2, TotalLess
  <2>2. Total(e) <= Allowed /\ Total(e) \in Nat /\ Total(e)' \in Nat
    BY <1>3 DEF CountInv, Naturals
  <2> QED
    BY <1>3, <2>1, <2>2
<1>12. Underway(e)' + m <= 1 /\ Underway(e)' \in Nat
  BY <1>3, <1>4, <1>10 DEF CountInv, Naturals
<1>13. /\ Underway(e)' + Load(e)' <= 1 /\ Times(batch, e)' <= 1
       /\ Underway(e)' + MemoryLoad(e)' <= Underway(e)
  BY <1>3, <1>4, <1>5, <1>10, <1>12 DEF Naturals
<1>14. loopAlive /\ (\E n \in DOMAIN spool : Times(spool[n], e) > 0)
         => Underway(e)' + MemoryLoad(e)' = 0
  <2> SUFFICES ASSUME loopAlive, \E n \in DOMAIN spool : Times(spool[n], e) > 0
               PROVE  Underway(e)' + MemoryLoad(e)' = 0
    OBVIOUS
  <2>1. Underway(e) + MemoryLoad(e) = 0
    BY <1>3 DEF CountInv
  <2> QED
    BY <1>3, <1>10, <1>13, <2>1 DEF Naturals
<1>15. e > produced => Underway(e)' = 0 /\ Times(batch, e)' = 0
  BY <1>3, <1>4, <1>5 DEF CountInv, Naturals
<1> QED
  BY <1>1, <1>3, <1>11, <1>13, <1>14, <1>15 DEF CountInv

(* The numbers around a step.                                              *)
LEMMA AroundNumbers ==
    ASSUME Around, NEW e \in Entries
    PROVE  /\ Naturals(e) /\ Naturals(e)' /\ Limits(e) /\ Limits(e)' /\ CountInv(e)
           /\ Allowed \in Nat /\ Allowed' \in Nat
           /\ IsFiniteSet(Holding(e)) /\ IsFiniteSet(Holding(e)')
           /\ \A n \in DOMAIN spool : Times(spool[n], e) \in Nat
BY DEF Around, CInv, AllNumbersOK, NumbersOK

(* A source produces an entry nothing has seen before.                     *)
LEMMA ProduceCount ==
    ASSUME Around, NEW e \in Entries, Produce
    PROVE  CountInv(e)'
<1> DEFINE new == IF produced + 1 = e THEN 1 ELSE 0
<1>1. /\ produced < MaxEntries /\ produced' = produced + 1 /\ chan' = Append(chan, produced + 1)
      /\ UNCHANGED <<bufVars, ingestVars, tickVars, mqttVars, procVars, handed>>
  BY DEF Produce
<1>2. produced \in Nat /\ produced + 1 \in Entries /\ e \in Nat
  BY <1>1, PipelineAssumption DEF Around, AllNumbersOK, Entries
<1>3. /\ Naturals(e) /\ Naturals(e)' /\ Limits(e) /\ CountInv(e)
      /\ Allowed \in Nat /\ Allowed' \in Nat
  BY AroundNumbers
<1>4. Underway(e)' = Underway(e) + new
  <2>1. Times(chan', e) = Times(chan, e) + new
    BY <1>1, <1>2, QueueTypes, TimesAppend DEF Around
  <2>2. IInv
    BY DEF Around
  <2> HIDE DEF new
  <2>3. /\ Times(todo', e) = Times(todo, e) /\ Times(memory', e) = Times(memory, e)
        /\ Times(flushing', e) = Times(flushing, e) /\ hand' = hand
    BY <1>1 DEF bufVars, writeVars, ingestVars
  <2>4. new \in Nat
    BY DEF new
  <2> QED
    BY <2>1, <2>2, <2>3, <2>4, QueueCounts DEF Underway
<1>5. /\ InTick(e)' = InTick(e) /\ InChunks(e)' = InChunks(e) /\ Recurs(e)' = Recurs(e)
      /\ Load(e)' = Load(e) /\ MemoryLoad(e)' = MemoryLoad(e)
      /\ Times(batch, e)' = Times(batch, e) /\ handed'[e] = handed[e]
      /\ Allowed' = Allowed /\ spool' = spool /\ loopAlive' = loopAlive
  BY <1>1 DEF InTick, Unsent, InChunks, Holding, Aside, Recurs, MayRecur, Publishing, InRead,
     Load, MemoryLoad, Allowed, tickVars, bufVars, diskVars, mqttVars, procVars
<1>6. CASE produced + 1 # e
  <2>1. Underway(e)' = Underway(e)
    BY <1>3, <1>4, <1>6 DEF Naturals
  <2>2. Total(e)' = Total(e) /\ (e > produced' => e > produced)
    BY <1>1, <1>2, <1>5, <2>1 DEF Total
  <2> QED
    BY <1>3, <1>5, <2>1, <2>2 DEF CountInv
<1>7. CASE produced + 1 = e
  <2>1. /\ Underway(e) = 0 /\ Times(batch, e) = 0 /\ handed[e] = 0
        /\ \A n \in DOMAIN spool : Times(spool[n], e) = 0
    BY <1>2, <1>3, <1>7 DEF CountInv
  <2>2. InChunks(e) = 0
    <3>1. Holding(e) = {}
      BY <2>1 DEF Holding
    <3> QED
      BY <3>1, FS_EmptySet DEF InChunks
  <2>3. InTick(e) = 0 /\ Load(e) = 0 /\ MemoryLoad(e) = 0
    BY <1>3, <2>1, SMTT(30) DEF Naturals, Limits
  <2>4. Underway(e)' = 1
    BY <1>4, <1>7, <2>1
  <2>5. 1 + Recurs(e) <= Allowed
    <3>1. crashes \in Nat /\ signals \in Nat /\ faults \in Nat
      BY DEF Around, IInv, TypeOK, BufferTypeOK, ProcessTypeOK
    <3>2. Recurs(e) = 1 => signals > 0
      BY DEF Recurs, MayRecur, Around, CInv, ShutdownInv
    <3>3. Recurs(e) = 0 \/ Recurs(e) = 1
      BY DEF Recurs
    <3> QED
      BY <3>1, <3>2, <3>3 DEF Allowed
  <2>6. Total(e)' <= Allowed'
    BY <1>3, <1>5, <2>1, <2>2, <2>3, <2>4, <2>5 DEF Total, Naturals
  <2>7. ~ (e > produced')
    BY <1>1, <1>2, <1>7
  <2> QED
    BY <1>5, <2>1, <2>3, <2>4, <2>6, <2>7 DEF CountInv
<1> QED
  BY <1>6, <1>7

(* The tick reads a chunk: what was counted on disk is now with the tick.  *)
LEMMA ReadCount ==
    ASSUME Around, NEW e \in Entries, ReadChunk, path \in DOMAIN spool
    PROVE  CountInv(e)'
<1>1. /\ tpc = "read" /\ tpc' = "pubDisk" /\ batch' = spool[path]
      /\ UNCHANGED <<chan, hand, todo, memory, flushing, spool, handed, produced, pos, path,
                     loopAlive, phase, faults, crashes, signals>>
  BY DEF ReadChunk, bufVars, diskVars, writeVars, ingestVars, mqttVars, procVars
<1>2. /\ Naturals(e) /\ Naturals(e)' /\ Limits(e)' /\ CountInv(e)
      /\ Allowed \in Nat /\ Allowed' = Allowed
  BY <1>1, AroundNumbers DEF Allowed
<1>3. pos' = 0
  BY <1>1 DEF Around, IInv, TaskState
<1> DEFINE c == Times(spool[path], e)
<1>4. c \in Nat /\ c <= 1 /\ Times(batch, e)' = c /\ InRead(e)' = c
  BY <1>1, <1>2, AroundNumbers DEF CountInv, InRead
<1>5. /\ Underway(e)' = Underway(e) /\ handed'[e] = handed[e]
      /\ InTick(e) = 0 /\ Load(e) = 0 /\ MemoryLoad(e) = 0 /\ MemoryLoad(e)' = 0
      /\ Load(e)' = IF loopAlive THEN Times(batch, e)' ELSE 0
  BY <1>1, <1>3 DEF Underway, InTick, Load, MemoryLoad
<1>6. Times(Unsent, e)' = Times(batch, e)' /\ InTick(e)' = Times(batch, e)'
  BY <1>1, <1>2, <1>3 DEF Limits, InTick
<1>7. InChunks(e)' + c <= InChunks(e)
  <2>1. Holding(e)' = Holding(e) \ {path}
    BY <1>1 DEF Holding, Aside
  <2>2. path \in Holding(e) <=> c > 0
    BY <1>1 DEF Holding, Aside
  <2>3. Cardinality(Holding(e)') =
          IF path \in Holding(e) THEN Cardinality(Holding(e)) - 1 ELSE Cardinality(Holding(e))
    BY <2>1, AroundNumbers, FS_RemoveElement
  <2> HIDE DEF c
  <2>4. Cardinality(Holding(e)) \in Nat
    BY AroundNumbers, FS_CardinalityType
  <2> QED
    BY <1>4, <2>2, <2>3, <2>4 DEF InChunks
<1> HIDE DEF c
<1>8. Recurs(e)' <= Recurs(e)
  <2>1. ~ (Times(batch, e)' > Times(Unsent, e)') /\ ~ (InRead(e)' > Times(Unsent, e)')
    BY <1>4, <1>6
  <2>2. MayRecur(e)' => MayRecur(e)
    BY <1>1, <2>1 DEF MayRecur
  <2> QED
    BY <2>2 DEF Recurs
<1>9. Total(e)' <= Allowed'
  <2>1. Total(e)' <= Total(e)
    BY <1>2, <1>4, <1>5, <1>6, <1>7, <1>8 DEF Total, Naturals
  <2> QED
    BY <1>2, <2>1 DEF CountInv, Naturals
<1>10. Underway(e)' + Load(e)' <= 1
  <2>1. CASE loopAlive /\ c > 0
    <3>1. Underway(e) + MemoryLoad(e) = 0
      BY <1>2, <2>1 DEF CountInv, c
    <3> QED
      BY <1>2, <1>4, <1>5, <3>1 DEF Naturals
  <2>2. CASE ~ (loopAlive /\ c > 0)
    <3>1. Load(e)' = 0
      BY <1>4, <1>5, <2>2
    <3> QED
      BY <1>2, <1>5, <3>1 DEF CountInv, Naturals
  <2> QED
    BY <2>1, <2>2
<1>11. e > produced => Times(batch, e)' = 0
  BY <1>2, <1>4 DEF CountInv, c
<1> QED
  BY <1>1, <1>2, <1>4, <1>5, <1>9, <1>10, <1>11 DEF CountInv

(* The MQTT client accepts the next entry of the batch.                    *)
LEMMA PublishCount ==
    ASSUME Around, NEW e \in Entries, PublishEntry
    PROVE  CountInv(e)'
<1> DEFINE x == batch[pos + 1]
           one == IF x = e THEN 1 ELSE 0
<1>1. /\ Publishing /\ pos < Len(batch) /\ loopAlive /\ pos' = pos + 1
      /\ handed' = [handed EXCEPT ![x] = @ + 1]
      /\ UNCHANGED <<chan, hand, todo, memory, flushing, spool, produced, tpc, batch, path,
                     loopAlive, phase, faults, crashes, signals>>
  BY DEF PublishEntry, bufVars, diskVars, writeVars, ingestVars, mqttVars, procVars
<1>2. /\ Naturals(e) /\ Naturals(e)' /\ Limits(e) /\ CountInv(e)
      /\ Allowed \in Nat /\ Allowed' = Allowed
  BY <1>1, AroundNumbers DEF Allowed
<1>3. x \in Entries /\ Times(Unsent, e) = one + Times(Unsent', e) /\ Times(Unsent', e) \in Nat
  BY <1>1, QueueTypes, NextUnsent DEF Around
<1>4. handed \in [Entries -> Nat]
  BY DEF Around, IInv, TypeOK, ProcessTypeOK
<1>5. handed'[e] = handed[e] + one
  <2>1. handed[e] \in Nat /\ (x = e => one = 1) /\ (x # e => one = 0)
    BY <1>4
  <2> HIDE DEF x, one
  <2>2. CASE x = e
    BY <1>1, <1>4, <2>1, <2>2
  <2>3. CASE x # e
    BY <1>1, <1>4, <2>1, <2>3
  <2> QED
    BY <2>2, <2>3
<1>6. /\ Underway(e)' = Underway(e) /\ InChunks(e)' = InChunks(e)
      /\ Load(e)' = Load(e) /\ MemoryLoad(e)' = MemoryLoad(e)
      /\ Times(batch, e)' = Times(batch, e)
  BY <1>1 DEF Underway, InChunks, Holding, Aside, Load, MemoryLoad
<1>7. InTick(e) = Times(Unsent, e) /\ InTick(e)' = Times(Unsent, e)'
  BY <1>1 DEF InTick, Publishing
<1>8. Recurs(e)' = Recurs(e)
  BY <1>1 DEF Recurs, MayRecur
<1>9. one \in Nat /\ (one # 0 => e <= produced)
  <2>1. one \in Nat /\ one <= Times(batch, e)
    <3>1. one \in Nat
      OBVIOUS
    <3>2. Times(Unsent, e) <= Times(batch, e) /\ Times(batch, e) \in Nat
      BY <1>2 DEF Naturals, Limits
    <3> HIDE DEF one, x
    <3> QED
      BY <1>3, <3>1, <3>2
  <2>2. e \in Nat /\ produced \in Nat
    BY DEF Around, AllNumbersOK, Entries
  <2> HIDE DEF one
  <2> QED
    BY <1>2, <2>1, <2>2 DEF CountInv, Naturals
<1> HIDE DEF one
<1>10. Total(e)' = Total(e)
  BY <1>2, <1>3, <1>5, <1>6, <1>7, <1>8, <1>9 DEF Total, Naturals
<1>11. e > produced => handed'[e] = 0
  <2>1. e \in Nat /\ produced \in Nat
    BY DEF Around, AllNumbersOK, Entries
  <2> QED
    BY <1>2, <1>5, <1>9, <2>1 DEF CountInv
<1> QED
  BY <1>1, <1>2, <1>6, <1>10, <1>11 DEF CountInv

(* The tick deletes its chunk, or fails to.                                *)
LEMMA DeleteCount ==
    ASSUME Around, NEW e \in Entries, FinishDisk \/ Discard \/ DeletePartial
    PROVE  CountInv(e)'
<1>1. /\ tpc \in {"pubDisk", "discard", "repushDisk"} /\ tpc' = "idle" /\ batch' = <<>>
      /\ DeleteChunk
      /\ UNCHANGED <<chan, hand, todo, memory, flushing, handed, produced, loopAlive, phase,
                     crashes, signals>>
  BY DEF FinishDisk, Discard, DeletePartial, EndTick, writeVars, ingestVars, mqttVars, procVars
<1>2. /\ Naturals(e) /\ Naturals(e)' /\ Limits(e)
      /\ Allowed \in Nat /\ Allowed' \in Nat /\ IsFiniteSet(Holding(e))
  BY AroundNumbers
<1>3. /\ Underway(e)' = Underway(e) /\ InTick(e)' = 0 /\ Load(e)' = 0 /\ MemoryLoad(e)' = 0
      /\ Times(batch, e)' = 0
  BY <1>1, EmptyTimes DEF Underway, InTick, Load, MemoryLoad
<1>4. Recurs(e)' <= Recurs(e)
  <2>1. MayRecur(e)' => MayRecur(e)
    BY <1>1 DEF MayRecur, Publishing
  <2> QED
    BY <2>1 DEF Recurs
<1>5. /\ InChunks(e)' + Allowed <= InChunks(e) + Allowed'
      /\ \A n \in DOMAIN spool' : n \in DOMAIN spool /\ spool'[n] = spool[n]
  <2>1. Aside' = {} /\ Aside \subseteq {path}
    BY <1>1 DEF Aside
  <2>2. CASE spool' = Without(spool, path) /\ UNCHANGED faults
    <3>1. DOMAIN spool' = DOMAIN spool \ {path} /\ \A n \in DOMAIN spool' : spool'[n] = spool[n]
      BY <2>2 DEF Without
    <3>2. Holding(e)' \subseteq Holding(e)
      BY <2>1, <3>1 DEF Holding
    <3>3. InChunks(e)' <= InChunks(e)
      BY <1>2, <3>2, FS_Subset DEF InChunks
    <3>4. Allowed' = Allowed
      BY <1>1, <2>2 DEF Allowed
    <3> QED
      BY <1>2, <3>1, <3>3, <3>4 DEF Naturals
  <2>3. CASE spool' = spool /\ faults' = faults + 1
    <3>1. Holding(e)' \subseteq Holding(e) \cup {path}
      BY <2>1, <2>3 DEF Holding
    <3>2. InChunks(e)' <= InChunks(e) + 1
      BY <1>2, <3>1, OneMoreElement DEF InChunks
    <3>3. Allowed' = Allowed + 1
      <4>1. crashes \in Nat /\ signals \in Nat /\ faults \in Nat
        BY DEF Around, IInv, TypeOK, BufferTypeOK, ProcessTypeOK
      <4> QED
        BY <1>1, <2>3, <4>1 DEF Allowed
    <3> QED
      BY <1>2, <2>3, <3>2, <3>3 DEF Naturals
  <2> QED
    BY <1>1, <2>2, <2>3 DEF DeleteChunk, DeleteFile
<1>6. Total(e)' + Allowed <= Total(e) + Allowed'
  <2>1. Underway(e)' + InTick(e)' + InChunks(e)' + Recurs(e)' + Allowed
          <= Underway(e) + InTick(e) + InChunks(e) + Recurs(e) + Allowed'
    BY <1>2, <1>3, <1>4, <1>5 DEF Naturals
  <2> QED
    BY <1>1, <1>2, <2>1, TotalWithin
<1>7. /\ Underway(e)' + Load(e)' <= Underway(e) + Load(e)
      /\ Underway(e)' + MemoryLoad(e)' <= Underway(e) + MemoryLoad(e)
      /\ Times(batch, e)' <= Times(batch, e)
  BY <1>2, <1>3 DEF Naturals
<1> QED
  BY <1>1, <1>5, <1>6, <1>7, NoMore

(* Publishing a batch from memory fails: the slice is to go back.          *)
LEMMA FailMemoryCount ==
    ASSUME Around, NEW e \in Entries, PublishFailMemory
    PROVE  CountInv(e)'
<1>1. /\ tpc = "pubMem" /\ tpc' = "relock" /\ ~loopAlive /\ batch' = FailedSlice /\ pos' = 0
      /\ UNCHANGED <<chan, hand, todo, memory, flushing, spool, handed, produced, loopAlive,
                     phase, faults, crashes, signals>>
  BY DEF PublishFailMemory, bufVars, diskVars, writeVars, ingestVars, mqttVars, procVars
<1>2. /\ Naturals(e) /\ Naturals(e)' /\ Limits(e) /\ Limits(e)' /\ CountInv(e)
      /\ Allowed \in Nat /\ Allowed' = Allowed
  BY <1>1, AroundNumbers DEF Allowed
<1> DEFINE b == Times(batch, e)
           c == Times(batch, e)'
           u == Times(Unsent, e)
<1>3. c <= b
  BY <1>1, QueueTypes, SliceTimes DEF Around
<1>4. /\ Underway(e)' = Underway(e) /\ InChunks(e)' = InChunks(e)
      /\ InTick(e) = u /\ Load(e) = b /\ MemoryLoad(e) = b
      /\ Load(e)' = c /\ MemoryLoad(e)' = c
  BY <1>1 DEF Underway, InChunks, Holding, Aside, InTick, Load, MemoryLoad
<1>5. InTick(e)' <= c
  <2>1. InTick(e)' <= Times(Unsent, e)' /\ Times(Unsent, e)' <= c
    BY <1>2 DEF Limits
  <2>2. InTick(e)' \in Nat /\ Times(Unsent, e)' \in Nat /\ c \in Nat
    BY <1>2 DEF Naturals
  <2> HIDE DEF c
  <2> QED
    BY <2>1, <2>2
<1>6. Recurs(e)' = 0 /\ (b > u => Recurs(e) = 1)
  BY <1>1 DEF Recurs, MayRecur, Publishing, Around, CInv, ShutdownInv
<1>7. b \in Nat /\ c \in Nat /\ u \in Nat /\ b <= 1 /\ u <= b
  BY <1>2 DEF Naturals, Limits, CountInv
<1> HIDE DEF b, c, u
<1>8. InTick(e)' <= InTick(e) + Recurs(e)
  BY <1>2, <1>3, <1>4, <1>5, <1>6, <1>7 DEF Naturals
<1>9. Total(e)' + Allowed <= Total(e) + Allowed'
  <2>1. Underway(e)' + InTick(e)' + InChunks(e)' + Recurs(e)' + Allowed
          <= Underway(e) + InTick(e) + InChunks(e) + Recurs(e) + Allowed'
    BY <1>2, <1>4, <1>6, <1>8 DEF Naturals
  <2> QED
    BY <1>1, <1>2, <2>1, TotalWithin
<1>10. /\ Underway(e)' + Load(e)' <= Underway(e) + Load(e)
       /\ Underway(e)' + MemoryLoad(e)' <= Underway(e) + MemoryLoad(e)
  BY <1>2, <1>3, <1>4, <1>7 DEF Naturals
<1> QED
  BY <1>1, <1>3, <1>9, <1>10, NoMore DEF b, c

(* The chunk that was counted with the tick is counted on disk again.      *)
LEMMA BackOnDisk ==
    ASSUME Around, NEW e \in Entries, tpc \in {"pubDisk", "relockDisk"},
           tpc' \notin {"pubDisk", "relockDisk", "repushDisk"}, spool' = spool
    PROVE  InChunks(e)' <= InChunks(e) + InRead(e) /\ InRead(e) <= 1
<1>1. Naturals(e) /\ Naturals(e)' /\ CountInv(e)
  BY AroundNumbers
<1>2. Aside = {path} /\ Aside' = {}
  BY DEF Aside
<1> DEFINE r == InRead(e)
<1>3. r \in Nat /\ r <= 1 /\ InChunks(e) \in Nat /\ InChunks(e)' \in Nat
  BY <1>1 DEF InRead, CountInv, Naturals
<1>4. CASE r > 0
  <2>1. Holding(e)' \subseteq Holding(e) \cup {path}
    BY <1>2 DEF Holding
  <2>2. InChunks(e)' <= InChunks(e) + 1
    BY <2>1, AroundNumbers, OneMoreElement DEF InChunks
  <2> HIDE DEF r
  <2> QED
    BY <1>3, <1>4, <2>2 DEF r
<1>5. CASE ~ (r > 0)
  <2>1. Holding(e)' = Holding(e)
    BY <1>2, <1>5 DEF Holding, InRead
  <2> HIDE DEF r
  <2> QED
    BY <1>3, <2>1 DEF InChunks, r
<1> QED
  BY <1>4, <1>5

(* Publishing a chunk fails: it is left alone, or its tail is to go back.  *)
LEMMA FailDiskCount ==
    ASSUME Around, NEW e \in Entries, PublishFailDisk
    PROVE  CountInv(e)'
<1> DEFINE b == Times(batch, e)
           c == Times(batch, e)'
           u == Times(Unsent, e)
           r == InRead(e)
<1>1. /\ tpc = "pubDisk" /\ ~loopAlive
      /\ UNCHANGED <<chan, hand, todo, memory, flushing, spool, handed, produced, loopAlive,
                     phase, faults, crashes, signals>>
  BY DEF PublishFailDisk, bufVars, diskVars, writeVars, ingestVars, mqttVars, procVars
<1>2. /\ Naturals(e) /\ Naturals(e)' /\ Limits(e) /\ Limits(e)' /\ CountInv(e)
      /\ Allowed \in Nat /\ Allowed' = Allowed
  BY <1>1, AroundNumbers DEF Allowed
<1>3. /\ Underway(e)' = Underway(e) /\ InTick(e) = u /\ MemoryLoad(e) = 0
      /\ (pos > 0 => Load(e) = b)
  BY <1>1 DEF Underway, InTick, Load, MemoryLoad
<1>4. (b > u \/ r > u) => Recurs(e) = 1
  BY <1>1 DEF Recurs, MayRecur, Publishing, Around, CInv, ShutdownInv
<1>5. /\ b \in Nat /\ c \in Nat /\ u \in Nat /\ r \in Nat /\ b <= 1 /\ u <= b
  BY <1>2 DEF Naturals, Limits, CountInv
<1>6. r <= 1
  BY <1>2 DEF InRead, CountInv
<1>7. CASE SliceStart = 0
  <2>1. tpc' = "idle" /\ batch' = <<>>
    BY <1>7 DEF PublishFailDisk, EndTick
  <2>2. c = 0 /\ InTick(e)' = 0 /\ Load(e)' = 0 /\ MemoryLoad(e)' = 0 /\ Recurs(e)' = 0
    BY <1>1, <2>1, EmptyTimes DEF InTick, Load, MemoryLoad, Recurs, MayRecur, Publishing
  <2>3. InChunks(e)' <= InChunks(e) + r
    BY <1>1, <2>1, BackOnDisk
  <2> HIDE DEF b, c, u, r
  <2>4. r <= InTick(e) + Recurs(e)
    BY <1>2, <1>3, <1>4, <1>5, <1>6 DEF Naturals
  <2>5. Total(e)' + Allowed <= Total(e) + Allowed'
    <3>1. Underway(e)' + InTick(e)' + InChunks(e)' + Recurs(e)' + Allowed
            <= Underway(e) + InTick(e) + InChunks(e) + Recurs(e) + Allowed'
      BY <1>2, <1>3, <1>5, <2>2, <2>3, <2>4 DEF Naturals
    <3> QED
      BY <1>1, <1>2, <3>1, TotalWithin
  <2>6. /\ Underway(e)' + Load(e)' <= Underway(e) + Load(e)
        /\ Underway(e)' + MemoryLoad(e)' <= Underway(e) + MemoryLoad(e)
        /\ c <= b
    BY <1>2, <1>3, <1>5, <2>2 DEF Naturals
  <2> QED
    BY <1>1, <2>5, <2>6, NoMore DEF b, c
<1>8. CASE SliceStart # 0
  <2>1. tpc' = "relockDisk" /\ batch' = UnpublishedTail /\ pos' = 0 /\ path' = path
    BY <1>8 DEF PublishFailDisk
  <2>2. c <= b /\ u <= c /\ pos > 0
    BY <1>8, <2>1, QueueTypes, SliceTimes DEF Around
  <2>3. Times(Unsent, e)' = c /\ InRead(e)' = r
    BY <1>1, <1>2, <2>1 DEF Limits, InRead
  <2>4. InTick(e)' = c /\ Load(e)' = c /\ MemoryLoad(e)' = c
    BY <2>1, <2>3 DEF InTick, Load, MemoryLoad
  <2>5. InChunks(e)' = InChunks(e)
    BY <1>1, <2>1 DEF InChunks, Holding, Aside
  <2>6. Recurs(e)' = 1 => r > c
    BY <1>1, <2>1, <2>3 DEF Recurs, MayRecur, Publishing
  <2>7. Load(e) = b /\ (Recurs(e)' = 0 \/ Recurs(e)' = 1) /\ (Recurs(e) = 0 \/ Recurs(e) = 1)
    BY <1>3, <2>2 DEF Recurs
  <2> HIDE DEF b, c, u, r
  <2>8. InTick(e)' + Recurs(e)' <= InTick(e) + Recurs(e)
    BY <1>3, <1>4, <1>5, <1>6, <2>2, <2>4, <2>6, <2>7
  <2>9. Total(e)' + Allowed <= Total(e) + Allowed'
    <3>1. Underway(e)' + InTick(e)' + InChunks(e)' + Recurs(e)' + Allowed
            <= Underway(e) + InTick(e) + InChunks(e) + Recurs(e) + Allowed'
      BY <1>2, <1>3, <2>5, <2>8 DEF Naturals
    <3> QED
      BY <1>1, <1>2, <3>1, TotalWithin
  <2>10. Underway(e)' + Load(e)' <= Underway(e) + Load(e)
    BY <1>2, <1>3, <1>5, <2>2, <2>4, <2>7 DEF Naturals
  <2> QED
    BY <1>1, <2>2, <2>9, <2>10, NoMore DEF b, c
<1> QED
  BY <1>7, <1>8

(* What was drained and not published goes back into the queues.           *)
LEMMA RelockCount ==
    ASSUME Around, NEW e \in Entries, Relock
    PROVE  CountInv(e)'
<1> DEFINE b == Times(batch, e)
<1>1. /\ \/ tpc = "relock" /\ tpc' = "repush" /\ todo' = batch
         \/ tpc = "relockDisk" /\ tpc' = "repushDisk" /\ todo' = Reverse(batch)
      /\ batch' = <<>>
      /\ UNCHANGED <<chan, hand, memory, flushing, spool, handed, produced, path, loopAlive,
                     phase, faults, crashes, signals>>
  BY DEF Relock, diskVars, writeVars, ingestVars, mqttVars, procVars
<1>2. /\ Naturals(e) /\ Naturals(e)' /\ Limits(e) /\ CountInv(e)
      /\ Allowed \in Nat /\ Allowed' = Allowed
  BY <1>1, AroundNumbers DEF Allowed
<1>3. pos = 0 /\ ~loopAlive
  BY <1>1 DEF Around, IInv, TaskState, CInv, ShutdownInv
<1>4. b \in Nat /\ InTick(e) = b /\ Load(e) = b /\ InTick(e)' = 0 /\ Load(e)' = 0
  BY <1>1, <1>2, <1>3 DEF Naturals, Limits, InTick, Load, MemoryLoad
<1>5. Underway(e)' <= Underway(e) + b
  <2>1. Times(todo', e) = b
    BY <1>1, QueueTypes, TimesReverse DEF Around
  <2>2. IInv
    BY DEF Around
  <2> QED
    BY <1>1, <1>4, <2>1, <2>2, QueueCounts DEF Underway
<1>6. InChunks(e)' = InChunks(e) /\ Times(batch, e)' = 0 /\ Recurs(e)' = 0
  BY <1>1, <1>3, EmptyTimes DEF InChunks, Holding, Aside, Recurs, MayRecur, Publishing
<1> HIDE DEF b
<1>7. Total(e)' + Allowed <= Total(e) + Allowed'
  <2>1. Underway(e)' + InTick(e)' + InChunks(e)' + Recurs(e)' + Allowed
          <= Underway(e) + InTick(e) + InChunks(e) + Recurs(e) + Allowed'
    BY <1>2, <1>4, <1>5, <1>6 DEF Naturals
  <2> QED
    BY <1>1, <1>2, <2>1, TotalWithin
<1>8. Underway(e)' + Load(e)' <= Underway(e) + Load(e) /\ Times(batch, e)' <= Times(batch, e)
  BY <1>2, <1>4, <1>5, <1>6 DEF Naturals
<1> QED
  BY <1>1, <1>3, <1>7, <1>8, NoMore

(* The shutdown signal drops the tick wherever it waits.                   *)
LEMMA CancelCount ==
    ASSUME Around, NEW e \in Entries, CancelTick
    PROVE  CountInv(e)'
<1>1. /\ phase = "signalled" /\ Suspended /\ tpc' = "flushWait" /\ batch' = <<>>
      /\ UNCHANGED <<chan, hand, todo, memory, flushing, spool, handed, produced, loopAlive,
                     phase, faults, crashes, signals>>
  BY DEF CancelTick, diskVars, writeVars, ingestVars, mqttVars, procVars
<1>2. /\ Naturals(e) /\ Naturals(e)' /\ Limits(e) /\ CountInv(e)
      /\ Allowed \in Nat /\ Allowed' = Allowed
  BY <1>1, AroundNumbers DEF Allowed
<1>3. Underway(e)' = Underway(e)
  BY <1>1 DEF Underway
<1>4. CASE tpc \notin {"pubDisk", "relockDisk"}
  <2>1. tpc \notin {"pubDisk", "relockDisk", "repushDisk", "flushWait", "flush", "exit"}
    BY <1>1, <1>4 DEF Suspended, Publishing
  <2>2. LetGo
    BY <1>1, <2>1 DEF LetGo
  <2> QED
    BY <1>2, <1>3, <2>2, LetGoCount DEF Naturals
<1>5. CASE tpc \in {"pubDisk", "relockDisk"}
  <2> DEFINE r == InRead(e)
             u == Times(Unsent, e)
  <2>1. InChunks(e)' <= InChunks(e) + r /\ r <= 1 /\ r \in Nat /\ u \in Nat
    BY <1>1, <1>2, <1>5, BackOnDisk DEF Naturals
  <2>2. /\ InTick(e) = u /\ InTick(e)' = 0 /\ Load(e)' = 0 /\ MemoryLoad(e)' = 0
        /\ Times(batch, e)' = 0 /\ Recurs(e)' = 0
    BY <1>1, <1>5, EmptyTimes DEF InTick, Load, MemoryLoad, Recurs, MayRecur
  <2>3. r > u => Recurs(e) = 1
    BY <1>1, <1>5 DEF Recurs, MayRecur
  <2> HIDE DEF r, u
  <2>4. r <= InTick(e) + Recurs(e)
    BY <1>2, <2>1, <2>2, <2>3 DEF Naturals
  <2>5. Total(e)' + Allowed <= Total(e) + Allowed'
    <3>1. Underway(e)' + InTick(e)' + InChunks(e)' + Recurs(e)' + Allowed
            <= Underway(e) + InTick(e) + InChunks(e) + Recurs(e) + Allowed'
      BY <1>2, <1>3, <2>1, <2>2, <2>4 DEF Naturals
    <3> QED
      BY <1>1, <1>2, <3>1, TotalWithin
  <2>6. /\ Underway(e)' + Load(e)' <= Underway(e) + Load(e)
        /\ Underway(e)' + MemoryLoad(e)' <= Underway(e) + MemoryLoad(e)
        /\ Times(batch, e)' <= Times(batch, e)
    BY <1>2, <1>3, <2>2 DEF Naturals
  <2> QED
    BY <1>1, <2>5, <2>6, NoMore
<1> QED
  BY <1>4, <1>5

(* A shutdown signal allows for one copy more.                             *)
LEMMA SignalCount ==
    ASSUME Around, NEW e \in Entries, Signal
    PROVE  CountInv(e)'
<1>1. /\ signals' = signals + 1
      /\ UNCHANGED <<chan, hand, todo, memory, flushing, spool, handed, produced, tpc, batch, pos,
                     path, loopAlive, faults, crashes>>
  BY DEF Signal, bufVars, diskVars, writeVars, ingestVars, tickVars, mqttVars
<1>2. /\ Naturals(e) /\ Naturals(e)' /\ Limits(e)' /\ Allowed \in Nat /\ Allowed' \in Nat
  BY AroundNumbers
<1>3. /\ Underway(e)' = Underway(e) /\ InTick(e)' = InTick(e) /\ InChunks(e)' = InChunks(e)
      /\ Load(e)' = Load(e) /\ MemoryLoad(e)' = MemoryLoad(e)
      /\ Times(batch, e)' = Times(batch, e)
  BY <1>1 DEF Underway, InTick, Unsent, InChunks, Holding, Aside, Load, MemoryLoad
<1>4. Allowed' = Allowed + 1
  <2>1. crashes \in Nat /\ signals \in Nat /\ faults \in Nat
    BY DEF Around, IInv, TypeOK, BufferTypeOK, ProcessTypeOK
  <2> QED
    BY <1>1, <2>1 DEF Allowed
<1>5. Recurs(e)' <= 1
  BY <1>2 DEF Limits
<1>6. Total(e)' + Allowed <= Total(e) + Allowed'
  <2>1. Underway(e)' + InTick(e)' + InChunks(e)' + Recurs(e)' + Allowed
          <= Underway(e) + InTick(e) + InChunks(e) + Recurs(e) + Allowed'
    BY <1>2, <1>3, <1>4, <1>5 DEF Naturals
  <2> QED
    BY <1>1, <1>2, <2>1, TotalWithin
<1>7. /\ Underway(e)' + Load(e)' <= Underway(e) + Load(e)
      /\ Underway(e)' + MemoryLoad(e)' <= Underway(e) + MemoryLoad(e)
      /\ Times(batch, e)' <= Times(batch, e)
  BY <1>2, <1>3 DEF Naturals
<1> QED
  BY <1>1, <1>6, <1>7, NoMore

(* The event loop goes: what its end may bring to light is counted.        *)
LEMMA LoopStopCount ==
    ASSUME Around, NEW e \in Entries, LoopStop
    PROVE  CountInv(e)'
<1>1. /\ phase = "signalled" /\ loopAlive /\ ~loopAlive'
      /\ UNCHANGED <<chan, hand, todo, memory, flushing, spool, handed, produced, tpc, batch, pos,
                     path, phase, faults, crashes, signals>>
  BY DEF LoopStop, bufVars, diskVars, writeVars, ingestVars, tickVars, procVars
<1>2. /\ Naturals(e) /\ Naturals(e)' /\ Allowed \in Nat /\ Allowed' = Allowed
  BY <1>1, AroundNumbers DEF Allowed
<1>3. /\ Underway(e)' = Underway(e) /\ InTick(e)' = InTick(e) /\ InChunks(e)' = InChunks(e)
      /\ Load(e)' \in {0, Load(e)} /\ Times(batch, e)' = Times(batch, e)
  BY <1>1 DEF Underway, InTick, Unsent, InChunks, Holding, Aside, Load, MemoryLoad
<1>4. Recurs(e)' <= Recurs(e)
  <2>1. MayRecur(e)' => MayRecur(e)
    BY <1>1 DEF MayRecur
  <2> QED
    BY <2>1 DEF Recurs
<1>5. Total(e)' + Allowed <= Total(e) + Allowed'
  <2>1. Underway(e)' + InTick(e)' + InChunks(e)' + Recurs(e)' + Allowed
          <= Underway(e) + InTick(e) + InChunks(e) + Recurs(e) + Allowed'
    BY <1>2, <1>3, <1>4 DEF Naturals
  <2> QED
    BY <1>1, <1>2, <2>1, TotalWithin
<1>6. Underway(e)' + Load(e)' <= Underway(e) + Load(e) /\ Times(batch, e)' <= Times(batch, e)
  BY <1>2, <1>3 DEF Naturals
<1> QED
  BY <1>1, <1>5, <1>6, NoMore

(* The process ends: only a crash can leave a chunk that was published.    *)
LEMMA VanishCount ==
    ASSUME Around, NEW e \in Entries, Exit \/ Crash
    PROVE  CountInv(e)'
<1>1. /\ tpc' = "idle" /\ phase' = "down" /\ batch' = <<>>
      /\ chan' = <<>> /\ hand' = 0 /\ todo' = <<>> /\ memory' = <<>> /\ flushing' = <<>>
      /\ UNCHANGED <<spool, handed, produced, faults, signals>>
  BY DEF Exit, Crash, Vanish, FreshBuffer, EndTick, diskVars
<1>2. /\ Naturals(e) /\ Naturals(e)' /\ Allowed \in Nat /\ Allowed' \in Nat
      /\ IsFiniteSet(Holding(e))
  BY AroundNumbers
<1>3. /\ Underway(e)' = 0 /\ InTick(e)' = 0 /\ Load(e)' = 0 /\ MemoryLoad(e)' = 0
      /\ Times(batch, e)' = 0 /\ Recurs(e)' = 0
  <2>1. Times(<<>>, e) = 0 /\ e # 0
    BY EmptyTimes, PipelineAssumption DEF Entries
  <2> QED
    BY <1>1, <2>1 DEF Underway, InTick, Load, MemoryLoad, Recurs, MayRecur
<1>4. InChunks(e)' + Allowed <= InChunks(e) + Allowed'
  <2>1. CASE Exit
    <3>1. Holding(e)' = Holding(e)
      BY <1>1, <2>1 DEF Holding, Aside, Exit
    <3>2. Allowed' = Allowed
      BY <1>1, <2>1 DEF Allowed, Exit
    <3> QED
      BY <1>2, <3>1, <3>2 DEF InChunks, Naturals
  <2>2. CASE Crash
    <3>1. Holding(e)' \subseteq Holding(e) \cup {path}
      BY <1>1 DEF Holding, Aside
    <3>2. InChunks(e)' <= InChunks(e) + 1
      BY <1>2, <3>1, OneMoreElement DEF InChunks
    <3>3. Allowed' = Allowed + 1
      <4>1. crashes \in Nat /\ signals \in Nat /\ faults \in Nat /\ crashes' = crashes + 1
        BY <2>2 DEF Around, IInv, TypeOK, BufferTypeOK, ProcessTypeOK, Crash
      <4> QED
        BY <1>1, <4>1 DEF Allowed
    <3> QED
      BY <1>2, <3>2, <3>3 DEF Naturals
  <2> QED
    BY <2>1, <2>2
<1>5. Total(e)' + Allowed <= Total(e) + Allowed'
  <2>1. Underway(e)' + InTick(e)' + InChunks(e)' + Recurs(e)' + Allowed
          <= Underway(e) + InTick(e) + InChunks(e) + Recurs(e) + Allowed'
    BY <1>2, <1>3, <1>4 DEF Naturals
  <2> QED
    BY <1>1, <1>2, <2>1, TotalWithin
<1>6. /\ Underway(e)' + Load(e)' <= Underway(e) + Load(e)
      /\ Underway(e)' + MemoryLoad(e)' = 0 /\ Times(batch, e)' <= Times(batch, e)
  BY <1>2, <1>3 DEF Naturals
<1> QED
  BY <1>1, <1>5, <1>6, NoMore

-----------------------------------------------------------------------------
(* The steps of a flush that change the spool.                             *)

(* The oldest chunk goes.                                                  *)
LEMMA EvictCount ==
    ASSUME Around, NEW e \in Entries, Write, EvictRemove
    PROVE  CountInv(e)'
<1>1. /\ spool' = Without(spool, target)
      /\ UNCHANGED <<chan, hand, todo, memory, flushing, handed, produced, tickVars, loopAlive,
                     phase, faults, crashes, signals>>
  BY WriteFootprint DEF EvictRemove, ingestVars, mqttVars, procVars
<1>2. /\ Naturals(e) /\ Naturals(e)' /\ Allowed \in Nat /\ Allowed' = Allowed
      /\ IsFiniteSet(Holding(e)) /\ \A n \in DOMAIN spool : Times(spool[n], e) \in Nat
  BY <1>1, AroundNumbers DEF Allowed
<1>3. \A n \in DOMAIN spool' : n \in DOMAIN spool /\ spool'[n] = spool[n]
  BY <1>1 DEF Without
<1>4. /\ Underway(e)' = Underway(e) /\ InTick(e)' = InTick(e)
      /\ Load(e)' = Load(e) /\ MemoryLoad(e)' = MemoryLoad(e)
      /\ Times(batch, e)' = Times(batch, e)
  BY <1>1 DEF Underway, InTick, Unsent, Load, MemoryLoad, tickVars
<1>5. InChunks(e)' <= InChunks(e)
  <2>1. Holding(e)' \subseteq Holding(e)
    BY <1>1, <1>3 DEF Holding, Aside, tickVars
  <2> QED
    BY <1>2, <2>1, FS_Subset DEF InChunks
<1>6. Recurs(e)' <= Recurs(e)
  <2>1. InRead(e)' \in {0, InRead(e)}
    BY <1>1, <1>3 DEF InRead, tickVars
  <2>2. InRead(e) \in Nat /\ Times(Unsent, e) \in Nat /\ Times(Unsent, e)' = Times(Unsent, e)
    BY <1>1, <1>2 DEF Naturals, Unsent, tickVars
  <2>3. InRead(e)' > Times(Unsent, e)' => InRead(e) > Times(Unsent, e)
    BY <2>1, <2>2
  <2>4. MayRecur(e)' => MayRecur(e)
    BY <1>1, <2>2, <2>3 DEF MayRecur, Publishing, tickVars
  <2> QED
    BY <2>4 DEF Recurs
<1>7. Total(e)' + Allowed <= Total(e) + Allowed'
  <2>1. Underway(e)' + InTick(e)' + InChunks(e)' + Recurs(e)' + Allowed
          <= Underway(e) + InTick(e) + InChunks(e) + Recurs(e) + Allowed'
    BY <1>2, <1>4, <1>5, <1>6 DEF Naturals
  <2> QED
    BY <1>1, <1>2, <2>1, TotalWithin
<1>8. /\ Underway(e)' + Load(e)' <= Underway(e) + Load(e)
      /\ Underway(e)' + MemoryLoad(e)' <= Underway(e) + MemoryLoad(e)
      /\ Times(batch, e)' <= Times(batch, e)
  BY <1>2, <1>4 DEF Naturals
<1> QED
  BY <1>1, <1>3, <1>7, <1>8, NoMore

(* A chunk appears under its name: its copies move from the flush to the   *)
(* disk, or, under the name the tick works on, to what may come to light.  *)
LEMMA RenameCount ==
    ASSUME Around, NEW e \in Entries, Write, RenameChunk
    PROVE  CountInv(e)'
<1> DEFINE chunk == FirstChunk(flushing)
           c == Times(chunk, e)
<1>1. /\ spool' = With(spool, target, chunk) /\ target \notin DOMAIN spool
      /\ flushing' = AfterChunk(flushing)
      /\ UNCHANGED <<chan, hand, todo, memory, handed, produced, tickVars, loopAlive, phase,
                     faults, crashes, signals>>
  BY WriteFootprint DEF RenameChunk, Around, RenameInv, ingestVars, mqttVars, procVars
<1>2. /\ Naturals(e) /\ Naturals(e)' /\ Limits(e)' /\ CountInv(e)
      /\ Allowed \in Nat /\ Allowed' = Allowed
      /\ IsFiniteSet(Holding(e)) /\ \A n \in DOMAIN spool : Times(spool[n], e) \in Nat
  BY <1>1, AroundNumbers DEF Allowed
<1>3. /\ DOMAIN spool' = DOMAIN spool \cup {target} /\ Times(spool'[target], e) = c
      /\ \A n \in DOMAIN spool : spool'[n] = spool[n]
  BY <1>1 DEF With
<1>4. Underway(e) = Underway(e)' + c /\ c \in Nat
  <2>1. /\ Times(flushing, e) = c + Times(AfterChunk(flushing), e) /\ c \in Nat
        /\ Times(AfterChunk(flushing), e) \in Nat
    BY QueueTypes, TimesChunk, TimesType DEF Around
  <2>2. IInv
    BY DEF Around
  <2> HIDE DEF c
  <2> QED
    BY <1>1, <2>1, <2>2, QueueCounts DEF Underway
<1> HIDE DEF chunk, c
<1>5. c <= 1 /\ Underway(e)' \in Nat /\ Underway(e) + Load(e) <= 1 /\ Load(e) \in Nat
  BY <1>2, <1>4 DEF Naturals, CountInv
<1>6. /\ InTick(e)' = InTick(e) /\ Load(e)' = Load(e) /\ MemoryLoad(e)' = MemoryLoad(e)
      /\ Times(batch, e)' = Times(batch, e) /\ Times(Unsent, e)' = Times(Unsent, e)
      /\ Aside' = Aside
  BY <1>1 DEF InTick, Unsent, Load, MemoryLoad, Aside, tickVars
<1>7. Recurs(e) \in Nat /\ Recurs(e)' \in Nat /\ Recurs(e)' <= 1 /\ InChunks(e) \in Nat
  BY <1>2 DEF Naturals, Limits
<1>8. InChunks(e)' + Recurs(e)' <= InChunks(e) + Recurs(e) + c
  <2>1. CASE target \in Aside
    <3>1. target = path /\ tpc \in {"pubDisk", "relockDisk", "repushDisk"}
      BY <2>1 DEF Aside
    <3>2. Holding(e)' = Holding(e)
      BY <1>3, <1>6, <2>1 DEF Holding
    <3>3. InChunks(e)' = InChunks(e)
      BY <3>2 DEF InChunks
    <3>4. c = 0 => Recurs(e)' <= Recurs(e)
      <4> SUFFICES ASSUME c = 0 PROVE Recurs(e)' <= Recurs(e)
        OBVIOUS
      <4>1. InRead(e)' = 0
        BY <1>1, <1>3, <3>1 DEF InRead, tickVars
      <4>2. Times(Unsent, e)' \in Nat
        BY <1>2 DEF Naturals
      <4>3. ~ (InRead(e)' > Times(Unsent, e)')
        BY <4>1, <4>2
      <4>4. MayRecur(e)' => MayRecur(e)
        BY <1>1, <1>6, <4>3 DEF MayRecur, Publishing, tickVars
      <4> QED
        BY <4>4 DEF Recurs
    <3> QED
      BY <1>4, <1>7, <3>3, <3>4
  <2>2. CASE target \notin Aside
    <3>1. Holding(e)' \subseteq Holding(e) \cup {target}
      BY <1>3, <1>6 DEF Holding
    <3>2. InChunks(e)' <= InChunks(e) + 1
      BY <1>2, <3>1, OneMoreElement DEF InChunks
    <3>3. c = 0 => InChunks(e)' = InChunks(e)
      <4> SUFFICES ASSUME c = 0 PROVE InChunks(e)' = InChunks(e)
        OBVIOUS
      <4>1. Holding(e)' = Holding(e)
        BY <1>1, <1>3, <1>6 DEF Holding
      <4> QED
        BY <4>1 DEF InChunks
    <3>4. Recurs(e)' <= Recurs(e)
      <4>1. tpc \in {"pubDisk", "relockDisk"} => InRead(e)' = InRead(e)
        BY <1>1, <1>3, <2>2 DEF InRead, Aside, tickVars
      <4>2. MayRecur(e)' => MayRecur(e)
        BY <1>1, <1>6, <4>1 DEF MayRecur, Publishing, tickVars
      <4> QED
        BY <4>2 DEF Recurs
    <3>5. InChunks(e)' \in Nat
      BY <1>2 DEF Naturals
    <3> QED
      BY <1>4, <1>7, <3>2, <3>3, <3>4, <3>5
  <2> QED
    BY <2>1, <2>2
<1>9. Total(e)' <= Allowed'
  <2>1. Underway(e)' + InTick(e)' + InChunks(e)' + Recurs(e)' + Allowed
          <= Underway(e) + InTick(e) + InChunks(e) + Recurs(e) + Allowed'
    BY <1>2, <1>4, <1>6, <1>8 DEF Naturals
  <2>2. Total(e)' + Allowed <= Total(e) + Allowed'
    BY <1>1, <1>2, <2>1, TotalWithin
  <2> QED
    BY <1>2, <2>2 DEF CountInv, Naturals
<1>10. Underway(e)' + Load(e)' <= 1
  BY <1>4, <1>5, <1>6
<1>11. \A n \in DOMAIN spool' : Times(spool'[n], e) <= 1
  BY <1>2, <1>3, <1>5 DEF CountInv
<1>12. loopAlive' /\ (\E n \in DOMAIN spool' : Times(spool'[n], e) > 0)
         => Underway(e)' + MemoryLoad(e)' = 0
  <2> SUFFICES ASSUME loopAlive', NEW n \in DOMAIN spool', Times(spool'[n], e) > 0
               PROVE  Underway(e)' + MemoryLoad(e)' = 0
    OBVIOUS
  <2>1. CASE n = target
    <3>1. c = 1 /\ Underway(e)' = 0 /\ Load(e) = 0
      BY <1>3, <1>4, <1>5, <2>1
    <3>2. MemoryLoad(e) = 0
      <4>1. MemoryLoad(e) \in Nat /\ MemoryLoad(e) <= Load(e)
        BY AroundNumbers DEF Naturals, Limits
      <4> QED
        BY <3>1, <4>1
    <3> QED
      BY <1>6, <3>1, <3>2
  <2>2. CASE n # target
    <3>1. Underway(e) + MemoryLoad(e) = 0
      BY <1>1, <1>2, <1>3, <2>2 DEF CountInv
    <3> QED
      BY <1>2, <1>4, <1>6, <3>1 DEF Naturals
  <2> QED
    BY <2>1, <2>2
<1>13. e > produced' => /\ Underway(e)' = 0 /\ Times(batch, e)' = 0 /\ handed'[e] = 0
                        /\ \A n \in DOMAIN spool' : Times(spool'[n], e) = 0
  <2> SUFFICES ASSUME e > produced
               PROVE  /\ Underway(e)' = 0 /\ Times(batch, e)' = 0 /\ handed'[e] = 0
                      /\ \A n \in DOMAIN spool' : Times(spool'[n], e) = 0
    BY <1>1
  <2>1. /\ Underway(e) = 0 /\ Times(batch, e) = 0 /\ handed[e] = 0
        /\ \A n \in DOMAIN spool : Times(spool[n], e) = 0
    BY <1>2 DEF CountInv
  <2>2. c = 0 /\ Underway(e)' = 0
    BY <1>4, <1>5, <2>1
  <2> QED
    BY <1>1, <1>3, <1>6, <2>1, <2>2
<1> QED
  BY <1>2, <1>6, <1>9, <1>10, <1>11, <1>12, <1>13 DEF CountInv

-----------------------------------------------------------------------------
(* Every step keeps the count of every entry.                              *)
LEMMA StepCount ==
    ASSUME Around, [Next]_vars, NEW e \in Entries
    PROVE  CountInv(e)'
<1>1. Naturals(e) /\ IInv /\ crashes \in Nat /\ signals \in Nat /\ faults \in Nat
  <2>1. Naturals(e)
    BY AroundNumbers
  <2>2. IInv
    BY DEF Around
  <2>3. crashes \in Nat /\ signals \in Nat /\ faults \in Nat
    BY <2>2 DEF IInv, TypeOK, BufferTypeOK, ProcessTypeOK
  <2> QED
    BY <2>1, <2>2, <2>3
<1>2. CASE IngestRecv \/ IngestLock \/ IngestStop
  <2>1. /\ UNCHANGED <<tickVars, spool, handed, produced, loopAlive, phase>>
        /\ Allowed' = Allowed
    BY <1>2 DEF IngestRecv, IngestLock, IngestStop, Allowed, bufVars, diskVars, mqttVars, procVars
  <2> QED
    BY <1>1, <1>2, <2>1, IngestCount, QuietCount DEF Allowed
<1>3. CASE IngestPush \/ Repush
  <2>1. /\ \E h \in {"ingest", "publish"} : PushToMemory(h) \/ FlushForPush(h)
        /\ UNCHANGED <<chan, hand, tickVars, handed, produced, loopAlive, phase>>
        /\ UNCHANGED <<crashes, signals>>
    BY <1>3 DEF IngestPush, Repush, ingestVars, mqttVars, procVars
  <2>2. UNCHANGED <<spool, faults>>
    BY <2>1 DEF PushToMemory, FlushForPush, BeginFlush, diskVars
  <2>3. Underway(e)' <= Underway(e)
    BY <1>1, <2>1, PushCount
  <2> QED
    BY <1>1, <2>1, <2>2, <2>3, QuietCount DEF Allowed
<1>4. CASE Write
  <2>1. UNCHANGED <<produced, chan, ingestVars, tickVars, mqttVars, procVars, handed>>
    BY <1>4, WriteFootprint
  <2>2. CASE EvictRemove
    BY <1>4, <2>2, EvictCount
  <2>3. CASE RenameChunk
    BY <1>4, <2>3, RenameCount
  <2>4. CASE EvictPick \/ WriteTmp
    <3>1. UNCHANGED <<memory, todo, flushing, spool>>
      BY <2>4 DEF EvictPick, WriteTmp, diskVars
    <3>2. Underway(e)' = Underway(e) /\ UNCHANGED <<crashes, signals>>
      BY <2>1, <3>1 DEF Underway, ingestVars, procVars
    <3>4. faults' \in Nat /\ faults' >= faults
      BY <1>1, CountersGrow
    <3>5. Underway(e)' <= Underway(e)
      BY <1>1, <3>2 DEF Naturals
    <3>6. Allowed <= Allowed'
      <4>1. Allowed' = 1 + crashes + signals + faults'
        BY <3>2 DEF Allowed
      <4> QED
        BY <1>1, <3>4, <4>1 DEF Allowed
    <3>3. Underway(e)' <= Underway(e) /\ Allowed <= Allowed'
      BY <3>5, <3>6
    <3> QED
      BY <2>1, <3>1, <3>3, QuietCount DEF mqttVars, procVars
  <2>5. CASE AbortFlush /\ UNCHANGED <<spool, tmp>>
    <3>1. Underway(e)' <= Underway(e)
      BY <1>1, <2>1, <2>5, AbortCount DEF ingestVars
    <3>2. faults' \in Nat /\ faults' >= faults
      BY <1>1, CountersGrow
    <3>3. Allowed <= Allowed'
      <4>1. crashes' = crashes /\ signals' = signals
        BY <2>1 DEF procVars
      <4>2. Allowed' = 1 + crashes + signals + faults'
        BY <4>1 DEF Allowed
      <4> QED
        BY <1>1, <3>2, <4>2 DEF Allowed
    <3> QED
      BY <2>1, <2>5, <3>1, <3>3, QuietCount DEF mqttVars, procVars
  <2> QED
    BY <1>4, <2>2, <2>3, <2>4, <2>5, WriteFootprint
<1>5. CASE \/ IngestRelease \/ Connect \/ Disconnect \/ Send \/ Restart \/ UNCHANGED vars
  <2>1. /\ UNCHANGED <<chan, hand, todo, memory, flushing, tickVars, spool, handed, produced,
                       loopAlive, crashes, signals>>
        /\ phase' \in {phase, "running"} /\ (faults' = faults \/ faults' = faults + 1)
    BY <1>5 DEF IngestRelease, Connect, Disconnect, Send, Restart, vars, bufVars, diskVars,
       writeVars, ingestVars, mqttVars, procVars
  <2>2. Underway(e)' = Underway(e)
    BY <2>1 DEF Underway
  <2>3. Allowed <= Allowed'
    BY <1>1, <2>1 DEF Allowed
  <2>4. Underway(e)' <= Underway(e)
    BY <1>1, <2>2 DEF Naturals
  <2> QED
    BY <2>1, <2>3, <2>4, QuietCount
<1>6. CASE \/ TickStart \/ NextDiskChunk \/ ListFault \/ ReadFault \/ FinishMemory \/ Backoff
           \/ ShutdownNothing \/ ShutdownFlushed
           \/ ReadChunk /\ path \notin DOMAIN spool
  <2>1. /\ LetGo /\ UNCHANGED <<chan, hand, todo, memory, flushing, crashes, signals>>
        /\ faults' = faults \/ faults' = faults + 1
    BY <1>6 DEF TickStart, NextDiskChunk, ListFault, ReadFault, FinishMemory, Backoff,
       ShutdownNothing, ShutdownFlushed, ReadChunk, LetGo, EndTick, bufVars, diskVars,
       writeVars, ingestVars, mqttVars, procVars
  <2>2. Underway(e)' = Underway(e)
    BY <2>1 DEF Underway
  <2>3. Allowed <= Allowed'
    BY <1>1, <2>1 DEF Allowed
  <2>4. Underway(e)' <= Underway(e)
    BY <1>1, <2>2 DEF Naturals
  <2> QED
    BY <2>1, <2>3, <2>4, LetGoCount
<1>7. CASE ShutdownFlush
  <2>1. /\ LetGo /\ UNCHANGED <<chan, hand, todo, crashes, signals, faults>>
        /\ memory' = <<>> /\ flushing' = memory
    BY <1>7 DEF ShutdownFlush, BeginFlush, LetGo, diskVars, ingestVars, mqttVars, procVars
  <2>2. Underway(e)' <= Underway(e)
    BY <1>1, <2>1, EmptyTimes, QueueCounts DEF Underway
  <2>3. Allowed <= Allowed'
    BY <1>1, <2>1 DEF Allowed
  <2> QED
    BY <2>1, <2>2, <2>3, LetGoCount
<1> QED
  BY <1>2, <1>3, <1>4, <1>5, <1>6, <1>7, ProduceCount, DrainCount, ReadCount, PublishCount,
     DeleteCount, FailMemoryCount, FailDiskCount, RelockCount, CancelCount, SignalCount,
     LoopStopCount, VanishCount
  DEF Next, IngestTask, Tick, Shutdown, EventLoop, Environment

LEMMA StepCInv == ASSUME IInv, SInv, CInv, [Next]_vars PROVE CInv'
<1>1. IInv' /\ FewChunks' /\ ShutdownInv'
  BY StepIInv, FewChunksStep, ShutdownStep DEF CInv
<1>2. AllNumbersOK /\ AllNumbersOK'
  BY <1>1, Numbers, NumbersNext DEF CInv
<1>3. Around
  BY <1>1, <1>2 DEF Around, SInv
<1>4. \A e \in Entries : CountInv(e)'
  BY <1>3, StepCount
<1> QED
  BY <1>1, <1>4 DEF CInv

LEMMA InitCInv == ASSUME Init PROVE CInv
<1>1. IInv
  BY InitIInv
<1>2. /\ chan = <<>> /\ hand = 0 /\ todo = <<>> /\ memory = <<>> /\ flushing = <<>>
      /\ tpc = "idle" /\ batch = <<>> /\ loopAlive /\ phase = "running" /\ DOMAIN spool = {}
      /\ crashes = 0 /\ signals = 0 /\ faults = 0 /\ handed = [e \in Entries |-> 0]
  BY DEF Init, InitBuffer
<1>3. FewChunks /\ ShutdownInv
  BY <1>2, FS_EmptySet DEF FewChunks, ShutdownInv
<1>4. ASSUME NEW e \in Entries PROVE CountInv(e)
  <2>1. Times(<<>>, e) = 0 /\ e # 0
    BY EmptyTimes, PipelineAssumption DEF Entries
  <2>2. Underway(e) = 0 /\ InTick(e) = 0 /\ Load(e) = 0 /\ MemoryLoad(e) = 0 /\ Recurs(e) = 0
    BY <1>2, <2>1 DEF Underway, InTick, Load, MemoryLoad, Recurs, MayRecur
  <2>3. InChunks(e) = 0
    <3>1. Holding(e) = {}
      BY <1>2 DEF Holding
    <3> QED
      BY <3>1, FS_EmptySet DEF InChunks
  <2>4. Total(e) = 0 /\ Allowed = 1 /\ Times(batch, e) = 0 /\ handed[e] = 0
    BY <1>2, <2>1, <2>2, <2>3 DEF Total, Allowed
  <2> QED
    BY <1>2, <2>2, <2>4 DEF CountInv
<1> QED
  BY <1>3, <1>4 DEF CInv

(* The count of every entry stays within what is allowed.                  *)
THEOREM CountInvariance == Spec => []CInv
<1>1. Init => CInv
  BY InitCInv
<1>2. IInv /\ SInv /\ CInv /\ [Next]_vars => CInv'
  BY StepCInv
<1> QED
  BY <1>1, <1>2, Invariance, SpoolInvariance, PTL DEF Spec

(* An entry reaches the MQTT client once, and once more at most for each   *)
(* crash, each shutdown and each failed file-system call, whatever the     *)
(* configuration: publish_tick (orchestrator.rs) repeats nothing on its    *)
(* own account.                                                            *)
THEOREM DuplicationBound == Spec => []BoundedDuplication
<1>1. IInv /\ CInv => BoundedDuplication
  <2> SUFFICES ASSUME IInv, CInv, NEW e \in Entries
               PROVE  handed[e] <= 1 + crashes + signals + faults
    BY DEF BoundedDuplication
  <2>1. AllNumbersOK
    BY Numbers DEF CInv
  <2>2. Naturals(e) /\ Total(e) <= Allowed /\ Allowed \in Nat
    BY <2>1 DEF AllNumbersOK, NumbersOK, CInv, CountInv
  <2>3. handed[e] <= Allowed
    BY <2>2 DEF Total, Naturals
  <2> QED
    BY <2>3 DEF Allowed
<1> QED
  BY <1>1, CountInvariance, Invariance, PTL
=============================================================================
