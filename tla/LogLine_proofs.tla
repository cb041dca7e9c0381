--------------------------- MODULE LogLine_proofs ---------------------------
(***************************************************************************)
(* Lines and entries, for every set of messages.                           *)
(*                                                                         *)
(* StripIsReference: the loop of strip_ansi, byte by byte, keeps exactly   *)
(* the bytes the reference leaves, for every text.  LineInvariant: every   *)
(* line is read in the format it was written in, and what the reader finds *)
(* by counting spaces, words and brackets is what the writer put there.    *)
(* From these follow StripsSequences and OriginKept.                       *)
(*                                                                         *)
(* The loop and the reference are functions over the places of a text, so  *)
(* the proofs are by induction over the places (SetInduction).             *)
(***************************************************************************)
EXTENDS LogLine, TLAPS, WellFoundedInduction, FiniteSetTheorems, SequenceTheorems

(* All strings, and some the provers do not know to be strings.            *)
Tokens == STRING \cup Levels \cup Priorities
          \cup {"ts", "sp", "m", "esc", "[", "]", "2", "3", "7", "<", ">", "1", "bom", "-", "h", "a",
                "none", ":", "Jun", "time", "T", "c"}

-----------------------------------------------------------------------------
(* Induction, and the places of a text.                                    *)

(* A set of naturals has a least element.                                  *)
LEMMA Minimum ==
    ASSUME NEW T, T \subseteq Nat, T # {}
    PROVE  \E x \in T : \A y \in T : ~(y < x)
<1> DEFINE R == {ss \in Nat \X Nat : ss[1] < ss[2]}
<1>1. IsWellFoundedOn(OpToRel(<, Nat), Nat)
  BY NatLessThanWellFounded
<1>2. OpToRel(<, Nat) = R
  BY DEF OpToRel
<1>3. IsWellFoundedOn(R, Nat)
  BY <1>1, <1>2
<1> HIDE DEF R
<1>4. \E x \in T : \A y \in T : <<y, x>> \notin R
  BY <1>3, WFMin
<1> QED
  BY <1>4 DEF R

(* Induction over the naturals, for sets.                                  *)
LEMMA SetInduction ==
    ASSUME NEW S, 0 \in S, \A n \in Nat : n \in S => n + 1 \in S
    PROVE  Nat \subseteq S
<1> SUFFICES ASSUME Nat \ S # {} PROVE FALSE
  OBVIOUS
<1>1. PICK x \in Nat \ S : \A y \in Nat \ S : ~(y < x)
  BY Minimum
<1>2. x - 1 \in Nat
  BY <1>1
<1>3. x - 1 \in S
  BY <1>1, <1>2
<1> QED
  BY <1>1, <1>2, <1>3

(* Min and Max, where one is known.                                        *)
LEMMA LeastIs ==
    ASSUME NEW S, NEW m \in S, m \in Int, \A y \in S : y \in Int /\ m <= y
    PROVE  Min(S) = m
<1>1. \A y \in S : m =< y
  OBVIOUS
<1>2. \A x \in S : (\A y \in S : x =< y) => x = m
  OBVIOUS
<1> QED
  BY <1>1, <1>2 DEF Min

LEMMA GreatestIs ==
    ASSUME NEW S, NEW m \in S, m \in Int, \A y \in S : y \in Int /\ y <= m
    PROVE  Max(S) = m
<1>1. \A y \in S : m >= y
  OBVIOUS
<1>2. \A x \in S : (\A y \in S : x >= y) => x = m
  OBVIOUS
<1> QED
  BY <1>1, <1>2 DEF Max

(* There is a least place.                                                 *)
LEMMA LeastType ==
    ASSUME NEW S, S \subseteq Nat, S # {}
    PROVE  Min(S) \in S /\ \A y \in S : Min(S) <= y
<1>1. PICK x \in S : \A y \in S : ~(y < x)
  BY Minimum
<1>2. \A y \in S : x <= y
  BY <1>1
<1>3. Min(S) = x
  <2>1. x \in Int /\ \A y \in S : y \in Int /\ x <= y
    BY <1>2
  <2> QED
    BY <2>1, LeastIs
<1> QED
  BY <1>2, <1>3

(* The number of places up to one of them.                                 *)
Upto(S, i)  == {j \in S : j <= i}
Count(S, i) == Cardinality(Upto(S, i))

LEMMA CountType ==
    ASSUME NEW S, S \subseteq Nat, NEW i \in Nat
    PROVE  IsFiniteSet(Upto(S, i)) /\ Count(S, i) \in Nat
<1>1. Upto(S, i) \in SUBSET Nat /\ \A x \in Upto(S, i) : x <= i
  BY DEF Upto
<1>2. IsFiniteSet(Upto(S, i))
  BY <1>1, FS_BoundedSetOfNaturals
<1> QED
  BY <1>2, FS_CardinalityType DEF Count

(* From one place to the next one.                                         *)
LEMMA CountNext ==
    ASSUME NEW S, S \subseteq Nat, NEW i \in Nat, NEW j \in S, i < j,
           \A x \in S : x <= i \/ j <= x
    PROVE  Count(S, j) = Count(S, i) + 1
<1>0. \A x \in S : x \in Int
  OBVIOUS
<1>1. Upto(S, j) = Upto(S, i) \cup {j} /\ j \notin Upto(S, i)
  <2>1. \A x \in S : x <= j <=> (x <= i \/ x = j)
    BY <1>0
  <2>2. ~(j <= i)
    BY <1>0
  <2> QED
    BY <2>1, <2>2 DEF Upto
<1> QED
  BY <1>1, CountType, FS_AddElement DEF Count

(* Before the first place there is none.                                   *)
LEMMA CountNone ==
    ASSUME NEW S, NEW i, \A x \in S : ~(x <= i)
    PROVE  Count(S, i) = 0
<1>1. Upto(S, i) = {}
  BY DEF Upto
<1> QED
  BY <1>1, FS_EmptySet DEF Count

(* Later places have a greater number.                                     *)
LEMMA CountGrows ==
    ASSUME NEW S, S \subseteq Nat, NEW i \in Nat, NEW j \in S, i < j
    PROVE  Count(S, i) < Count(S, j)
<1>0. \A x \in S : x \in Int
  OBVIOUS
<1>1. Upto(S, i) \in SUBSET Upto(S, j) /\ j \in Upto(S, j) /\ j \notin Upto(S, i)
  <2>1. \A x \in S : x <= i => x <= j
    BY <1>0
  <2>2. ~(j <= i) /\ j <= j
    BY <1>0
  <2> QED
    BY <2>1, <2>2 DEF Upto
<1>2. IsFiniteSet(Upto(S, i)) /\ Count(S, i) \in Nat /\ IsFiniteSet(Upto(S, j)) /\ Count(S, j) \in Nat
  BY CountType
<1>3. Count(S, i) <= Count(S, j) /\ (Count(S, i) = Count(S, j) => Upto(S, i) = Upto(S, j))
  BY <1>1, <1>2, FS_Subset DEF Count
<1> QED
  BY <1>1, <1>2, <1>3

LEMMA NthIs ==
    ASSUME NEW S, S \subseteq Nat, NEW i \in S
    PROVE  Nth(S, Count(S, i)) = i
<1>1. \A x \in S : Count(S, x) = Count(S, i) => x = i
  <2> TAKE x \in S
  <2>1. x < i => Count(S, x) < Count(S, i)
    BY CountGrows
  <2>2. i < x => Count(S, i) < Count(S, x)
    BY CountGrows
  <2>3. x \in Nat /\ i \in Nat /\ Count(S, x) \in Nat /\ Count(S, i) \in Nat
    BY CountType
  <2> HIDE DEF Count
  <2> QED
    BY <2>1, <2>2, <2>3
<1> HIDE DEF Count
<1>2. Nth(S, Count(S, i)) = CHOOSE x \in S : Count(S, x) = Count(S, i)
  BY DEF Nth, Count, Upto
<1> QED
  BY <1>1, <1>2

(* All places of a set that ends at n.                                     *)
LEMMA CountAll ==
    ASSUME NEW n \in Nat, NEW S, S \subseteq 1 .. n
    PROVE  /\ IsFiniteSet(S) /\ Cardinality(S) \in Nat /\ Cardinality(S) = Count(S, n)
           /\ \A i \in S : Count(S, i) \in 1 .. Cardinality(S)
<1>0. S \subseteq Nat /\ \A x \in S : x \in Nat /\ x >= 1 /\ x <= n
  OBVIOUS
<1>1. Upto(S, n) = S
  BY <1>0 DEF Upto
<1>2. IsFiniteSet(S) /\ Cardinality(S) \in Nat /\ Cardinality(S) = Count(S, n)
  BY <1>0, <1>1, CountType DEF Count
<1>3. ASSUME NEW i \in S PROVE Count(S, i) \in 1 .. Cardinality(S)
  <2>1. Count(S, 0) = 0
    <3>1. \A x \in S : ~(x <= 0)
      BY <1>0
    <3> QED
      BY <3>1, CountNone
  <2>2. Count(S, 0) < Count(S, i)
    <3>1. 0 \in Nat /\ 0 < i
      BY <1>0
    <3> QED
      BY <1>0, <3>1, CountGrows
  <2>3. Upto(S, i) \in SUBSET S
    BY DEF Upto
  <2>4. Count(S, i) <= Cardinality(S) /\ Count(S, i) \in Nat
    BY <2>3, <1>0, <1>2, FS_Subset, CountType DEF Count
  <2> QED
    BY <1>2, <2>1, <2>2, <2>4
<1> QED
  BY <1>2, <1>3

(* Every number up to the size of a set is that of a place.                *)
LEMMA NthExists ==
    \A n \in Nat : \A S \in SUBSET (1 .. n) : \A k \in 1 .. Cardinality(S) :
       \E i \in S : Count(S, i) = k
<1> DEFINE P(n) == \A S \in SUBSET (1 .. n) : \A k \in 1 .. Cardinality(S) :
                      \E i \in S : Count(S, i) = k
<1> DEFINE G == {n \in Nat : P(n)}
<1>1. 0 \in G
  <2>1. \A S \in SUBSET (1 .. 0) : S = {}
    OBVIOUS
  <2>2. \A S \in SUBSET (1 .. 0) : Cardinality(S) = 0
    BY <2>1, FS_EmptySet
  <2> QED
    BY <2>2
<1>2. ASSUME NEW n \in Nat, n \in G PROVE n + 1 \in G
  <2> SUFFICES ASSUME NEW S \in SUBSET (1 .. n + 1), NEW k \in 1 .. Cardinality(S)
               PROVE  \E i \in S : Count(S, i) = k
    OBVIOUS
  <2>0. \A x \in S : x \in Nat /\ x >= 1 /\ x <= n + 1
    OBVIOUS
  <2>1. P(n)
    BY <1>2
  <2> DEFINE T == S \cap (1 .. n)
  <2>2. T \in SUBSET (1 .. n) /\ \A i \in T : Count(T, i) = Count(S, i)
    <3>1. \A i \in T : Upto(T, i) = Upto(S, i)
      <4>1. \A i \in T : \A x \in S : x <= i => x \in 1 .. n
        BY <2>0
      <4> QED
        BY <4>1 DEF Upto
    <3> QED
      BY <3>1 DEF Count
  <2>3. CASE k <= Cardinality(T)
    <3>1. k \in 1 .. Cardinality(T)
      BY <2>2, <2>3, CountAll
    <3>2. PICK i \in T : Count(T, i) = k
      BY <2>1, <2>2, <3>1
    <3> QED
      BY <2>2, <3>2
  <2>4. CASE ~(k <= Cardinality(T))
    <3>1. n + 1 \in S
      <4>0. \A x \in S : x \in 1 .. n \/ x = n + 1
        BY <2>0
      <4>1. n + 1 \notin S => T = S
        BY <4>0
      <4> QED
        BY <4>1, <2>4
    <3>2. S = T \cup {n + 1} /\ n + 1 \notin T
      <4>0. \A x \in S : x \in 1 .. n \/ x = n + 1
        BY <2>0
      <4>1. n + 1 \notin 1 .. n
        OBVIOUS
      <4> QED
        BY <3>1, <4>0, <4>1
    <3>3. Cardinality(S) = Cardinality(T) + 1
      <4>1. IsFiniteSet(T)
        BY <2>2, CountAll
      <4> HIDE DEF T
      <4> QED
        BY <3>2, <4>1, FS_AddElement
    <3>4. k = Cardinality(S)
      BY <2>2, <2>4, <3>3, CountAll
    <3>5. Count(S, n + 1) = Cardinality(S)
      BY CountAll, n + 1 \in Nat
    <3> QED
      BY <3>1, <3>4, <3>5
  <2> QED
    BY <2>3, <2>4
<1> HIDE DEF P
<1>3. Nat \subseteq G
  BY <1>1, <1>2, SetInduction
<1>4. \A n \in Nat : P(n)
  BY <1>3
<1> QED
  BY <1>4 DEF P

(* What a text has at the places of a set is a text.                       *)
LEMMA PickType ==
    ASSUME NEW s \in Seq(Tokens), NEW S \in SUBSET (1 .. Len(s))
    PROVE  /\ Pick(s, S) \in Seq(Tokens) /\ Len(Pick(s, S)) = Cardinality(S)
           /\ \A k \in 1 .. Cardinality(S) : Nth(S, k) \in S
<1>1. Cardinality(S) \in Nat
  BY CountAll, LenProperties
<1>2. ASSUME NEW k \in 1 .. Cardinality(S) PROVE Nth(S, k) \in S
  <2>1. PICK i \in S : Count(S, i) = k
    BY NthExists, LenProperties
  <2>2. Nth(S, k) = i
    <3>1. S \subseteq Nat
      OBVIOUS
    <3> QED
      BY <2>1, <3>1, NthIs
  <2> QED
    BY <2>2
<1>3. \A i \in 1 .. Len(s) : s[i] \in Tokens
  BY ElementOfSeq
<1>4. \A k \in 1 .. Cardinality(S) : s[Nth(S, k)] \in Tokens
  BY <1>2, <1>3
<1> DEFINE c == Cardinality(S)
           p == Pick(s, S)
<1>5. p = [k \in 1 .. c |-> s[Nth(S, k)]]
  BY DEF Pick
<1> HIDE DEF c
<1>6. [k \in 1 .. c |-> s[Nth(S, k)]] \in Seq(Tokens) /\ Len([k \in 1 .. c |-> s[Nth(S, k)]]) = c
  BY <1>1, <1>4 DEF c
<1> QED
  BY <1>2, <1>5, <1>6 DEF c

(* One place more, behind the others.                                      *)
LEMMA PickMore ==
    ASSUME NEW s \in Seq(Tokens), NEW i \in 1 .. Len(s), NEW S \in SUBSET (1 .. i - 1)
    PROVE  Pick(s, S \cup {i}) = Append(Pick(s, S), s[i])
<1> DEFINE T == S \cup {i}
<1>0. Len(s) \in Nat /\ i - 1 \in Nat /\ S \in SUBSET (1 .. Len(s)) /\ T \in SUBSET (1 .. Len(s))
      /\ S \subseteq Nat /\ T \subseteq Nat /\ i \in Nat /\ i \in T
  BY LenProperties
<1>1. Cardinality(S) \in Nat /\ Cardinality(T) = Cardinality(S) + 1
  <2>1. IsFiniteSet(S) /\ Cardinality(S) \in Nat
    BY <1>0, CountAll
  <2>2. i \notin 1 .. i - 1
    BY <1>0
  <2>3. i \notin S
    BY <2>2
  <2> QED
    BY <2>1, <2>3, FS_AddElement
<1>2. Count(T, i) = Cardinality(T)
  <2>1. T \subseteq 1 .. i
    OBVIOUS
  <2> QED
    BY <2>1, <1>0, CountAll
<1>3. Nth(T, Cardinality(S) + 1) = i
  BY <1>0, <1>1, <1>2, NthIs
<1>4. ASSUME NEW k \in 1 .. Cardinality(S) PROVE Nth(T, k) = Nth(S, k)
  <2>1. PICK x \in S : Count(S, x) = k
    BY NthExists, <1>0
  <2>2. Upto(T, x) = Upto(S, x)
    BY <1>0 DEF Upto
  <2>3. Count(T, x) = k
    BY <2>1, <2>2 DEF Count
  <2>4. Nth(S, k) = x
    BY <2>1, <1>0, NthIs
  <2>5. Nth(T, k) = x
    BY <2>3, <1>0, NthIs
  <2> QED
    BY <2>4, <2>5
<1> DEFINE a == Pick(s, S)
           b == Pick(s, T)
<1>5. a \in Seq(Tokens) /\ Len(a) = Cardinality(S) /\ b \in Seq(Tokens) /\ Len(b) = Cardinality(S) + 1
  BY <1>0, <1>1, PickType
<1>6. a = [k \in 1 .. Cardinality(S) |-> s[Nth(S, k)]] /\ b = [k \in 1 .. Cardinality(S) + 1 |-> s[Nth(T, k)]]
  BY <1>1 DEF Pick
<1> HIDE DEF a, b, T
<1>7. \A k \in 1 .. Cardinality(S) : b[k] = a[k]
  <2> TAKE k \in 1 .. Cardinality(S)
  <2>1. k \in 1 .. Cardinality(S) + 1
    BY <1>1
  <2> QED
    BY <1>4, <1>6, <2>1 DEF T
<1>10. b[Cardinality(S) + 1] = s[i]
  <2>1. Cardinality(S) + 1 \in 1 .. Cardinality(S) + 1
    BY <1>1
  <2> QED
    BY <1>3, <1>6, <2>1
<1>8. s[i] \in Tokens
  BY ElementOfSeq
<1>9. b = Append(a, s[i])
  BY <1>1, <1>5, <1>7, <1>8, <1>10
<1> QED
  BY <1>9 DEF a, b, T
-----------------------------------------------------------------------------
(* Escape sequences.                                                       *)

(* The first byte after an introduction.                                   *)
First(s, j) == IF s[j] = "esc" THEN j + 1 ELSE j + 2

LEMMA ReachIs ==
    ASSUME NEW s \in Seq(Tokens), NEW j \in 1 .. Len(s)
    PROVE  /\ First(s, j) \in Nat /\ First(s, j) > j
           /\ First(s, j) > Len(s) \/ s[First(s, j)] # "[" => Reach(s, j) = First(s, j)
           /\ \A n \in First(s, j) .. Len(s) :
                 /\ s[First(s, j)] = "["
                 /\ \A x \in First(s, j) + 1 .. n : s[x] \notin Letters
                 => /\ Reach(s, j) >= n
                    /\ n < Len(s) => IF s[n + 1] \in Letters THEN Reach(s, j) = n + 1
                                     ELSE Reach(s, j) >= n + 1
<1> DEFINE f == First(s, j)
           final == {x \in f + 1 .. Len(s) : s[x] \in Letters}
<1>1. f \in Nat /\ f > j /\ Len(s) \in Nat
  BY LenProperties DEF First
<1>2. Reach(s, j) = IF f > Len(s) \/ s[f] # "[" THEN f ELSE IF final = {} THEN Len(s) ELSE Min(final)
  BY DEF Reach, First
<1> HIDE DEF f
<1>3. ASSUME NEW n \in f .. Len(s), s[f] = "[", \A x \in f + 1 .. n : s[x] \notin Letters
      PROVE  /\ Reach(s, j) >= n
             /\ n < Len(s) => IF s[n + 1] \in Letters THEN Reach(s, j) = n + 1
                              ELSE Reach(s, j) >= n + 1
  <2>1. ~(f > Len(s)) /\ n \in Nat /\ n >= f /\ n <= Len(s)
    BY <1>1
  <2>2. CASE final = {}
    <3>1. Reach(s, j) = Len(s)
      BY <1>2, <1>3, <2>1, <2>2
    <3>2. n < Len(s) => n + 1 \in f + 1 .. Len(s)
      BY <1>1, <2>1
    <3>3. n < Len(s) => s[n + 1] \notin Letters
      BY <2>2, <3>2
    <3> QED
      BY <3>1, <3>3, <2>1, <1>1
  <2>3. CASE final # {}
    <3>1. Reach(s, j) = Min(final)
      BY <1>2, <1>3, <2>1, <2>3
    <3>2. \A x \in final : x \in Nat /\ x >= n + 1 /\ x <= Len(s)
      <4> TAKE x \in final
      <4>1. x \in Nat /\ x >= f + 1 /\ x <= Len(s) /\ s[x] \in Letters
        BY <1>1
      <4>2. x \notin f + 1 .. n
        BY <1>3, <4>1
      <4> QED
        BY <4>1, <4>2, <2>1
    <3>3. Min(final) \in final
      BY <3>2, <2>3, LeastType
    <3>4. s[n + 1] \in Letters /\ n < Len(s) => Min(final) = n + 1
      <4> SUFFICES ASSUME s[n + 1] \in Letters, n < Len(s) PROVE Min(final) = n + 1
        OBVIOUS
      <4>1. n + 1 \in f + 1 .. Len(s)
        BY <1>1, <2>1
      <4>2. n + 1 \in final /\ n + 1 \in Int
        BY <4>1, <2>1
      <4>3. \A x \in final : x \in Int /\ n + 1 <= x
        BY <3>2, <2>1
      <4> HIDE DEF final
      <4> QED
        BY <4>2, <4>3, LeastIs
    <3> HIDE DEF final
    <3> QED
      BY <3>1, <3>2, <3>3, <3>4, <2>1
  <2> QED
    BY <2>2, <2>3
<1> QED
  BY <1>1, <1>2, <1>3 DEF f

(* A sequence reaches beyond its introduction.                             *)
LEMMA ReachType ==
    ASSUME NEW s \in Seq(Tokens), NEW j \in 1 .. Len(s)
    PROVE  Reach(s, j) \in Nat /\ Reach(s, j) >= First(s, j)
<1> DEFINE f == First(s, j)
           final == {x \in f + 1 .. Len(s) : s[x] \in Letters}
<1>1. f \in Nat /\ Len(s) \in Nat
  BY LenProperties DEF First
<1>2. Reach(s, j) = IF f > Len(s) \/ s[f] # "[" THEN f ELSE IF final = {} THEN Len(s) ELSE Min(final)
  BY DEF Reach, First
<1> HIDE DEF f
<1>3. CASE f > Len(s) \/ s[f] # "["
  BY <1>1, <1>2, <1>3 DEF f
<1>4. CASE ~(f > Len(s) \/ s[f] # "[") /\ final = {}
  BY <1>1, <1>2, <1>4 DEF f
<1>5. CASE ~(f > Len(s) \/ s[f] # "[") /\ final # {}
  <2>1. \A x \in final : x \in Nat /\ x >= f
    BY <1>1
  <2>2. Min(final) \in final
    BY <1>5, <2>1, LeastType
  <2> HIDE DEF final
  <2> QED
    BY <1>2, <1>5, <2>1, <2>2 DEF f
<1> QED
  BY <1>3, <1>4, <1>5

(* The introductions that count exist, and are not inside another one.     *)
Counting(s, n, S) ==
    \A i \in 1 .. n : i \in S <=>
       /\ Introduced(s, i)
       /\ \A j \in S : ~(j < i /\ i <= Reach(s, j))

LEMMA CountingExists ==
    ASSUME NEW s
    PROVE  \A n \in Nat : \E S \in SUBSET (1 .. n) : Counting(s, n, S)
<1> DEFINE P(n) == \E S \in SUBSET (1 .. n) : Counting(s, n, S)
           G == {n \in Nat : P(n)}
<1>1. 0 \in G
  <2>1. {} \in SUBSET (1 .. 0) /\ Counting(s, 0, {})
    BY DEF Counting
  <2> QED
    BY <2>1
<1>2. ASSUME NEW n \in Nat, n \in G PROVE n + 1 \in G
  <2>1. PICK S \in SUBSET (1 .. n) : Counting(s, n, S)
    BY <1>2
  <2> DEFINE new == Introduced(s, n + 1) /\ \A j \in S : ~(j < n + 1 /\ n + 1 <= Reach(s, j))
             T == IF new THEN S \cup {n + 1} ELSE S
  <2>2. T \in SUBSET (1 .. n + 1)
    OBVIOUS
  <2>3. \A j \in T : j \in S \/ j = n + 1
    OBVIOUS
  <2>4. ASSUME NEW i \in 1 .. n
        PROVE  i \in T <=> /\ Introduced(s, i)
                           /\ \A j \in T : ~(j < i /\ i <= Reach(s, j))
    <3>1. i # n + 1 /\ ~(n + 1 < i)
      OBVIOUS
    <3>2. i \in T <=> i \in S
      BY <3>1
    <3>3. (\A j \in T : ~(j < i /\ i <= Reach(s, j))) <=> \A j \in S : ~(j < i /\ i <= Reach(s, j))
      BY <2>3, <3>1
    <3> HIDE DEF T
    <3> QED
      BY <3>2, <3>3, <2>1 DEF Counting
  <2>5. n + 1 \in T <=> /\ Introduced(s, n + 1)
                        /\ \A j \in T : ~(j < n + 1 /\ n + 1 <= Reach(s, j))
    <3>1. n + 1 \notin S /\ ~(n + 1 < n + 1)
      OBVIOUS
    <3>2. n + 1 \in T <=> new
      BY <3>1
    <3>3. (\A j \in T : ~(j < n + 1 /\ n + 1 <= Reach(s, j)))
             <=> \A j \in S : ~(j < n + 1 /\ n + 1 <= Reach(s, j))
      BY <2>3, <3>1
    <3> HIDE DEF T
    <3> QED
      BY <3>2, <3>3
  <2>6. \A i \in 1 .. n + 1 : i \in 1 .. n \/ i = n + 1
    OBVIOUS
  <2> HIDE DEF T
  <2>7. Counting(s, n + 1, T)
    BY <2>4, <2>5, <2>6 DEF Counting
  <2> QED
    BY <2>2, <2>7
<1> HIDE DEF P
<1>3. Nat \subseteq G
  BY <1>1, <1>2, SetInduction
<1>4. \A n \in Nat : P(n)
  BY <1>3
<1> QED
  BY <1>4 DEF P

LEMMA StartsIs ==
    ASSUME NEW s \in Seq(Tokens)
    PROVE  Starts(s) \in SUBSET (1 .. Len(s)) /\ Counting(s, Len(s), Starts(s))
<1>1. DOMAIN s = 1 .. Len(s) /\ Len(s) \in Nat
  BY LenProperties
<1>2. PICK S \in SUBSET (1 .. Len(s)) : Counting(s, Len(s), S)
  BY <1>1, CountingExists
<1> DEFINE All == {i \in DOMAIN s : Introduced(s, i)}
<1>3. S \in SUBSET All
  BY <1>1, <1>2 DEF Counting
<1>4. Starts(s) = CHOOSE X \in SUBSET All : Counting(s, Len(s), X)
  BY <1>1 DEF Starts, Counting
<1>5. Starts(s) \in SUBSET All /\ Counting(s, Len(s), Starts(s))
  BY <1>2, <1>3, <1>4
<1> QED
  BY <1>1, <1>5

(* The loop, one byte after the other.                                     *)
ScanStart == [mode |-> "text", out |-> <<>>]

Scanning(s, n, f) ==
    /\ f[0] = ScanStart
    /\ \A i \in 1 .. n : f[i] = StripStep(s, f[i - 1], i)

LEMMA ScanExists ==
    ASSUME NEW s
    PROVE  \A n \in Nat : \E f : Scanning(s, n, f)
<1> DEFINE P(n) == \E f : Scanning(s, n, f)
           G == {n \in Nat : P(n)}
<1>1. 0 \in G
  <2>1. Scanning(s, 0, [i \in {0} |-> ScanStart])
    BY DEF Scanning
  <2> QED
    BY <2>1
<1>2. ASSUME NEW n \in Nat, n \in G PROVE n + 1 \in G
  <2>1. PICK f : Scanning(s, n, f)
    BY <1>2
  <2> DEFINE g == [i \in 0 .. n + 1 |-> IF i = n + 1 THEN StripStep(s, f[n], n + 1) ELSE f[i]]
  <2>2. \A i \in 0 .. n : i \in 0 .. n + 1 /\ i # n + 1
    OBVIOUS
  <2>3. \A i \in 0 .. n : g[i] = f[i]
    BY <2>2
  <2>4. g[n + 1] = StripStep(s, f[n], n + 1)
    BY n + 1 \in 0 .. n + 1
  <2> HIDE DEF g
  <2>5. g[0] = ScanStart
    BY <2>1, <2>3, 0 \in 0 .. n DEF Scanning
  <2>6. ASSUME NEW i \in 1 .. n + 1 PROVE g[i] = StripStep(s, g[i - 1], i)
    <3>1. CASE i = n + 1
      <4>1. i - 1 = n /\ n \in 0 .. n
        BY <3>1
      <4>2. g[i - 1] = f[n]
        BY <2>3, <4>1
      <4> QED
        BY <2>4, <3>1, <4>2
    <3>2. CASE i # n + 1
      <4>1. i \in 1 .. n /\ i \in 0 .. n /\ i - 1 \in 0 .. n
        BY <3>2
      <4>2. g[i] = f[i] /\ g[i - 1] = f[i - 1]
        BY <2>3, <4>1
      <4> QED
        BY <2>1, <4>1, <4>2 DEF Scanning
    <3> QED
      BY <3>1, <3>2
  <2>7. Scanning(s, n + 1, g)
    BY <2>5, <2>6 DEF Scanning
  <2> QED
    BY <2>7
<1> HIDE DEF P
<1>3. Nat \subseteq G
  BY <1>1, <1>2, SetInduction
<1>4. \A n \in Nat : P(n)
  BY <1>3
<1> QED
  BY <1>4 DEF P

LEMMA ScanIs ==
    ASSUME NEW s \in Seq(Tokens)
    PROVE  Scanning(s, Len(s), Scan(s))
<1>1. Len(s) \in Nat
  BY LenProperties
<1>2. PICK f : Scanning(s, Len(s), f)
  BY <1>1, ScanExists
<1> DEFINE Body(g) == [i \in 0 .. Len(s) |->
                         IF i = 0 THEN ScanStart ELSE StripStep(s, g[i - 1], i)]
           h == [i \in 0 .. Len(s) |-> f[i]]
<1>3. Scan(s) = CHOOSE g : g = Body(g)
  BY DEF Scan, ScanStart
<1>4. h = Body(h)
  <2>1. \A i \in 0 .. Len(s) : i = 0 \/ (i \in 1 .. Len(s) /\ i - 1 \in 0 .. Len(s))
    BY <1>1
  <2>2. \A i \in 0 .. Len(s) : h[i] = IF i = 0 THEN ScanStart ELSE StripStep(s, h[i - 1], i)
    <3> TAKE i \in 0 .. Len(s)
    <3>1. h[i] = f[i] /\ (i # 0 => h[i - 1] = f[i - 1])
      BY <2>1
    <3> HIDE DEF h
    <3> QED
      BY <2>1, <3>1, <1>2 DEF Scanning
  <2> QED
    BY <2>2
<1> HIDE DEF Body, h
<1>5. Scan(s) = Body(Scan(s))
  BY <1>3, <1>4
<1> DEFINE scan == Scan(s)
<1>6. scan = Body(scan)
  BY <1>5
<1> HIDE DEF scan
<1>7. scan = [i \in 0 .. Len(s) |-> IF i = 0 THEN ScanStart ELSE StripStep(s, scan[i - 1], i)]
  BY <1>6 DEF Body
<1>8. scan[0] = ScanStart
  BY <1>7, <1>1, 0 \in 0 .. Len(s)
<1>9. \A i \in 1 .. Len(s) : scan[i] = StripStep(s, scan[i - 1], i)
  <2> TAKE i \in 1 .. Len(s)
  <2>1. i \in 0 .. Len(s) /\ i # 0
    BY <1>1
  <2> QED
    BY <1>7, <2>1
<1> QED
  BY <1>8, <1>9 DEF Scanning, scan

(* What the loop does with a byte, by its mode.                            *)
LEMMA StripStepIs ==
    ASSUME NEW s, NEW a, NEW i, a = [mode |-> a.mode, out |-> a.out]
    PROVE  LET b == StripStep(s, a, i)
           IN  /\ a.mode = "text" /\ s[i] = "esc" => b = [mode |-> "escape", out |-> a.out]
               /\ a.mode = "text" /\ s[i] = "#" /\ i < Len(s) /\ s[i + 1] = "033"
                    => b = [mode |-> "octal", out |-> a.out]
               /\ a.mode = "text" /\ ~Introduced(s, i)
                    => b = [mode |-> "text", out |-> Append(a.out, s[i])]
               /\ a.mode = "octal" => b = [mode |-> "escape", out |-> a.out]
               /\ a.mode = "escape"
                    => b = [mode |-> IF s[i] = "[" THEN "csi" ELSE "text", out |-> a.out]
               /\ a.mode = "csi"
                    => b = [mode |-> IF s[i] \in Letters THEN "text" ELSE "csi", out |-> a.out]
<1> DEFINE m == a.mode
           o == a.out
<1>1. a = [mode |-> m, out |-> o]
  OBVIOUS
<1> HIDE DEF m, o
<1>2. \A x : [a EXCEPT !.mode = x] = [mode |-> x, out |-> o]
  BY <1>1
<1>3. [a EXCEPT !.out = Append(@, s[i])] = [mode |-> m, out |-> Append(o, s[i])]
  BY <1>1
<1>4. a.mode = m /\ a.out = o
  BY <1>1
<1>5. CASE m = "text"
  BY <1>2, <1>3, <1>4, <1>5 DEF StripStep, Introduced
<1>6. CASE m = "octal"
  BY <1>2, <1>3, <1>4, <1>6 DEF StripStep
<1>7. CASE m = "escape"
  BY <1>2, <1>3, <1>4, <1>7 DEF StripStep
<1>8. CASE m = "csi"
  BY <1>2, <1>3, <1>4, <1>8 DEF StripStep
<1>9. CASE m \notin {"text", "octal", "escape", "csi"}
  BY <1>4, <1>9
<1> QED
  BY <1>5, <1>6, <1>7, <1>8, <1>9

(* The places before i that no escape sequence covers.                     *)
Covered(s, k)   == \E j \in Starts(s) : j <= k /\ k <= Reach(s, j)
Uncovered(s, i) == {k \in 1 .. i : ~Covered(s, k)}

(* All sequences that begin up to i end there, but for that of j.          *)
Ended(s, i, j) == \A x \in Starts(s) : x <= i /\ x # j => Reach(s, x) <= i

(* What the mode says about the bytes that were read.                      *)
InText(s, i)   == Ended(s, i, 0)
InOctal(s, i)  == /\ i \in Starts(s) /\ s[i] = "#" /\ i < Len(s) /\ s[i + 1] = "033"
                  /\ Ended(s, i, i)
InEscape(s, i) == \E j \in Starts(s) : j <= i /\ First(s, j) = i + 1 /\ Ended(s, i, j)
InCsi(s, i)    == \E j \in Starts(s) :
                    /\ j <= i /\ First(s, j) <= i /\ s[First(s, j)] = "["
                    /\ \A x \in First(s, j) + 1 .. i : s[x] \notin Letters
                    /\ Ended(s, i, j)

Followed(s, a, i) ==
    /\ a = [mode |-> a.mode, out |-> Pick(s, Uncovered(s, i))]
    /\ a.mode \in {"text", "octal", "escape", "csi"}
    /\ a.mode = "text"   => InText(s, i)
    /\ a.mode = "octal"  => InOctal(s, i)
    /\ a.mode = "escape" => InEscape(s, i)
    /\ a.mode = "csi"    => InCsi(s, i)

(* A byte that an earlier sequence covers begins no sequence of its own.   *)
LEMMA CoveredByte ==
    ASSUME NEW s \in Seq(Tokens), NEW i \in Nat, i + 1 <= Len(s),
           NEW j \in Starts(s), j <= i, i + 1 <= Reach(s, j), Ended(s, i, j)
    PROVE  /\ i + 1 \notin Starts(s)
           /\ Uncovered(s, i + 1) = Uncovered(s, i)
           /\ Reach(s, j) = i + 1 => Ended(s, i + 1, 0)
           /\ Ended(s, i + 1, j)
<1>1. Starts(s) \in SUBSET (1 .. Len(s)) /\ Counting(s, Len(s), Starts(s)) /\ Len(s) \in Nat
  BY StartsIs, LenProperties
<1>2. i + 1 \in 1 .. Len(s) /\ j \in Nat /\ j < i + 1 /\ j <= i + 1
  BY <1>1
<1>3. i + 1 \notin Starts(s)
  BY <1>1, <1>2 DEF Counting
<1>4. Covered(s, i + 1)
  BY <1>2 DEF Covered
<1>5. Uncovered(s, i + 1) = Uncovered(s, i)
  <2>1. \A k \in 1 .. i + 1 : k \in 1 .. i \/ k = i + 1
    OBVIOUS
  <2>2. \A k \in 1 .. i : k \in 1 .. i + 1
    OBVIOUS
  <2> QED
    BY <1>4, <2>1, <2>2 DEF Uncovered
<1>6. \A x \in Starts(s) : x \in Nat /\ Reach(s, x) \in Int /\ (x <= i + 1 => x <= i)
  <2> TAKE x \in Starts(s)
  <2>1. x \in Nat /\ x \in 1 .. Len(s) /\ x # i + 1
    BY <1>1, <1>3
  <2>2. Reach(s, x) \in Int
    BY <2>1, ReachType
  <2> QED
    BY <2>1, <2>2
<1>7. \A x \in Starts(s) : x <= i + 1 /\ x # j => Reach(s, x) <= i + 1
  BY <1>6 DEF Ended
<1> QED
  BY <1>3, <1>5, <1>6, <1>7 DEF Ended

(* In text a byte that introduces a sequence is covered, any other is kept. *)
LEMMA TextByte ==
    ASSUME NEW s \in Seq(Tokens), NEW i \in Nat, i + 1 <= Len(s), InText(s, i)
    PROVE  /\ i + 1 \in Starts(s) <=> Introduced(s, i + 1)
           /\ Introduced(s, i + 1) => /\ Uncovered(s, i + 1) = Uncovered(s, i)
                                      /\ Ended(s, i + 1, i + 1)
           /\ ~Introduced(s, i + 1) => /\ Uncovered(s, i + 1) = Uncovered(s, i) \cup {i + 1}
                                       /\ InText(s, i + 1)
<1>1. Starts(s) \in SUBSET (1 .. Len(s)) /\ Counting(s, Len(s), Starts(s)) /\ Len(s) \in Nat
  BY StartsIs, LenProperties
<1>2. ASSUME NEW x \in Starts(s)
      PROVE  /\ ~(x < i + 1 /\ i + 1 <= Reach(s, x))
             /\ x <= x /\ x <= Reach(s, x) /\ x # 0
             /\ x # i + 1 => ~(x <= i + 1 /\ i + 1 <= Reach(s, x))
             /\ x <= i + 1 /\ x # i + 1 => Reach(s, x) <= i + 1
  <2>1. x \in 1 .. Len(s)
    BY <1>1
  <2>2. x # 0 /\ Reach(s, x) \in Nat /\ Reach(s, x) >= First(s, x) /\ First(s, x) \in Nat /\ First(s, x) > x
    BY <2>1, ReachType, ReachIs
  <2>3. x <= i => Reach(s, x) <= i
    BY <2>2 DEF InText, Ended
  <2> QED
    BY <2>1, <2>2, <2>3
<1>3. \A x \in Starts(s) : ~(x < i + 1 /\ i + 1 <= Reach(s, x))
  BY <1>2
<1>4. i + 1 \in 1 .. Len(s)
  BY <1>1
<1>5. i + 1 \in Starts(s) <=> Introduced(s, i + 1)
  BY <1>1, <1>3, <1>4 DEF Counting
<1>6. \A k \in 1 .. i + 1 : k \in 1 .. i \/ k = i + 1
  OBVIOUS
<1>7. (\A k \in 1 .. i : k \in 1 .. i + 1) /\ i + 1 \in 1 .. i + 1
  OBVIOUS
<1>8. ASSUME Introduced(s, i + 1)
      PROVE  Uncovered(s, i + 1) = Uncovered(s, i) /\ Ended(s, i + 1, i + 1)
  <2>1. Covered(s, i + 1)
    BY <1>2, <1>5, <1>8 DEF Covered
  <2>2. Uncovered(s, i + 1) = Uncovered(s, i)
    BY <1>6, <1>7, <2>1 DEF Uncovered
  <2>3. Ended(s, i + 1, i + 1)
    BY <1>2 DEF Ended
  <2> QED
    BY <2>2, <2>3
<1>9. ASSUME ~Introduced(s, i + 1)
      PROVE  Uncovered(s, i + 1) = Uncovered(s, i) \cup {i + 1} /\ InText(s, i + 1)
  <2>1. \A x \in Starts(s) : x # i + 1
    BY <1>5, <1>9
  <2>2. ~Covered(s, i + 1)
    BY <1>2, <2>1 DEF Covered
  <2>3. Uncovered(s, i + 1) = Uncovered(s, i) \cup {i + 1}
    BY <1>6, <1>7, <2>2 DEF Uncovered
  <2>4. InText(s, i + 1)
    BY <1>2, <2>1 DEF InText, Ended
  <2> QED
    BY <2>3, <2>4
<1> QED
  BY <1>5, <1>8, <1>9

(* A byte of the text that introduces nothing is kept.                     *)
LEMMA PlainStep ==
    ASSUME NEW s, NEW a, NEW i, a = [mode |-> a.mode, out |-> a.out],
           a.mode = "text", ~Introduced(s, i)
    PROVE  StripStep(s, a, i) = [mode |-> "text", out |-> Append(a.out, s[i])]
BY StripStepIs

(* The loop and the reference agree after every byte.                      *)
LEMMA FollowedStep ==
    ASSUME NEW s \in Seq(Tokens), NEW i \in Nat, i + 1 <= Len(s),
           NEW a, Followed(s, a, i)
    PROVE  Followed(s, StripStep(s, a, i + 1), i + 1)
<1> DEFINE b == StripStep(s, a, i + 1)
           o == Pick(s, Uncovered(s, i))
<1>1. a = [mode |-> a.mode, out |-> o] /\ a.out = o /\ a = [mode |-> a.mode, out |-> a.out]
  BY DEF Followed
<1>2. Starts(s) \in SUBSET (1 .. Len(s)) /\ Counting(s, Len(s), Starts(s)) /\ Len(s) \in Nat
      /\ i + 1 \in 1 .. Len(s) /\ (i + 1) - 1 = i
  BY StartsIs, LenProperties
<1>3. \A x \in Starts(s) : x \in 1 .. Len(s) /\ x \in Nat
  BY <1>2
<1>4. CASE a.mode = "text" /\ s[i + 1] = "esc"
  <2>1. Introduced(s, i + 1)
    BY <1>4 DEF Introduced
  <2>2. i + 1 \in Starts(s) /\ Uncovered(s, i + 1) = Uncovered(s, i) /\ Ended(s, i + 1, i + 1)
    BY <1>4, <2>1, TextByte DEF Followed
  <2>3. b = [mode |-> "escape", out |-> o]
    BY <1>1, <1>4, StripStepIs
  <2>4. First(s, i + 1) = (i + 1) + 1
    BY <1>4 DEF First
  <2>5. InEscape(s, i + 1)
    BY <2>2, <2>4 DEF InEscape
  <2> QED
    BY <2>2, <2>3, <2>5 DEF Followed
<1>5. CASE a.mode = "text" /\ s[i + 1] # "esc" /\ Introduced(s, i + 1)
  <2>1. s[i + 1] = "#" /\ i + 1 < Len(s) /\ s[(i + 1) + 1] = "033"
    BY <1>5 DEF Introduced
  <2>2. i + 1 \in Starts(s) /\ Uncovered(s, i + 1) = Uncovered(s, i) /\ Ended(s, i + 1, i + 1)
    BY <1>5, TextByte DEF Followed
  <2>3. b = [mode |-> "octal", out |-> o]
    BY <1>1, <1>5, <2>1, StripStepIs
  <2>4. InOctal(s, i + 1)
    BY <2>1, <2>2 DEF InOctal
  <2> QED
    BY <2>2, <2>3, <2>4 DEF Followed
<1>6. CASE a.mode = "text" /\ ~Introduced(s, i + 1)
  <2>1. Uncovered(s, i + 1) = Uncovered(s, i) \cup {i + 1} /\ InText(s, i + 1)
    BY <1>6, TextByte DEF Followed
  <2>2. b = [mode |-> "text", out |-> Append(o, s[i + 1])]
    <3> DEFINE p == Append(a.out, s[i + 1])
    <3>0. a = [mode |-> a.mode, out |-> a.out]
      BY <1>1
    <3>1. b = [mode |-> "text", out |-> p]
      BY <3>0, <1>6, PlainStep
    <3>2. p = Append(o, s[i + 1])
      BY <1>1
    <3> QED
      BY <3>1, <3>2
  <2>3. Uncovered(s, i) \in SUBSET (1 .. (i + 1) - 1)
    BY <1>2 DEF Uncovered
  <2>4. Pick(s, Uncovered(s, i + 1)) = Append(o, s[i + 1])
    BY <1>2, <2>1, <2>3, PickMore
  <2> DEFINE p == Pick(s, Uncovered(s, i + 1))
  <2>5. b = [mode |-> "text", out |-> p]
    BY <2>2, <2>4
  <2> HIDE DEF b, p
  <2>6. b.mode = "text" /\ b = [mode |-> b.mode, out |-> p]
    BY <2>5
  <2>7. Followed(s, b, i + 1)
    BY <2>1, <2>6 DEF Followed, p
  <2> QED
    BY <2>7 DEF b
<1>7. CASE a.mode = "octal"
  <2>1. InOctal(s, i)
    BY <1>7 DEF Followed
  <2>2. First(s, i) = (i + 1) + 1 /\ i \in Starts(s) /\ i <= i
    BY <2>1 DEF InOctal, First
  <2>3. Reach(s, i) \in Nat /\ Reach(s, i) >= First(s, i)
    BY <1>3, <2>2, ReachType
  <2>4. Uncovered(s, i + 1) = Uncovered(s, i) /\ Ended(s, i + 1, i)
    BY <2>1, <2>2, <2>3, CoveredByte DEF InOctal
  <2>5. b = [mode |-> "escape", out |-> o]
    BY <1>1, <1>7, StripStepIs
  <2>6. InEscape(s, i + 1)
    BY <2>2, <2>4 DEF InEscape
  <2> QED
    BY <2>4, <2>5, <2>6 DEF Followed
<1>8. CASE a.mode = "escape"
  <2>1. PICK j \in Starts(s) : j <= i /\ First(s, j) = i + 1 /\ Ended(s, i, j)
    BY <1>8 DEF Followed, InEscape
  <2>2. Reach(s, j) \in Nat /\ Reach(s, j) >= i + 1
    BY <1>3, <2>1, ReachType
  <2>3. /\ Uncovered(s, i + 1) = Uncovered(s, i) /\ Ended(s, i + 1, j)
        /\ Reach(s, j) = i + 1 => Ended(s, i + 1, 0)
    BY <2>1, <2>2, CoveredByte
  <2>4. b = [mode |-> IF s[i + 1] = "[" THEN "csi" ELSE "text", out |-> o]
    BY <1>1, <1>8, StripStepIs
  <2>5. CASE s[i + 1] = "["
    <3>1. \A x \in First(s, j) + 1 .. i + 1 : FALSE
      BY <2>1
    <3>2. j <= i + 1 /\ First(s, j) <= i + 1
      BY <2>1, <1>3
    <3>3. InCsi(s, i + 1)
      BY <2>1, <2>3, <2>5, <3>1, <3>2 DEF InCsi
    <3>4. b = [mode |-> "csi", out |-> o]
      BY <2>4, <2>5
    <3> QED
      BY <2>3, <3>3, <3>4 DEF Followed
  <2>6. CASE s[i + 1] # "["
    <3>1. Reach(s, j) = i + 1
      BY <1>3, <2>1, <2>6, ReachIs
    <3>2. InText(s, i + 1)
      BY <2>3, <3>1 DEF InText
    <3>3. b = [mode |-> "text", out |-> o]
      BY <2>4, <2>6
    <3> QED
      BY <2>3, <3>2, <3>3 DEF Followed
  <2> QED
    BY <2>5, <2>6
<1>9. CASE a.mode = "csi"
  <2>1. PICK j \in Starts(s) :
          /\ j <= i /\ First(s, j) <= i /\ s[First(s, j)] = "["
          /\ \A x \in First(s, j) + 1 .. i : s[x] \notin Letters
          /\ Ended(s, i, j)
    BY <1>9 DEF Followed, InCsi
  <2>2. First(s, j) \in Nat /\ i \in First(s, j) .. Len(s) /\ i < Len(s) /\ Reach(s, j) \in Nat
    BY <1>2, <1>3, <2>1, ReachIs, ReachType
  <2>3. IF s[i + 1] \in Letters THEN Reach(s, j) = i + 1 ELSE Reach(s, j) >= i + 1
    BY <1>3, <2>1, <2>2, ReachIs
  <2>4. /\ Uncovered(s, i + 1) = Uncovered(s, i) /\ Ended(s, i + 1, j)
        /\ Reach(s, j) = i + 1 => Ended(s, i + 1, 0)
    <3>1. i + 1 <= Reach(s, j)
      BY <2>2, <2>3
    <3> QED
      BY <2>1, <3>1, CoveredByte
  <2>5. b = [mode |-> IF s[i + 1] \in Letters THEN "text" ELSE "csi", out |-> o]
    BY <1>1, <1>9, StripStepIs
  <2>6. CASE s[i + 1] \in Letters
    <3>1. InText(s, i + 1)
      BY <2>3, <2>4, <2>6 DEF InText
    <3>2. b = [mode |-> "text", out |-> o]
      BY <2>5, <2>6
    <3> QED
      BY <2>4, <3>1, <3>2 DEF Followed
  <2>7. CASE s[i + 1] \notin Letters
    <3>1. \A x \in First(s, j) + 1 .. i + 1 : x \in First(s, j) + 1 .. i \/ x = i + 1
      BY <2>2
    <3>2. j <= i + 1 /\ First(s, j) <= i + 1
      BY <1>3, <2>1, <2>2
    <3>3. InCsi(s, i + 1)
      BY <2>1, <2>4, <2>7, <3>1, <3>2 DEF InCsi
    <3>4. b = [mode |-> "csi", out |-> o]
      BY <2>5, <2>7
    <3> QED
      BY <2>4, <3>3, <3>4 DEF Followed
  <2> QED
    BY <2>6, <2>7
<1> QED
  BY <1>4, <1>5, <1>6, <1>7, <1>8, <1>9 DEF Followed

(* strip_ansi removes the escape sequences of the reference and nothing    *)
(* else, from any text: however sequences follow each other, contain what  *)
(* would begin another, or end with the text.                              *)
THEOREM StripIsReference ==
    \A s \in Seq(Tokens) : Skipped(s) = PlainText(s)
<1> SUFFICES ASSUME NEW s \in Seq(Tokens) PROVE Skipped(s) = PlainText(s)
  OBVIOUS
<1> DEFINE G == {n \in Nat : n <= Len(s) => Followed(s, Scan(s)[n], n)}
<1>1. Scanning(s, Len(s), Scan(s)) /\ Len(s) \in Nat /\ DOMAIN s = 1 .. Len(s)
  BY ScanIs, LenProperties
<1>2. 0 \in G
  <2>1. Uncovered(s, 0) = {}
    BY DEF Uncovered
  <2>2. Pick(s, {}) = <<>>
    <3>1. Cardinality({}) = 0
      BY FS_EmptySet
    <3> QED
      BY <3>1 DEF Pick
  <2>3. Scan(s)[0] = [mode |-> "text", out |-> <<>>]
    BY <1>1 DEF Scanning, ScanStart
  <2>4. \A x \in Starts(s) : ~(x <= 0)
    BY StartsIs
  <2>5. InText(s, 0)
    BY <2>4 DEF InText, Ended
  <2>6. Followed(s, Scan(s)[0], 0)
    <3> DEFINE a == Scan(s)[0]
           o == Pick(s, Uncovered(s, 0))
    <3>0. a = [mode |-> "text", out |-> o]
      BY <2>1, <2>2, <2>3
    <3> HIDE DEF a, o
    <3>3. a.mode = "text" /\ a = [mode |-> a.mode, out |-> o]
      BY <3>0
    <3>1. a.mode = "text" /\ a = [mode |-> a.mode, out |-> Pick(s, Uncovered(s, 0))]
      BY <3>3 DEF o
    <3>2. Followed(s, a, 0)
      BY <2>5, <3>1 DEF Followed
    <3> QED
      BY <3>2 DEF a
  <2> QED
    BY <2>6
<1>3. ASSUME NEW n \in Nat, n \in G PROVE n + 1 \in G
  <2> SUFFICES ASSUME n + 1 <= Len(s) PROVE Followed(s, Scan(s)[n + 1], n + 1)
    BY n + 1 \in Nat
  <2>1. n <= Len(s) /\ n + 1 \in 1 .. Len(s) /\ (n + 1) - 1 = n
    BY <1>1
  <2>2. Followed(s, Scan(s)[n], n)
    BY <1>3, <2>1
  <2>3. Scan(s)[n + 1] = StripStep(s, Scan(s)[n], n + 1)
    BY <1>1, <2>1 DEF Scanning
  <2> QED
    BY <2>2, <2>3, FollowedStep
<1>4. Nat \subseteq G
  BY <1>2, <1>3, SetInduction
<1>5. Followed(s, Scan(s)[Len(s)], Len(s))
  <2>1. Len(s) \in G /\ Len(s) <= Len(s)
    BY <1>1, <1>4
  <2> QED
    BY <2>1
<1>6. Scan(s)[Len(s)].out = Pick(s, Uncovered(s, Len(s)))
  BY <1>5 DEF Followed
<1>7. Uncovered(s, Len(s)) = {i \in DOMAIN s : \A j \in Starts(s) : ~(j <= i /\ i <= Reach(s, j))}
  BY <1>1 DEF Uncovered, Covered
<1> QED
  BY <1>6, <1>7 DEF Skipped, PlainText

-----------------------------------------------------------------------------
(* Fields, words and tags.                                                 *)

(* i is the k-th place of S, or the place before the first one.            *)
IsNth(S, k, i) == i \in S \cup {0} /\ Count(S, i) = k

LEMMA NthZero ==
    ASSUME NEW S, S \subseteq Nat \ {0}
    PROVE  IsNth(S, 0, 0)
<1>1. \A x \in S : ~(x <= 0)
  OBVIOUS
<1> QED
  BY <1>1, CountNone DEF IsNth

LEMMA NthNext ==
    ASSUME NEW S, S \subseteq Nat, NEW k, NEW i \in Nat, NEW j \in S, i < j, IsNth(S, k, i),
           \A x \in S : x <= i \/ j <= x
    PROVE  IsNth(S, k + 1, j)
BY CountNext DEF IsNth

LEMMA NthThere ==
    ASSUME NEW n \in Nat, NEW S \in SUBSET (1 .. n), NEW k \in Nat \ {0}, NEW i, IsNth(S, k, i)
    PROVE  i \in S /\ Nth(S, k) = i /\ k <= Cardinality(S)
<1>1. S \subseteq Nat \ {0}
  OBVIOUS
<1>2. i # 0
  BY <1>1, NthZero DEF IsNth
<1>3. i \in S /\ Count(S, i) = k
  BY <1>2 DEF IsNth
<1>4. S \subseteq Nat
  BY <1>1
<1>5. Nth(S, k) = i
  BY <1>3, <1>4, NthIs
<1>6. k \in 1 .. Cardinality(S)
  BY <1>3, CountAll
<1> QED
  BY <1>3, <1>5, <1>6

(* The k-th space is at i; the spaces so far are counted.                  *)
SpaceAt(s, k, i) == IsNth(Spaces(s), k, i)

LEMMA SpaceNext ==
    ASSUME NEW s \in Seq(Tokens), NEW k, NEW i \in Nat, NEW j \in 1 .. Len(s), i < j, SpaceAt(s, k, i),
           s[j] = "sp", \A x \in i + 1 .. j - 1 : s[x] # "sp"
    PROVE  SpaceAt(s, k + 1, j)
<1>1. DOMAIN s = 1 .. Len(s) /\ Len(s) \in Nat
  BY LenProperties
<1>2. Spaces(s) \subseteq Nat /\ j \in Spaces(s)
  BY <1>1 DEF Spaces
<1>3. ASSUME NEW x \in Spaces(s) PROVE x <= i \/ j <= x
  <2>1. x \in Nat /\ x \notin i + 1 .. j - 1
    BY <1>1 DEF Spaces
  <2> QED
    BY <2>1
<1> QED
  BY <1>2, <1>3, NthNext DEF SpaceAt

(* The space after one more word, and the space after a space.             *)
LEMMA SpaceSkip ==
    ASSUME NEW s \in Seq(Tokens), NEW k \in Nat, NEW i \in Nat, SpaceAt(s, k, i),
           NEW m, m = k + 1, NEW n, n = i + 1, NEW j \in 1 .. Len(s),
           s[j] = "sp", (j = i + 2 /\ s[n] # "sp") \/ j = n
    PROVE  SpaceAt(s, m, j)
<1>1. i < j /\ \A x \in i + 1 .. j - 1 : x = n /\ j = i + 2
  OBVIOUS
<1>2. \A x \in i + 1 .. j - 1 : s[x] # "sp"
  BY <1>1
<1>3. SpaceAt(s, k + 1, j)
  BY <1>1, <1>2, SpaceNext
<1> QED
  BY <1>3

LEMMA SpaceFirst ==
    ASSUME NEW s \in Seq(Tokens)
    PROVE  SpaceAt(s, 0, 0)
<1>1. DOMAIN s = 1 .. Len(s) /\ Len(s) \in Nat
  BY LenProperties
<1>2. Spaces(s) \subseteq Nat \ {0}
  BY <1>1 DEF Spaces
<1> QED
  BY <1>2, NthZero DEF SpaceAt

LEMMA SpaceThere ==
    ASSUME NEW s \in Seq(Tokens), NEW k \in Nat, NEW i, SpaceAt(s, k, i)
    PROVE  Space(s, k) = i /\ Cardinality(Spaces(s)) >= k
<1>1. DOMAIN s = 1 .. Len(s) /\ Len(s) \in Nat
  BY LenProperties
<1>2. Spaces(s) \in SUBSET (1 .. Len(s))
  BY <1>1 DEF Spaces
<1>3. Cardinality(Spaces(s)) \in Nat
  BY <1>1, <1>2, CountAll
<1>4. CASE k = 0
  <2>1. i \in Spaces(s) => Count(Spaces(s), i) \in 1 .. Cardinality(Spaces(s))
    BY <1>1, <1>2, CountAll
  <2>2. i = 0
    BY <1>4, <2>1 DEF SpaceAt, IsNth
  <2> QED
    BY <1>3, <1>4, <2>2 DEF Space
<1>5. CASE k # 0
  <2>1. k \in Nat \ {0}
    BY <1>5
  <2>2. Nth(Spaces(s), k) = i /\ k <= Cardinality(Spaces(s))
    BY <1>1, <1>2, <2>1, NthThere DEF SpaceAt
  <2> QED
    BY <1>3, <1>5, <2>2 DEF Space
<1> QED
  BY <1>4, <1>5

(* A part of a text.                                                       *)
LEMMA PartIs ==
    ASSUME NEW s \in Seq(Tokens), NEW m \in Nat \ {0}, NEW n \in Nat, n <= Len(s), m <= n + 1
    PROVE  /\ SubSeq(s, m, n) \in Seq(Tokens) /\ Len(SubSeq(s, m, n)) = n - m + 1
           /\ \A i \in 1 .. n - m + 1 : SubSeq(s, m, n)[i] = s[m + i - 1]
<1>1. Len(s) \in Nat /\ \A i \in m .. n : s[i] \in Tokens
  BY LenProperties, ElementOfSeq
<1> QED
  BY <1>1

(* The text u is what comes after the first n tokens of s.                 *)
EndsWith(s, n, u) ==
    /\ s \in Seq(Tokens) /\ u \in Seq(Tokens) /\ n \in Nat
    /\ Len(s) = n + Len(u)
    /\ \A i \in 1 .. Len(u) : s[n + i] = u[i]

LEMMA JoinEnds ==
    ASSUME NEW a \in Seq(Tokens), NEW u \in Seq(Tokens)
    PROVE  /\ EndsWith(a \o u, Len(a), u)
           /\ \A i \in 1 .. Len(a) : (a \o u)[i] = a[i]
<1>1. Len(a) \in Nat /\ Len(u) \in Nat
  BY LenProperties
<1>2. a \o u \in Seq(Tokens) /\ Len(a \o u) = Len(a) + Len(u)
      /\ \A i \in 1 .. Len(a) + Len(u) : (a \o u)[i] = IF i <= Len(a) THEN a[i] ELSE u[i - Len(a)]
  BY ConcatProperties
<1>3. \A i \in 1 .. Len(u) : (a \o u)[Len(a) + i] = u[i]
  <2> TAKE i \in 1 .. Len(u)
  <2>1. Len(a) + i \in 1 .. Len(a) + Len(u) /\ ~(Len(a) + i <= Len(a)) /\ (Len(a) + i) - Len(a) = i
    BY <1>1
  <2> QED
    BY <1>2, <2>1
<1>4. \A i \in 1 .. Len(a) : (a \o u)[i] = a[i]
  BY <1>1, <1>2
<1> QED
  BY <1>1, <1>2, <1>3, <1>4 DEF EndsWith

(* What comes after the first k tokens.                                    *)
Rest(s, k) == SubSeq(s, k + 1, Len(s))

LEMMA CutEnds ==
    ASSUME NEW s, NEW n, NEW u, EndsWith(s, n, u), NEW k \in 0 .. n
    PROVE  EndsWith(Rest(s, k), n - k, u) /\ \A i \in 1 .. n - k : Rest(s, k)[i] = s[k + i]
<1> DEFINE r == Rest(s, k)
<1>1. s \in Seq(Tokens) /\ u \in Seq(Tokens) /\ n \in Nat /\ Len(u) \in Nat /\ Len(s) = n + Len(u)
      /\ k \in Nat /\ k <= n
  BY LenProperties DEF EndsWith
<1>2. r \in Seq(Tokens) /\ Len(r) = Len(s) - k /\ \A i \in 1 .. Len(s) - k : r[i] = s[k + i]
  <2> DEFINE m == k + 1
             w == Len(s)
  <2>1. m \in Nat \ {0} /\ w \in Nat /\ w <= Len(s) /\ m <= w + 1 /\ w - m + 1 = Len(s) - k
    BY <1>1
  <2>2. \A i \in 1 .. Len(s) - k : m + i - 1 = k + i
    BY <1>1
  <2>3. r = SubSeq(s, m, w)
    BY DEF Rest
  <2> HIDE DEF r, m, w
  <2>4. /\ r \in Seq(Tokens) /\ Len(r) = w - m + 1
        /\ \A i \in 1 .. w - m + 1 : r[i] = s[m + i - 1]
    BY <1>1, <2>1, <2>3, PartIs
  <2> QED
    BY <2>1, <2>2, <2>4
<1> HIDE DEF r
<1>3. \A i \in 1 .. n - k : r[i] = s[k + i]
  <2> TAKE i \in 1 .. n - k
  <2>1. i \in 1 .. Len(s) - k
    BY <1>1
  <2> QED
    BY <1>2, <2>1
<1>4. \A i \in 1 .. Len(u) : r[(n - k) + i] = u[i]
  <2> TAKE i \in 1 .. Len(u)
  <2>1. (n - k) + i \in 1 .. Len(s) - k /\ k + ((n - k) + i) = n + i
    BY <1>1
  <2> QED
    BY <1>2, <2>1 DEF EndsWith
<1>5. Len(r) = (n - k) + Len(u) /\ n - k \in Nat
  BY <1>1, <1>2
<1>6. EndsWith(r, n - k, u)
  BY <1>1, <1>2, <1>4, <1>5 DEF EndsWith
<1> QED
  BY <1>3, <1>6 DEF r

LEMMA WholeEnds ==
    ASSUME NEW s, NEW u, EndsWith(s, 0, u)
    PROVE  s = u
<1>1. s \in Seq(Tokens) /\ u \in Seq(Tokens) /\ Len(s) = Len(u) /\ Len(u) \in Nat
      /\ \A i \in 1 .. Len(u) : s[i] = u[i]
  BY LenProperties DEF EndsWith
<1> QED
  BY <1>1, SeqEqual

(* What is left when a token is trimmed.                                   *)
LEMMA TrimStartIs ==
    ASSUME NEW s \in Seq(Tokens), NEW t, NEW k \in 1 .. Len(s), s[k] # t,
           \A i \in 1 .. k - 1 : s[i] = t
    PROVE  TrimStart(s, t) = SubSeq(s, k, Len(s))
<1> DEFINE S == {i \in DOMAIN s : s[i] # t}
<1>1. DOMAIN s = 1 .. Len(s) /\ Len(s) \in Nat
  BY LenProperties
<1>2. k \in S \cup {Len(s) + 1} /\ k \in Int
  BY <1>1
<1>3. ASSUME NEW x \in S \cup {Len(s) + 1} PROVE x \in Int /\ k <= x
  <2>1. CASE x \in S
    <3>1. x \in Nat /\ x >= 1 /\ x \notin 1 .. k - 1
      BY <1>1, <2>1
    <3> QED
      BY <3>1
  <2>2. CASE x = Len(s) + 1
    BY <1>1, <2>2
  <2> QED
    BY <2>1, <2>2
<1>4. Min(S \cup {Len(s) + 1}) = k
  <2> HIDE DEF S
  <2> QED
    BY <1>2, <1>3, LeastIs
<1> QED
  BY <1>4 DEF TrimStart, FirstOf

LEMMA TrimEndIs ==
    ASSUME NEW s \in Seq(Tokens), NEW t, NEW k \in 1 .. Len(s), s[k] # t,
           \A i \in k + 1 .. Len(s) : s[i] = t
    PROVE  TrimEnd(s, t) = SubSeq(s, 1, k)
<1> DEFINE S == {i \in DOMAIN s : s[i] # t}
<1>1. DOMAIN s = 1 .. Len(s) /\ Len(s) \in Nat
  BY LenProperties
<1>2. k \in S \cup {0} /\ k \in Int
  BY <1>1
<1>3. ASSUME NEW x \in S \cup {0} PROVE x \in Int /\ x <= k
  <2>1. CASE x \in S
    <3>1. x \in Nat /\ x <= Len(s) /\ x \notin k + 1 .. Len(s)
      BY <1>1, <2>1
    <3> QED
      BY <3>1
  <2>2. CASE x = 0
    BY <1>1, <2>2
  <2> QED
    BY <2>1, <2>2
<1>4. Max(S \cup {0}) = k
  <2> HIDE DEF S
  <2> QED
    BY <1>2, <1>3, GreatestIs
<1> QED
  BY <1>4 DEF TrimEnd

LEMMA FirstOfIs ==
    ASSUME NEW s \in Seq(Tokens), NEW S \in SUBSET (1 .. Len(s)), NEW k \in S,
           \A x \in S : k <= x
    PROVE  FirstOf(s, S) = k
<1>1. Len(s) \in Nat
  BY LenProperties
<1>2. \A x \in S \cup {Len(s) + 1} : x \in Int /\ k <= x
  BY <1>1
<1> QED
  BY <1>2, LeastIs DEF FirstOf

(* The word that starts at i is the k-th.                                  *)
WordAt(s, k, i) == IsNth(WordStarts(s), k, i)

LEMMA WordNext ==
    ASSUME NEW s \in Seq(Tokens), NEW k, NEW i \in Nat, NEW j \in 1 .. Len(s), i < j, WordAt(s, k, i),
           j \in WordStarts(s), \A x \in i + 1 .. j - 1 : x \notin WordStarts(s)
    PROVE  WordAt(s, k + 1, j)
<1>1. DOMAIN s = 1 .. Len(s) /\ Len(s) \in Nat
  BY LenProperties
<1>2. WordStarts(s) \subseteq Nat
  BY <1>1 DEF WordStarts
<1>3. ASSUME NEW x \in WordStarts(s) PROVE x <= i \/ j <= x
  <2>1. x \in Nat /\ x \notin i + 1 .. j - 1
    BY <1>2
  <2> QED
    BY <2>1
<1> QED
  BY <1>2, <1>3, NthNext DEF WordAt

LEMMA WordFirst ==
    ASSUME NEW s \in Seq(Tokens)
    PROVE  WordAt(s, 0, 0)
<1>1. DOMAIN s = 1 .. Len(s) /\ Len(s) \in Nat
  BY LenProperties
<1>2. WordStarts(s) \subseteq Nat \ {0}
  BY <1>1 DEF WordStarts
<1> QED
  BY <1>2, NthZero DEF WordAt

(* A word goes to the next space.                                          *)
LEMMA WordIs ==
    ASSUME NEW s \in Seq(Tokens), NEW k \in Nat \ {0}, NEW i, WordAt(s, k, i),
           NEW e \in 1 .. Len(s), i < e, s[e] = "sp", \A x \in i + 1 .. e - 1 : s[x] # "sp"
    PROVE  Word(s, k) = SubSeq(s, i, e - 1)
<1>1. DOMAIN s = 1 .. Len(s) /\ Len(s) \in Nat
  BY LenProperties
<1>2. WordStarts(s) \in SUBSET (1 .. Len(s))
  BY <1>1 DEF WordStarts
<1>3. i \in WordStarts(s) /\ Nth(WordStarts(s), k) = i /\ k <= Cardinality(WordStarts(s))
      /\ Cardinality(WordStarts(s)) \in Nat
  BY <1>1, <1>2, NthThere, CountAll DEF WordAt
<1> DEFINE S == {x \in Spaces(s) : x > i}
<1>4. S \in SUBSET (1 .. Len(s)) /\ e \in S
  BY <1>1 DEF Spaces
<1>5. ASSUME NEW x \in S PROVE e <= x
  <2>1. x \in Nat /\ x > i /\ i \in Nat /\ x \notin i + 1 .. e - 1
    BY <1>1, <1>2, <1>3 DEF Spaces
  <2> QED
    BY <2>1
<1>6. FirstOf(s, S) = e
  <2> HIDE DEF S
  <2> QED
    BY <1>4, <1>5, FirstOfIs
<1>7. ~(k > Cardinality(WordStarts(s)))
  BY <1>3
<1> QED
  BY <1>3, <1>6, <1>7 DEF Word

(* A part of one token.                                                    *)
LEMMA OneToken ==
    ASSUME NEW s \in Seq(Tokens), NEW i \in 1 .. Len(s)
    PROVE  SubSeq(s, i, i) = <<s[i]>>
<1>1. Len(s) \in Nat /\ s[i] \in Tokens /\ i \in Nat \ {0} /\ i <= Len(s) /\ i <= i + 1 /\ i - i + 1 = 1
      /\ i + 1 - 1 = i
  BY LenProperties, ElementOfSeq
<1> DEFINE r == SubSeq(s, i, i)
<1>2. r \in Seq(Tokens) /\ Len(r) = 1 /\ \A x \in 1 .. 1 : r[x] = s[i + x - 1]
  BY <1>1, PartIs
<1>3. r[1] = s[i]
  BY <1>1, <1>2
<1> HIDE DEF r
<1>4. r = <<s[i]>>
  BY <1>1, <1>2, <1>3
<1> QED
  BY <1>4 DEF r

LEMMA OneTokenField ==
    ASSUME NEW s \in Seq(Tokens), NEW k \in Nat \ {0}, NEW i \in Nat, i + 2 <= Len(s),
           SpaceAt(s, k - 1, i), SpaceAt(s, k, i + 2)
    PROVE  Field(s, k) = <<s[i + 1]>>
<1>1. k - 1 \in Nat /\ k \in Nat /\ i + 1 \in 1 .. Len(s) /\ (i + 2) - 1 = i + 1
  BY LenProperties
<1>2. Space(s, k - 1) = i /\ Space(s, k) = i + 2
  BY <1>1, SpaceThere
<1> QED
  BY <1>1, <1>2, OneToken DEF Field

(* What is logged.                                                         *)
LEMMA TracedIs ==
    ASSUME NEW m \in Traced
    PROVE  /\ m \in Seq(Tokens) /\ Len(m) >= 1 /\ m[1] = "ts"
           /\ \E level \in Levels :
                 \/ m = <<"ts", "sp", level, "sp", "m">>
                 \/ m = <<"ts", "sp", "sp", level, "sp", "m">>
                 \/ m = <<"ts", "esc", "[", "2", "m", "sp", "esc", "[", "3", "m", "sp", level, "sp", "m">>
<1>1. PICK level \in Levels :
        m \in {<<"ts", "sp", level, "sp", "m">>, <<"ts", "sp", "sp", level, "sp", "m">>,
               <<"ts", "esc", "[", "2", "m", "sp", "esc", "[", "3", "m", "sp", level, "sp", "m">>}
  BY DEF Traced
<1>2. level \in Tokens /\ {"ts", "sp", "m", "esc", "[", "2", "3"} \subseteq Tokens
  BY DEF Tokens
<1> HIDE DEF Tokens
<1>3. CASE m = <<"ts", "sp", level, "sp", "m">>
  BY <1>2, <1>3
<1>4. CASE m = <<"ts", "sp", "sp", level, "sp", "m">>
  BY <1>2, <1>4
<1>5. CASE m = <<"ts", "esc", "[", "2", "m", "sp", "esc", "[", "3", "m", "sp", level, "sp", "m">>
  BY <1>2, <1>5
<1> QED
  BY <1>1, <1>3, <1>4, <1>5

LEMMA SentIs ==
    ASSUME NEW x \in Sent
    PROVE  /\ x.format \in {"5424", "3164", "rsyslog", "plain", "journal"}
           /\ x.pri \in Tokens /\ x.pri # ">" /\ x.host \in Tokens /\ x.app \in Tokens
           /\ x.pid \in BOOLEAN /\ x.mark \in BOOLEAN
           /\ x.text \in Seq(Tokens) /\ Len(x.text) \in Nat \ {0} /\ x.text[1] # "sp"
           /\ x.format \in {"5424", "3164"} => x.pri \in Priorities /\ x.text[1] # "bom"
           /\ x.format \in {"3164", "rsyslog"} => x.host = "h" /\ x.app = "a"
           /\ x.format # "journal" => x.comm = "-"
           /\ x.format \in {"rsyslog", "plain"} => x.pri = "none"
           /\ x.format = "5424" => x.host \in {"h", "-"} /\ x.app \in {"a", "-"}
           /\ x.format = "plain" => x.text[1] \notin {"<", "ts"} /\ x.text \in Messages
           /\ x.text \in Messages \cup {<<"m">>} \cup Traced
<1>1. /\ x.format \in {"5424", "3164", "rsyslog", "plain", "journal"}
      /\ x.pri \in Priorities \cup {"none"} /\ x.host \in {"h", "-", "none"} /\ x.app \in {"a", "-", "none"}
      /\ x.pid \in BOOLEAN /\ x.mark \in BOOLEAN
      /\ x.format \in {"5424", "3164"} => x.pri \in Priorities
      /\ x.format \in {"3164", "rsyslog"} => x.host = "h" /\ x.app = "a"
      /\ x.format # "journal" => x.comm = "-"
      /\ x.format \in {"rsyslog", "plain"} => x.pri = "none"
      /\ x.format = "5424" => x.host \in {"h", "-"} /\ x.app \in {"a", "-"}
      /\ x.format = "plain" => x.text \in Messages
      /\ x.text \in Messages \cup {<<"m">>} \cup Traced
      /\ Loggable(x)
  BY DEF Sent, Priorities
<1>2. x.text \in Seq(Tokens) /\ Len(x.text) \in Nat \ {0}
  <2>1. CASE x.text \in Messages
    <3>1. x.text \in Seq(STRING) /\ x.text # <<>>
      BY <2>1, LogLineAssumption
    <3>2. Len(x.text) \in Nat /\ \A i \in 1 .. Len(x.text) : x.text[i] \in Tokens
      BY <3>1, LenProperties, ElementOfSeq DEF Tokens
    <3>3. x.text = [i \in 1 .. Len(x.text) |-> x.text[i]]
      BY <3>1, LenProperties
    <3>4. x.text \in Seq(Tokens)
      BY <3>2, <3>3
    <3> QED
      BY <3>1, <3>2, <3>4, EmptySeq
  <2>2. CASE x.text = <<"m">>
    <3>1. "m" \in Tokens
      BY DEF Tokens
    <3> QED
      BY <2>2, <3>1
  <2>3. CASE x.text \in Traced
    BY <2>3, TracedIs, LenProperties
  <2> QED
    BY <1>1, <2>1, <2>2, <2>3
<1> QED
  BY <1>1, <1>2 DEF Loggable, Priorities, Tokens

-----------------------------------------------------------------------------
(* The formats.                                                            *)

(* What is left when everything before u is trimmed.                       *)
LEMMA TrimEnds ==
    ASSUME NEW s, NEW n, NEW u, EndsWith(s, n, u), NEW t,
           \A i \in 1 .. n : s[i] = t, Len(u) \in Nat \ {0}, u[1] # t
    PROVE  TrimStart(s, t) = u
<1>1. s \in Seq(Tokens) /\ n \in Nat /\ Len(s) = n + Len(u) /\ 1 \in 1 .. Len(u)
  BY DEF EndsWith
<1>2. s[n + 1] = u[1]
  BY <1>1 DEF EndsWith
<1>3. n + 1 \in 1 .. Len(s) /\ (n + 1) - 1 = n
  BY <1>1
<1>4. TrimStart(s, t) = Rest(s, n)
  BY <1>1, <1>2, <1>3, TrimStartIs DEF Rest
<1>5. n \in 0 .. n /\ n - n = 0
  BY <1>1
<1>6. EndsWith(Rest(s, n), 0, u)
  BY <1>5, CutEnds
<1> QED
  BY <1>4, <1>6, WholeEnds

LEMMA TailIs ==
    ASSUME NEW s \in Seq(Tokens), s # <<>>
    PROVE  Tail(s) = Rest(s, 1)
<1>1. Len(s) \in Nat \ {0}
  BY LenProperties, EmptySeq
<1>2. Tail(s) \in Seq(Tokens) /\ Len(Tail(s)) = Len(s) - 1
      /\ \A i \in 1 .. Len(s) - 1 : Tail(s)[i] = s[i + 1]
  BY HeadTailProperties
<1>3. 1 + 1 = 2 /\ 2 \in Nat \ {0} /\ Len(s) \in Nat /\ 2 <= Len(s) + 1 /\ Len(s) - 2 + 1 = Len(s) - 1
      /\ Len(s) <= Len(s) /\ \A i \in 1 .. Len(s) - 1 : 2 + i - 1 = i + 1
  BY <1>1
<1>4. Rest(s, 1) \in Seq(Tokens) /\ Len(Rest(s, 1)) = Len(s) - 1
      /\ \A i \in 1 .. Len(s) - 1 : Rest(s, 1)[i] = s[2 + i - 1]
  BY <1>3, PartIs DEF Rest
<1> QED
  BY <1>2, <1>3, <1>4, SeqEqual

(* A line with a PRI of one token.                                         *)
LEMMA PriIs ==
    ASSUME line \in Seq(Tokens), Len(line) >= 3, line[1] = "<", line[2] # ">", line[3] = ">"
    PROVE  HasPri /\ Pri = line[2] /\ AfterPri = Rest(line, 3)
<1>1. DOMAIN line = 1 .. Len(line) /\ Len(line) \in Nat
  BY LenProperties
<1> DEFINE S == {i \in DOMAIN line : line[i] = ">"}
<1>2. 3 \in S
  BY <1>1
<1>3. HasPri
  BY <1>2 DEF HasPri, Range
<1>4. ASSUME NEW x \in S PROVE x \in Int /\ 3 <= x
  <2>1. x \in Nat /\ x >= 1 /\ x # 1 /\ x # 2
    BY <1>1
  <2> QED
    BY <2>1
<1>5. PriEnd = 3
  <2>1. Min(S) = 3
    <3> HIDE DEF S
    <3> QED
      BY <1>2, <1>4, LeastIs
  <2> QED
    BY <2>1 DEF PriEnd
<1> QED
  BY <1>3, <1>5 DEF Pri, AfterPri, Rest

(* A line without a PRI.                                                   *)
LEMMA NoPri ==
    ASSUME line[1] # "<"
    PROVE  ~HasPri
BY DEF HasPri

LEMMA Line5424 ==
    ASSUME NEW x \in Sent, x.format = "5424", line = Written(x)
    PROVE  LET rest == TrimStart(Tail(AfterPri), "sp")
           IN  /\ HasPri /\ Pri = x.pri
               /\ AfterPri # <<>> /\ AfterPri[1] = "1" /\ Cardinality(Spaces(rest)) >= 6
               /\ TrimStart(After(rest, 6), "bom") = x.text
               /\ Field(rest, 2) = <<x.host>> /\ Field(rest, 3) = <<x.app>>
               /\ Field(rest, 4) = <<IF x.pid THEN "7" ELSE "-">>
<1> DEFINE p == IF x.pid THEN "7" ELSE "-"
           T == <<"<", x.pri, ">", "1", "sp", "ts", "sp", x.host, "sp", x.app, "sp",
                  p, "sp", "-", "sp", "-", "sp">>
           M == IF x.mark THEN <<"bom">> ELSE <<>>
           n == 17 + Len(M)
           u == x.text
<1>1. x.pri \in Tokens /\ x.pri # ">" /\ x.host \in Tokens /\ x.app \in Tokens /\ x.host # "sp" /\ x.app # "sp"
      /\ u \in Seq(Tokens) /\ Len(u) \in Nat \ {0} /\ u[1] # "bom"
  BY SentIs
<1>2. p \in Tokens /\ {"<", ">", "1", "sp", "ts", "-", "bom"} \subseteq Tokens /\ p # "sp"
  BY DEF Tokens
<1> HIDE DEF p
<1>3. M \in Seq(Tokens) /\ Len(M) \in {0, 1} /\ (Len(M) = 1 => M[1] = "bom")
  BY <1>2
<1>4. line = (T \o M) \o u
  BY DEF Written, p
<1>5. T \in Seq(Tokens) /\ Len(T) = 17
  BY <1>1, <1>2
<1>6. /\ T[1] = "<" /\ T[2] = x.pri /\ T[3] = ">" /\ T[4] = "1" /\ T[5] = "sp" /\ T[6] = "ts" /\ T[7] = "sp"
      /\ T[8] = x.host /\ T[9] = "sp" /\ T[10] = x.app /\ T[11] = "sp" /\ T[12] = p /\ T[13] = "sp"
      /\ T[14] = "-" /\ T[15] = "sp" /\ T[16] = "-" /\ T[17] = "sp"
  OBVIOUS
<1> HIDE DEF T, M, u
<1>7. EndsWith(T \o M, 17, M) /\ \A i \in 1 .. 17 : (T \o M)[i] = T[i]
  BY <1>3, <1>5, JoinEnds
<1>8. T \o M \in Seq(Tokens) /\ Len(T \o M) = n /\ n \in {17, 18}
  <2>1. T \o M \in Seq(Tokens) /\ Len(T \o M) = 17 + Len(M)
    BY <1>7 DEF EndsWith
  <2>2. n \in {17, 18}
    <3>1. CASE Len(M) = 0
      BY <3>1
    <3>2. CASE Len(M) = 1
      BY <3>2
    <3> QED
      BY <1>3, <3>1, <3>2
  <2> QED
    BY <2>1, <2>2
<1>9. EndsWith(line, n, u) /\ \A i \in 1 .. n : line[i] = (T \o M)[i]
  <2> DEFINE a == T \o M
  <2>1. a \in Seq(Tokens) /\ Len(a) = n /\ line = a \o u
    BY <1>4, <1>8
  <2> HIDE DEF a, n
  <2>2. EndsWith(line, n, u) /\ \A i \in 1 .. n : line[i] = a[i]
    BY <1>1, <2>1, JoinEnds
  <2> QED
    BY <2>2 DEF a
<1>10. \A i \in 1 .. 17 : line[i] = T[i]
  <2> TAKE i \in 1 .. 17
  <2>1. i \in 1 .. n
    BY <1>8
  <2> QED
    BY <1>7, <1>9, <2>1
<1>11. n = 18 => line[18] = "bom"
  <2> SUFFICES ASSUME n = 18 PROVE line[18] = "bom"
    OBVIOUS
  <2>1. Len(M) = 1 /\ 1 \in 1 .. Len(M) /\ 17 + 1 = 18 /\ 18 \in 1 .. n
    BY <1>3
  <2>2. (T \o M)[18] = M[1]
    BY <1>7, <2>1 DEF EndsWith
  <2> QED
    BY <1>3, <1>9, <2>1, <2>2
<1>12. line \in Seq(Tokens) /\ Len(line) = n + Len(u) /\ Len(line) >= 18
  BY <1>1, <1>8, <1>9 DEF EndsWith
<1>13. HasPri /\ Pri = x.pri /\ AfterPri = Rest(line, 3)
  <2>1. line[1] = "<" /\ line[2] = x.pri /\ line[3] = ">"
    BY <1>6, <1>10
  <2> QED
    BY <1>1, <1>12, <2>1, PriIs
<1> HIDE DEF n
<1>14. /\ EndsWith(AfterPri, n - 3, u) /\ \A i \in 1 .. n - 3 : AfterPri[i] = line[3 + i]
  <2>1. 3 \in 0 .. n
    BY <1>8
  <2> QED
    BY <1>9, <1>13, <2>1, CutEnds
<1> DEFINE a == AfterPri
           b == Rest(a, 1)
           rest == Rest(b, 1)
           body == Rest(rest, 12)
<1> HIDE DEF a
<1>15. EndsWith(a, n - 3, u) /\ (\A i \in 1 .. n - 3 : a[i] = line[3 + i]) /\ a \in Seq(Tokens) /\ a # <<>>
       /\ a[1] = "1" /\ Len(a) = (n - 3) + Len(u)
  <2>1. EndsWith(a, n - 3, u) /\ (\A i \in 1 .. n - 3 : a[i] = line[3 + i]) /\ 1 \in 1 .. n - 3 /\ 3 + 1 = 4
    BY <1>8, <1>14 DEF a
  <2>2. a \in Seq(Tokens) /\ Len(a) = (n - 3) + Len(u)
    BY <2>1 DEF EndsWith
  <2>3. Len(a) # 0
    BY <2>2, <1>8, <1>1
  <2>4. a[1] = "1"
    BY <2>1, <1>6, <1>10
  <2> QED
    BY <2>1, <2>2, <2>3, <2>4
<1>16. EndsWith(b, n - 4, u) /\ \A i \in 1 .. n - 4 : b[i] = line[4 + i]
  <2>1. 1 \in 0 .. n - 3 /\ (n - 3) - 1 = n - 4 /\ \A i \in 1 .. n - 4 : 1 + i \in 1 .. n - 3 /\ 3 + (1 + i) = 4 + i
    BY <1>8
  <2>2. EndsWith(b, (n - 3) - 1, u) /\ \A i \in 1 .. (n - 3) - 1 : b[i] = a[1 + i]
    BY <1>15, <2>1, CutEnds
  <2> QED
    BY <1>15, <2>1, <2>2
<1> HIDE DEF b
<1>17. EndsWith(rest, n - 5, u) /\ \A i \in 1 .. n - 5 : rest[i] = line[5 + i]
  <2>1. 1 \in 0 .. n - 4 /\ (n - 4) - 1 = n - 5 /\ \A i \in 1 .. n - 5 : 1 + i \in 1 .. n - 4 /\ 4 + (1 + i) = 5 + i
    BY <1>8
  <2>2. EndsWith(rest, (n - 4) - 1, u) /\ \A i \in 1 .. (n - 4) - 1 : rest[i] = b[1 + i]
    BY <1>16, <2>1, CutEnds
  <2> QED
    BY <1>16, <2>1, <2>2
<1>18. TrimStart(Tail(a), "sp") = rest
  <2>1. Tail(a) = b
    BY <1>15, TailIs DEF b
  <2>2. b \in Seq(Tokens) /\ Len(b) = (n - 4) + Len(u)
    BY <1>16 DEF EndsWith
  <2>3. 2 \in 1 .. Len(b) /\ 2 - 1 = 1 /\ 1 \in 1 .. n - 4 /\ 2 \in 1 .. n - 4 /\ 4 + 1 = 5 /\ 4 + 2 = 6 /\ 1 + 1 = 2
    BY <1>1, <1>8, <2>2
  <2>4. b[1] = "sp" /\ b[2] = "ts"
    BY <1>6, <1>10, <1>16, <2>3
  <2>5. \A i \in 1 .. 2 - 1 : b[i] = "sp"
    BY <2>4
  <2>6. TrimStart(b, "sp") = SubSeq(b, 2, Len(b))
    BY <2>2, <2>3, <2>4, <2>5, TrimStartIs
  <2> QED
    BY <2>1, <2>3, <2>6 DEF Rest
<1> HIDE DEF rest
<1>19. rest \in Seq(Tokens) /\ Len(rest) = (n - 5) + Len(u) /\ Len(rest) >= 13
  BY <1>1, <1>8, <1>17 DEF EndsWith
<1>20. /\ rest[1] = "ts" /\ rest[2] = "sp" /\ rest[3] = x.host /\ rest[4] = "sp" /\ rest[5] = x.app
       /\ rest[6] = "sp" /\ rest[7] = p /\ rest[8] = "sp" /\ rest[9] = "-" /\ rest[10] = "sp"
       /\ rest[11] = "-" /\ rest[12] = "sp"
  <2>1. \A i \in 1 .. 12 : rest[i] = T[5 + i]
    <3> TAKE i \in 1 .. 12
    <3>1. i \in 1 .. n - 5 /\ 5 + i \in 1 .. 17
      BY <1>8
    <3> QED
      BY <3>1, <1>10, <1>17
  <2> QED
    BY <2>1, <1>6
<1>21. SpaceAt(rest, 0, 0)
  BY <1>19, SpaceFirst
<1>22. /\ SpaceAt(rest, 1, 2) /\ SpaceAt(rest, 2, 4) /\ SpaceAt(rest, 3, 6)
       /\ SpaceAt(rest, 4, 8) /\ SpaceAt(rest, 5, 10) /\ SpaceAt(rest, 6, 12)
  <2>1. \A i \in 1 .. 12 : i \in 1 .. Len(rest)
    BY <1>19
  <2>2. SpaceAt(rest, 1, 2)
    BY <1>19, <1>20, <1>21, SpaceSkip
  <2>3. SpaceAt(rest, 2, 4)
    <3>1. rest \in Seq(Tokens) /\ 4 \in 1 .. Len(rest)
      BY <1>19
    <3>2. rest[3] # "sp" /\ rest[4] = "sp"
      BY <1>1, <1>20
    <3> QED
      BY <2>2, <3>1, <3>2, SpaceSkip
  <2>4. SpaceAt(rest, 3, 6)
    <3>1. rest \in Seq(Tokens) /\ 6 \in 1 .. Len(rest)
      BY <1>19
    <3>2. rest[5] # "sp" /\ rest[6] = "sp"
      BY <1>1, <1>20
    <3> QED
      BY <2>3, <3>1, <3>2, SpaceSkip
  <2>5. SpaceAt(rest, 4, 8)
    <3>1. rest \in Seq(Tokens) /\ 8 \in 1 .. Len(rest)
      BY <1>19
    <3>2. rest[7] # "sp" /\ rest[8] = "sp"
      BY <1>2, <1>20
    <3> QED
      BY <2>4, <3>1, <3>2, SpaceSkip
  <2>6. SpaceAt(rest, 5, 10)
    <3>1. rest \in Seq(Tokens) /\ 10 \in 1 .. Len(rest)
      BY <1>19
    <3>2. rest[9] # "sp" /\ rest[10] = "sp"
      BY <1>20
    <3> QED
      BY <2>5, <3>1, <3>2, SpaceSkip
  <2>7. SpaceAt(rest, 6, 12)
    <3>1. rest \in Seq(Tokens) /\ 12 \in 1 .. Len(rest)
      BY <1>19
    <3>2. rest[11] # "sp" /\ rest[12] = "sp"
      BY <1>20
    <3>3. 12 = 10 + 2 /\ 11 = 10 + 1 /\ 6 = 5 + 1 /\ 5 \in Nat /\ 10 \in Nat
      OBVIOUS
    <3> QED
      BY <2>6, <3>1, <3>2, <3>3, SpaceSkip
  <2> QED
    BY <2>2, <2>3, <2>4, <2>5, <2>6, <2>7
<1>23. Space(rest, 6) = 12 /\ Cardinality(Spaces(rest)) >= 6
  BY <1>19, <1>22, SpaceThere
<1>24. Field(rest, 2) = <<x.host>>
  <2>1. 2 - 1 = 1 /\ 2 + 2 = 4 /\ 2 + 1 = 3
    OBVIOUS
  <2> QED
    BY <1>19, <1>20, <1>22, <2>1, OneTokenField
<1>25. Field(rest, 3) = <<x.app>>
  <2>1. 3 - 1 = 2 /\ 4 + 2 = 6 /\ 4 + 1 = 5
    OBVIOUS
  <2> QED
    BY <1>19, <1>20, <1>22, <2>1, OneTokenField
<1>26. Field(rest, 4) = <<p>>
  <2>1. 4 - 1 = 3 /\ 6 + 2 = 8 /\ 6 + 1 = 7
    OBVIOUS
  <2> QED
    BY <1>19, <1>20, <1>22, <2>1, OneTokenField
<1>27. After(rest, 6) = body
  BY <1>23 DEF After, Rest
<1>28. TrimStart(body, "bom") = u
  <2>1. 12 \in 0 .. n - 5 /\ (n - 5) - 12 = n - 17
    BY <1>8
  <2>2. EndsWith(body, n - 17, u) /\ \A i \in 1 .. n - 17 : body[i] = rest[12 + i]
    <3>1. EndsWith(body, (n - 5) - 12, u) /\ \A i \in 1 .. (n - 5) - 12 : body[i] = rest[12 + i]
      BY <1>17, <2>1, CutEnds
    <3> QED
      BY <2>1, <3>1
  <2>3. ASSUME NEW i \in 1 .. n - 17 PROVE body[i] = "bom"
    <3>1. i = 1 /\ n = 18 /\ 13 \in 1 .. n - 5 /\ 12 + 1 = 13 /\ 5 + 13 = 18
      BY <1>8
    <3>2. body[1] = rest[13] /\ rest[13] = line[18]
      BY <1>17, <2>2, <3>1
    <3> QED
      BY <1>11, <3>1, <3>2
  <2> HIDE DEF body
  <2> QED
    BY <1>1, <2>2, <2>3, TrimEnds
<1> QED
  BY <1>13, <1>15, <1>18, <1>23, <1>24, <1>25, <1>26, <1>27, <1>28 DEF a, p, u

(* A tag, with what parse_tag makes of it.                                 *)
LEMMA TagIs ==
    ASSUME NEW x \in Sent, x.app = "a"
    PROVE  /\ TagOf(x) \in Seq(Tokens) /\ Len(TagOf(x)) \in {2, 5}
           /\ \A i \in 1 .. Len(TagOf(x)) : TagOf(x)[i] # "sp"
           /\ \A i \in 1 .. Len(TagOf(x)) - 1 : TagOf(x)[i] # ":"
           /\ TagOf(x)[Len(TagOf(x))] = ":"
           /\ TagName(TagOf(x)) = <<"a">>
           /\ TagPid(TagOf(x)) = IF x.pid THEN <<"7">> ELSE Absent
<1>1. {"a", "[", "7", "]", ":"} \subseteq Tokens
  BY DEF Tokens
<1> DEFINE G == TagOf(x)
<1>2. CASE ~x.pid
  <2>1. G = <<"a", ":">>
    BY <1>2 DEF TagOf
  <2> HIDE DEF G
  <2>2. G \in Seq(Tokens) /\ Len(G) = 2 /\ G[1] = "a" /\ G[2] = ":"
    BY <1>1, <2>1
  <2> DEFINE r == TrimEnd(G, ":")
  <2>3. r = <<"a">>
    <3>0. 1 \in 1 .. Len(G) /\ G[1] # ":" /\ \A i \in 1 + 1 .. Len(G) : G[i] = ":"
      BY <2>2
    <3>1. r = SubSeq(G, 1, 1)
      BY <2>2, <3>0, TrimEndIs
    <3> QED
      BY <2>2, <3>1, OneToken
  <2> HIDE DEF r
  <2>4. Bracket(r) = 2
    <3>1. {i \in DOMAIN r : r[i] = "["} \cup {Len(r) + 1} = {2}
      BY <2>3
    <3>2. Min({2}) = 2
      BY LeastIs
    <3> QED
      BY <3>1, <3>2 DEF Bracket, FirstOf
  <2>5. TagName(G) = <<"a">>
    <3>1. TagName(G) = SubSeq(r, 1, 2 - 1)
      BY <2>4 DEF TagName, r
    <3>2. r \in Seq(Tokens) /\ 1 \in 1 .. Len(r) /\ r[1] = "a" /\ 2 - 1 = 1
      BY <1>1, <2>3
    <3> QED
      BY <3>1, <3>2, OneToken
  <2>6. TagPid(G) = Absent
    <3>1. TagPid(G) = TrimEnd(SubSeq(r, 2 + 1, Len(r)), "]")
      BY <2>4 DEF TagPid, r
    <3>2. SubSeq(r, 2 + 1, Len(r)) = <<>>
      BY <1>1, <2>3
    <3>3. {i \in DOMAIN <<>> : <<>>[i] # "]"} \cup {0} = {0}
      OBVIOUS
    <3>4. Max({0}) = 0
      BY GreatestIs
    <3>5. TrimEnd(<<>>, "]") = SubSeq(<<>>, 1, 0)
      BY <3>3, <3>4 DEF TrimEnd
    <3>6. SubSeq(<<>>, 1, 0) = <<>>
      OBVIOUS
    <3>7. TagPid(G) = TrimEnd(<<>>, "]")
      BY <3>1, <3>2
    <3> QED
      BY <3>5, <3>6, <3>7 DEF Absent
  <2> QED
    BY <1>2, <2>2, <2>5, <2>6 DEF G
<1>3. CASE x.pid
  <2>1. G = <<"a", "[", "7", "]", ":">>
    BY <1>3 DEF TagOf
  <2> HIDE DEF G
  <2>2. G \in Seq(Tokens) /\ Len(G) = 5 /\ G[1] = "a" /\ G[2] = "[" /\ G[3] = "7" /\ G[4] = "]" /\ G[5] = ":"
    BY <1>1, <2>1
  <2> DEFINE r == TrimEnd(G, ":")
  <2>3. r \in Seq(Tokens) /\ Len(r) = 4 /\ r[1] = "a" /\ r[2] = "[" /\ r[3] = "7" /\ r[4] = "]"
    <3>0. 4 \in 1 .. Len(G) /\ G[4] # ":" /\ \A i \in 4 + 1 .. Len(G) : G[i] = ":"
      BY <2>2
    <3>1. r = SubSeq(G, 1, 4)
      BY <2>2, <3>0, TrimEndIs
    <3>2. SubSeq(G, 1, 4) \in Seq(Tokens) /\ Len(SubSeq(G, 1, 4)) = 4 - 1 + 1
          /\ \A i \in 1 .. 4 - 1 + 1 : SubSeq(G, 1, 4)[i] = G[1 + i - 1]
      <4>1. 1 \in Nat \ {0} /\ 4 \in Nat /\ 4 <= Len(G) /\ 1 <= 4 + 1
        BY <2>2
      <4> QED
        BY <2>2, <4>1, PartIs
    <3> HIDE DEF r
    <3> QED
      BY <2>2, <3>1, <3>2
  <2> HIDE DEF r
  <2>4. Bracket(r) = 2
    <3> DEFINE S == {i \in DOMAIN r : r[i] = "["}
    <3>1. DOMAIN r = 1 .. 4
      BY <2>3, LenProperties
    <3>2. S \in SUBSET (1 .. Len(r)) /\ 2 \in S
      BY <2>3, <3>1
    <3>3. ASSUME NEW i \in S PROVE 2 <= i
      <4>1. i \in 1 .. 4 /\ i # 1
        BY <2>3, <3>1
      <4> QED
        BY <4>1
    <3>4. FirstOf(r, S) = 2
      <4> HIDE DEF S
      <4> QED
        BY <2>3, <3>2, <3>3, FirstOfIs
    <3> QED
      BY <3>4 DEF Bracket
  <2>5. TagName(G) = <<"a">>
    <3>1. TagName(G) = SubSeq(r, 1, 2 - 1)
      BY <2>4 DEF TagName, r
    <3>2. 1 \in 1 .. Len(r) /\ 2 - 1 = 1
      BY <2>3
    <3> QED
      BY <2>3, <3>1, <3>2, OneToken
  <2>6. TagPid(G) = <<"7">>
    <3> DEFINE q == SubSeq(r, 3, 4)
    <3>1. TagPid(G) = TrimEnd(q, "]")
      <4>1. 2 + 1 = 3 /\ Len(r) = 4
        BY <2>3
      <4> QED
        BY <2>4, <4>1 DEF TagPid, r
    <3>2. q \in Seq(Tokens) /\ Len(q) = 2 /\ q[1] = "7" /\ q[2] = "]"
      <4>1. q \in Seq(Tokens) /\ Len(q) = 4 - 3 + 1 /\ \A i \in 1 .. 4 - 3 + 1 : q[i] = r[3 + i - 1]
        <5>1. 3 \in Nat \ {0} /\ 4 \in Nat /\ 4 <= Len(r) /\ 3 <= 4 + 1
          BY <2>3
        <5> QED
          BY <2>3, <5>1, PartIs
      <4> HIDE DEF q
      <4> QED
        BY <2>3, <4>1
    <3> HIDE DEF q
    <3>0. 1 \in 1 .. Len(q) /\ q[1] # "]" /\ \A i \in 1 + 1 .. Len(q) : q[i] = "]"
      BY <3>2
    <3>3. TrimEnd(q, "]") = SubSeq(q, 1, 1)
      BY <3>2, <3>0, TrimEndIs
    <3> QED
      BY <3>1, <3>2, <3>3, OneToken
  <2> QED
    BY <1>3, <2>2, <2>5, <2>6 DEF G
<1> QED
  BY <1>2, <1>3, SentIs

(* A head, a tag and a space before the message.                           *)
Tagged(a, g, u) == a \o g \o <<"sp">> \o u

LEMMA TaggedIs ==
    ASSUME NEW a \in Seq(Tokens), NEW g \in Seq(Tokens), NEW u \in Seq(Tokens)
    PROVE  /\ EndsWith(Tagged(a, g, u), Len(a) + Len(g) + 1, u)
           /\ \A i \in 1 .. Len(a) : Tagged(a, g, u)[i] = a[i]
           /\ \A i \in 1 .. Len(g) : Tagged(a, g, u)[Len(a) + i] = g[i]
           /\ Tagged(a, g, u)[Len(a) + Len(g) + 1] = "sp"
<1> DEFINE b == a \o g
           c == b \o <<"sp">>
           s == Tagged(a, g, u)
<1>1. Len(a) \in Nat /\ Len(g) \in Nat /\ <<"sp">> \in Seq(Tokens) /\ Len(<<"sp">>) = 1 /\ <<"sp">>[1] = "sp"
  <2>1. "sp" \in Tokens
    BY DEF Tokens
  <2> QED
    BY <2>1, LenProperties
<1>2. EndsWith(b, Len(a), g) /\ \A i \in 1 .. Len(a) : b[i] = a[i]
  BY JoinEnds
<1>3. b \in Seq(Tokens) /\ Len(b) = Len(a) + Len(g)
  BY <1>2 DEF EndsWith
<1> HIDE DEF b
<1>4. EndsWith(c, Len(b), <<"sp">>) /\ \A i \in 1 .. Len(b) : c[i] = b[i]
  BY <1>1, <1>3, JoinEnds
<1>5. c \in Seq(Tokens) /\ Len(c) = Len(b) + 1 /\ c[Len(b) + 1] = "sp"
  BY <1>1, <1>4 DEF EndsWith
<1>6. s = c \o u
  BY DEF b, Tagged
<1> HIDE DEF c, s
<1>7. EndsWith(s, Len(c), u) /\ \A i \in 1 .. Len(c) : s[i] = c[i]
  <2>1. c \in Seq(Tokens)
    BY <1>5
  <2>2. EndsWith(c \o u, Len(c), u) /\ \A i \in 1 .. Len(c) : (c \o u)[i] = c[i]
    BY <2>1, JoinEnds
  <2> QED
    BY <1>6, <2>2
<1>8. Len(c) = Len(a) + Len(g) + 1
  BY <1>1, <1>3, <1>5
<1>9. \A i \in 1 .. Len(a) : s[i] = a[i]
  <2> TAKE i \in 1 .. Len(a)
  <2>1. i \in 1 .. Len(b) /\ i \in 1 .. Len(c)
    BY <1>1, <1>3, <1>8
  <2> QED
    BY <2>1, <1>2, <1>4, <1>7
<1>10. \A i \in 1 .. Len(g) : s[Len(a) + i] = g[i]
  <2> TAKE i \in 1 .. Len(g)
  <2>1. Len(a) + i \in 1 .. Len(b) /\ Len(a) + i \in 1 .. Len(c)
    BY <1>1, <1>3, <1>8
  <2>2. b[Len(a) + i] = g[i]
    BY <1>2 DEF EndsWith
  <2> QED
    BY <2>1, <2>2, <1>4, <1>7
<1>11. s[Len(a) + Len(g) + 1] = "sp"
  <2>1. Len(c) \in 1 .. Len(c) /\ Len(c) = Len(b) + 1
    BY <1>1, <1>3, <1>5
  <2> QED
    BY <2>1, <1>5, <1>7, <1>8
<1> QED
  BY <1>7, <1>8, <1>9, <1>10, <1>11 DEF s

(* A part that is known.                                                   *)
LEMMA PartEquals ==
    ASSUME NEW s \in Seq(Tokens), NEW g \in Seq(Tokens), NEW k \in Nat, k + Len(g) <= Len(s),
           \A i \in 1 .. Len(g) : s[k + i] = g[i], NEW m, m = k + 1, NEW n, n = k + Len(g)
    PROVE  SubSeq(s, m, n) = g
<1> DEFINE r == SubSeq(s, m, n)
<1>1. Len(g) \in Nat /\ Len(s) \in Nat /\ m \in Nat \ {0} /\ n \in Nat /\ n <= Len(s) /\ m <= n + 1
      /\ n - m + 1 = Len(g) /\ \A i \in 1 .. Len(g) : m + i - 1 = k + i
  BY LenProperties
<1>2. r \in Seq(Tokens) /\ Len(r) = Len(g) /\ \A i \in 1 .. Len(g) : r[i] = s[m + i - 1]
  BY <1>1, PartIs
<1> HIDE DEF r
<1>3. r = g
  <2>1. \A i \in 1 .. Len(g) : r[i] = g[i]
    BY <1>1, <1>2
  <2>2. r \in Seq(Tokens) /\ g \in Seq(Tokens) /\ Len(r) = Len(g)
    BY <1>2
  <2> QED
    BY <2>1, <2>2, SeqEqual
<1> QED
  BY <1>3 DEF r

LEMMA LineRsyslog ==
    ASSUME NEW x \in Sent, x.format = "rsyslog", line = Written(x)
    PROVE  /\ line[1] # "<"
           /\ Field(line, 1) = <<"ts">> /\ Field(line, 2) = <<x.host>> /\ Field(line, 3) = TagOf(x)
           /\ TrimStart(After(line, 3), "sp") = x.text
<1> DEFINE A == <<"ts", "sp", x.host, "sp">>
           G == TagOf(x)
           g == Len(G)
           u == x.text
<1>1. /\ x.host \in Tokens /\ x.host # "sp" /\ x.app = "a"
      /\ u \in Seq(Tokens) /\ Len(u) \in Nat \ {0} /\ u[1] # "sp"
  BY SentIs
<1>2. G \in Seq(Tokens) /\ g \in {2, 5} /\ \A i \in 1 .. g : G[i] # "sp"
  BY <1>1, TagIs
<1>3. A \in Seq(Tokens) /\ Len(A) = 4 /\ A[1] = "ts" /\ A[2] = "sp" /\ A[3] = x.host /\ A[4] = "sp"
  <2>1. "ts" \in Tokens /\ "sp" \in Tokens
    BY DEF Tokens
  <2> QED
    BY <1>1, <2>1
<1>4. line = Tagged(A, G, u)
  BY DEF Written, Tagged
<1> HIDE DEF A, G, u
<1>5. /\ EndsWith(line, 4 + g + 1, u) /\ \A i \in 1 .. 4 : line[i] = A[i]
      /\ \A i \in 1 .. g : line[4 + i] = G[i]
      /\ line[4 + g + 1] = "sp"
  <2>1. /\ EndsWith(line, Len(A) + Len(G) + 1, u) /\ \A i \in 1 .. Len(A) : line[i] = A[i]
        /\ \A i \in 1 .. Len(G) : line[Len(A) + i] = G[i]
        /\ line[Len(A) + Len(G) + 1] = "sp"
    <3>1. A \in Seq(Tokens) /\ G \in Seq(Tokens) /\ u \in Seq(Tokens)
      BY <1>1, <1>2, <1>3
    <3> DEFINE s == Tagged(A, G, u)
    <3>2. /\ EndsWith(s, Len(A) + Len(G) + 1, u) /\ \A i \in 1 .. Len(A) : s[i] = A[i]
          /\ \A i \in 1 .. Len(G) : s[Len(A) + i] = G[i]
          /\ s[Len(A) + Len(G) + 1] = "sp"
      BY <3>1, TaggedIs
    <3> QED
      BY <1>4, <3>2
  <2> QED
    BY <1>3, <2>1
<1>6. /\ line \in Seq(Tokens) /\ Len(line) = 4 + g + 1 + Len(u) /\ g \in Nat
      /\ line[1] = "ts" /\ line[2] = "sp" /\ line[3] = x.host /\ line[4] = "sp"
  BY <1>2, <1>3, <1>5 DEF EndsWith
<1>7. SpaceAt(line, 0, 0) /\ SpaceAt(line, 1, 2) /\ SpaceAt(line, 2, 4)
  <2>1. 2 \in 1 .. Len(line) /\ 4 \in 1 .. Len(line)
    BY <1>1, <1>2, <1>6
  <2>2. SpaceAt(line, 0, 0)
    BY <1>6, SpaceFirst
  <2>3. SpaceAt(line, 1, 2)
    BY <1>6, <2>1, <2>2, SpaceSkip
  <2>4. SpaceAt(line, 2, 4)
    BY <1>1, <1>6, <2>1, <2>3, SpaceSkip
  <2> QED
    BY <2>2, <2>3, <2>4
<1> DEFINE e == 4 + g + 1
<1>8. SpaceAt(line, 3, e)
  <2>1. e \in 1 .. Len(line) /\ 4 < e /\ 2 + 1 = 3 /\ 4 \in Nat
    BY <1>1, <1>6
  <2>2. \A i \in 4 + 1 .. e - 1 : line[i] # "sp"
    <3> TAKE i \in 4 + 1 .. e - 1
    <3>1. i - 4 \in 1 .. g /\ 4 + (i - 4) = i
      BY <1>6
    <3> QED
      BY <3>1, <1>2, <1>5
  <2>3. line[e] = "sp"
    BY <1>5
  <2> HIDE DEF e
  <2>4. SpaceAt(line, 2 + 1, e)
    BY <1>6, <1>7, <2>1, <2>2, <2>3, SpaceNext
  <2> QED
    BY <2>1, <2>4
<1>9. Space(line, 2) = 4 /\ Space(line, 3) = e
  BY <1>6, <1>7, <1>8, SpaceThere
<1>10. Field(line, 1) = <<"ts">>
  <2>1. 1 - 1 = 0 /\ 0 + 2 = 2 /\ 0 + 1 = 1 /\ 2 <= Len(line)
    BY <1>1, <1>6
  <2> QED
    BY <1>6, <1>7, <2>1, OneTokenField
<1>11. Field(line, 2) = <<x.host>>
  <2>1. 2 - 1 = 1 /\ 2 + 2 = 4 /\ 2 + 1 = 3 /\ 4 <= Len(line)
    BY <1>1, <1>6
  <2> QED
    BY <1>6, <1>7, <2>1, OneTokenField
<1>12. Field(line, 3) = G
  <2>1. 3 - 1 = 2 /\ e - 1 = 4 + g /\ 4 + g <= Len(line)
    BY <1>1, <1>6
  <2>2. SubSeq(line, 4 + 1, 4 + g) = G
    BY <1>2, <1>5, <1>6, <2>1, PartEquals
  <2> HIDE DEF e
  <2> QED
    BY <1>9, <2>1, <2>2 DEF Field
<1>13. TrimStart(After(line, 3), "sp") = u
  <2>1. e \in 0 .. e /\ e - e = 0
    BY <1>6
  <2>2. EndsWith(line, e, u)
    BY <1>5
  <2> HIDE DEF e
  <2>3. After(line, 3) = Rest(line, e)
    BY <1>9 DEF After, Rest
  <2>4. EndsWith(Rest(line, e), 0, u)
    BY <2>1, <2>2, CutEnds
  <2>5. \A i \in 1 .. 0 : Rest(line, e)[i] = "sp"
    OBVIOUS
  <2> QED
    BY <1>1, <2>3, <2>4, <2>5, TrimEnds
<1> QED
  BY <1>6, <1>10, <1>11, <1>12, <1>13 DEF G, u

(* A line of RFC 3164 behind its PRI, d spaces more before the day.        *)
Header(s, d, host) ==
    /\ s[1] = "Jun" /\ s[2] = "sp" /\ (d = 1 => s[3] = "sp")
    /\ s[3 + d] = "2" /\ s[4 + d] = "sp" /\ s[5 + d] = "time" /\ s[6 + d] = "sp"
    /\ s[7 + d] = host /\ s[8 + d] = "sp"

LEMMA HeaderIs ==
    ASSUME NEW x \in Sent, x.format = "3164", line = Written(x)
    PROVE  \E d \in {0, 1} :
              /\ HasPri /\ Pri = x.pri
              /\ EndsWith(AfterPri, 9 + d + Len(TagOf(x)), x.text)
              /\ Header(AfterPri, d, x.host)
              /\ \A i \in 1 .. Len(TagOf(x)) : AfterPri[8 + d + i] = TagOf(x)[i]
              /\ AfterPri[9 + d + Len(TagOf(x))] = "sp"
<1> DEFINE A == <<"<", x.pri, ">", "Jun", "sp">>
           M == IF x.mark THEN <<"sp">> ELSE <<>>
           B == <<"2", "sp", "time", "sp", x.host, "sp">>
           H == (A \o M) \o B
           d == Len(M)
           G == TagOf(x)
           g == Len(G)
           u == x.text
<1>1. /\ x.pri \in Tokens /\ x.pri # ">" /\ x.host \in Tokens /\ x.app = "a"
      /\ u \in Seq(Tokens) /\ Len(u) \in Nat \ {0}
  BY SentIs
<1>2. G \in Seq(Tokens) /\ g \in {2, 5}
  BY <1>1, TagIs
<1>3. {"<", ">", "Jun", "sp", "2", "time"} \subseteq Tokens
  BY DEF Tokens
<1>4. /\ A \in Seq(Tokens) /\ Len(A) = 5
      /\ A[1] = "<" /\ A[2] = x.pri /\ A[3] = ">" /\ A[4] = "Jun" /\ A[5] = "sp"
  BY <1>1, <1>3
<1>5. /\ B \in Seq(Tokens) /\ Len(B) = 6
      /\ B[1] = "2" /\ B[2] = "sp" /\ B[3] = "time" /\ B[4] = "sp" /\ B[5] = x.host /\ B[6] = "sp"
  BY <1>1, <1>3
<1>6. M \in Seq(Tokens) /\ d \in {0, 1} /\ (d = 1 => M[1] = "sp")
  BY <1>3
<1>7. line = Tagged(H, G, u)
  BY DEF Written, Tagged
<1> HIDE DEF A, B, M, G, u
<1>8. EndsWith(A \o M, 5, M) /\ \A i \in 1 .. 5 : (A \o M)[i] = A[i]
  BY <1>4, <1>6, JoinEnds
<1>9. A \o M \in Seq(Tokens) /\ Len(A \o M) = 5 + d
  BY <1>8 DEF EndsWith
<1>10. EndsWith(H, Len(A \o M), B) /\ \A i \in 1 .. Len(A \o M) : H[i] = (A \o M)[i]
  <2> DEFINE a == A \o M
  <2>1. a \in Seq(Tokens) /\ B \in Seq(Tokens) /\ H = a \o B
    BY <1>5, <1>9
  <2> HIDE DEF a, H
  <2>2. EndsWith(H, Len(a), B) /\ \A i \in 1 .. Len(a) : H[i] = a[i]
    BY <2>1, JoinEnds
  <2> QED
    BY <2>2 DEF a
<1> HIDE DEF H
<1>11. /\ H \in Seq(Tokens) /\ Len(H) = 11 + d /\ d \in Nat
       /\ \A i \in 1 .. 6 : H[5 + d + i] = B[i]
  <2>1. H \in Seq(Tokens) /\ Len(H) = (5 + d) + 6 /\ \A i \in 1 .. 6 : H[(5 + d) + i] = B[i]
    BY <1>5, <1>9, <1>10 DEF EndsWith
  <2> QED
    BY <1>6, <2>1
<1>12. H[1] = "<" /\ H[2] = x.pri /\ H[3] = ">" /\ H[4] = "Jun" /\ H[5] = "sp" /\ (d = 1 => H[6] = "sp")
  <2>1. ASSUME NEW i \in 1 .. 5 PROVE H[i] = A[i]
    <3>1. i \in 1 .. Len(A \o M)
      BY <1>9, <1>11
    <3> QED
      BY <3>1, <1>8, <1>10
  <2>2. ASSUME d = 1 PROVE H[6] = "sp"
    <3>1. 6 \in 1 .. Len(A \o M) /\ 1 \in 1 .. Len(M) /\ 5 + 1 = 6
      BY <1>9, <2>2
    <3>2. H[6] = (A \o M)[6] /\ (A \o M)[5 + 1] = M[1]
      BY <3>1, <1>8, <1>10 DEF EndsWith
    <3> QED
      BY <1>6, <2>2, <3>1, <3>2
  <2> QED
    BY <1>4, <2>1, <2>2
<1>13. /\ EndsWith(line, Len(H) + g + 1, u) /\ \A i \in 1 .. Len(H) : line[i] = H[i]
       /\ \A i \in 1 .. g : line[Len(H) + i] = G[i]
       /\ line[Len(H) + g + 1] = "sp"
  <2>1. H \in Seq(Tokens) /\ G \in Seq(Tokens) /\ u \in Seq(Tokens)
    BY <1>1, <1>2, <1>11
  <2> DEFINE s == Tagged(H, G, u)
  <2>2. /\ EndsWith(s, Len(H) + Len(G) + 1, u) /\ \A i \in 1 .. Len(H) : s[i] = H[i]
        /\ \A i \in 1 .. Len(G) : s[Len(H) + i] = G[i]
        /\ s[Len(H) + Len(G) + 1] = "sp"
    BY <2>1, TaggedIs
  <2> QED
    BY <1>7, <2>2
<1> HIDE DEF d, g
<1>14. d \in {0, 1} /\ g \in Nat /\ Len(u) \in Nat
  BY <1>1, <1>2, <1>6 DEF d
<1> DEFINE n == 12 + d + g
<1>15. EndsWith(line, n, u) /\ line \in Seq(Tokens) /\ Len(line) = n + Len(u) /\ line[n] = "sp"
  <2>1. Len(H) + g + 1 = n
    BY <1>11, <1>14
  <2> HIDE DEF n
  <2> QED
    BY <1>13, <2>1 DEF EndsWith
<1>16. HasPri /\ Pri = x.pri /\ AfterPri = Rest(line, 3)
  <2>1. 1 \in 1 .. Len(H) /\ 2 \in 1 .. Len(H) /\ 3 \in 1 .. Len(H) /\ Len(line) >= 3
    BY <1>11, <1>14, <1>15
  <2>2. line[1] = "<" /\ line[2] = x.pri /\ line[3] = ">"
    BY <1>12, <1>13, <2>1
  <2> QED
    BY <1>1, <1>15, <2>1, <2>2, PriIs
<1> DEFINE s == AfterPri
<1>17. EndsWith(s, n - 3, u) /\ \A i \in 1 .. n - 3 : s[i] = line[3 + i]
  <2>1. 3 \in 0 .. n
    BY <1>14
  <2> HIDE DEF n
  <2> QED
    BY <1>15, <1>16, <2>1, CutEnds
<1> HIDE DEF s
<1>18. \A i \in 1 .. 8 + d : s[i] = H[3 + i]
  <2> TAKE i \in 1 .. 8 + d
  <2>1. i \in 1 .. n - 3 /\ 3 + i \in 1 .. Len(H)
    BY <1>11, <1>14
  <2> QED
    BY <2>1, <1>13, <1>17
<1>19. \A i \in 1 .. 6 : s[2 + d + i] = B[i]
  <2> TAKE i \in 1 .. 6
  <2>1. 2 + d + i \in 1 .. 8 + d /\ 3 + (2 + d + i) = 5 + d + i
    BY <1>14
  <2> QED
    BY <2>1, <1>11, <1>18
<1>20. Header(s, d, x.host)
  <2>1. s[1] = "Jun" /\ s[2] = "sp" /\ (d = 1 => s[3] = "sp")
    <3>1. 1 \in 1 .. 8 + d /\ 2 \in 1 .. 8 + d /\ 3 \in 1 .. 8 + d /\ 3 + 1 = 4 /\ 3 + 2 = 5 /\ 3 + 3 = 6
      BY <1>14
    <3> QED
      BY <3>1, <1>12, <1>18 DEF d
  <2>2. /\ s[2 + d + 1] = "2" /\ s[2 + d + 2] = "sp" /\ s[2 + d + 3] = "time" /\ s[2 + d + 4] = "sp"
        /\ s[2 + d + 5] = x.host /\ s[2 + d + 6] = "sp"
    BY <1>5, <1>19
  <2>3. 2 + d + 1 = 3 + d /\ 2 + d + 2 = 4 + d /\ 2 + d + 3 = 5 + d /\ 2 + d + 4 = 6 + d
        /\ 2 + d + 5 = 7 + d /\ 2 + d + 6 = 8 + d
    BY <1>14
  <2> QED
    BY <2>1, <2>2, <2>3 DEF Header
<1>21. \A i \in 1 .. g : s[8 + d + i] = G[i]
  <2> TAKE i \in 1 .. g
  <2>1. 8 + d + i \in 1 .. n - 3 /\ 3 + (8 + d + i) = Len(H) + i
    BY <1>11, <1>14
  <2> QED
    BY <2>1, <1>13, <1>17
<1>22. s[9 + d + g] = "sp"
  <2>1. 9 + d + g \in 1 .. n - 3 /\ 3 + (9 + d + g) = n
    BY <1>14
  <2> HIDE DEF n
  <2> QED
    BY <2>1, <1>15, <1>17
<1>23. EndsWith(s, 9 + d + g, u)
  <2>1. n - 3 = 9 + d + g
    BY <1>14
  <2> HIDE DEF n
  <2> QED
    BY <2>1, <1>17
<1> QED
  BY <1>14, <1>16, <1>20, <1>21, <1>22, <1>23 DEF s, g, G, u

(* What is between two spaces, or before the first, is a word.             *)
LEMMA StartIs ==
    ASSUME NEW s \in Seq(Tokens), NEW j \in 1 .. Len(s)
    PROVE  j \in WordStarts(s) <=> s[j] # "sp" /\ (j = 1 \/ s[j - 1] = "sp")
BY LenProperties DEF WordStarts

LEMMA NoStart ==
    ASSUME NEW s \in Seq(Tokens), NEW j \in 1 .. Len(s), s[j] = "sp"
    PROVE  j \notin WordStarts(s)
BY StartIs

LEMMA IsStart ==
    ASSUME NEW s \in Seq(Tokens), NEW i \in 1 .. Len(s), i + 1 \in 1 .. Len(s),
           s[i] = "sp", s[i + 1] # "sp"
    PROVE  i + 1 \in WordStarts(s)
<1>1. (i + 1) - 1 = i
  OBVIOUS
<1> DEFINE j == i + 1
<1>2. j \in 1 .. Len(s) /\ s[j] # "sp" /\ s[j - 1] = "sp"
  BY <1>1
<1> HIDE DEF j
<1>3. j \in WordStarts(s)
  BY <1>2, StartIs
<1> QED
  BY <1>3 DEF j

LEMMA Line3164 ==
    ASSUME NEW x \in Sent, x.format = "3164", line = Written(x)
    PROVE  /\ HasPri /\ Pri = x.pri /\ AfterPri[1] # "1" /\ ~(Cardinality(Spaces(AfterPri)) < 4)
           /\ Word(AfterPri, 4) = <<x.host>> /\ Word(AfterPri, 5) = TagOf(x)
           /\ AfterTag(After(AfterPri, 4)) = x.text
<1> DEFINE s == AfterPri
           G == TagOf(x)
           g == Len(G)
           u == x.text
<1>1. x.host = "h" /\ x.app = "a" /\ u \in Seq(Tokens) /\ Len(u) \in Nat \ {0}
  BY SentIs
<1>2. /\ G \in Seq(Tokens) /\ g \in {2, 5} /\ g \in Nat
      /\ \A i \in 1 .. g : G[i] # "sp"
      /\ \A i \in 1 .. g - 1 : G[i] # ":"
      /\ G[g] = ":"
  BY <1>1, TagIs
<1>3. PICK d \in {0, 1} :
         /\ HasPri /\ Pri = x.pri
         /\ EndsWith(s, 9 + d + g, u)
         /\ Header(s, d, "h")
         /\ \A i \in 1 .. g : s[8 + d + i] = G[i]
         /\ s[9 + d + g] = "sp"
  BY <1>1, HeaderIs
<1> HIDE DEF s, G, u
<1> DEFINE n == 9 + d + g
<1>4. s \in Seq(Tokens) /\ Len(s) = n + Len(u) /\ n \in Nat /\ d \in Nat
  BY <1>2, <1>3 DEF EndsWith
<1>5. \A i \in 1 .. n : i \in 1 .. Len(s)
  BY <1>1, <1>4
<1>6. /\ s[1] = "Jun" /\ s[2] = "sp" /\ (d = 1 => s[3] = "sp")
      /\ s[3 + d] = "2" /\ s[4 + d] = "sp" /\ s[5 + d] = "time" /\ s[6 + d] = "sp"
      /\ s[7 + d] = "h" /\ s[8 + d] = "sp"
  BY <1>3 DEF Header
<1>7. s[9 + d] = G[1] /\ G[1] # "sp" /\ g >= 2
  <2>1. 1 \in 1 .. g /\ 8 + d + 1 = 9 + d
    BY <1>2, <1>4
  <2>2. s[9 + d] = G[1]
    BY <1>3, <2>1
  <2>3. G[1] # "sp"
    BY <1>2, <2>1
  <2>4. g >= 2
    BY <1>2
  <2> QED
    BY <2>2, <2>3, <2>4
<1>8. \A i \in 9 + d .. 8 + d + g : s[i] # "sp"
  <2> TAKE i \in 9 + d .. 8 + d + g
  <2>1. i - (8 + d) \in 1 .. g /\ 8 + d + (i - (8 + d)) = i
    BY <1>2, <1>4
  <2> QED
    BY <2>1, <1>2, <1>3
(* The fields.                                                             *)
<1>9. WordAt(s, 5, 9 + d) /\ WordAt(s, 4, 7 + d)
  <2>1. /\ 1 \in 1 .. Len(s) /\ 2 \in 1 .. Len(s) /\ 3 \in 1 .. Len(s) /\ 3 + d \in 1 .. Len(s) /\ 4 + d \in 1 .. Len(s)
        /\ 5 + d \in 1 .. Len(s) /\ 6 + d \in 1 .. Len(s) /\ 7 + d \in 1 .. Len(s) /\ 8 + d \in 1 .. Len(s)
        /\ 9 + d \in 1 .. Len(s)
    BY <1>1, <1>2, <1>4
  <2>2. /\ 2 \notin WordStarts(s) /\ (d = 1 => 3 \notin WordStarts(s))
        /\ 4 + d \notin WordStarts(s) /\ 6 + d \notin WordStarts(s) /\ 8 + d \notin WordStarts(s)
    <3>1. 2 \notin WordStarts(s)
      BY <1>4, <1>6, <2>1, NoStart
    <3>2. ASSUME d = 1 PROVE 3 \notin WordStarts(s)
      BY <1>4, <1>6, <2>1, <3>2, NoStart
    <3>3. 4 + d \notin WordStarts(s)
      BY <1>4, <1>6, <2>1, NoStart
    <3>4. 6 + d \notin WordStarts(s)
      BY <1>4, <1>6, <2>1, NoStart
    <3>5. 8 + d \notin WordStarts(s)
      BY <1>4, <1>6, <2>1, NoStart
    <3> QED
      BY <3>1, <3>2, <3>3, <3>4, <3>5
  <2>3. 1 \in WordStarts(s) /\ 3 + d \in WordStarts(s)
    <3>1. 1 \in WordStarts(s)
      <4>1. s[1] # "sp"
        BY <1>6
      <4> QED
        BY <1>4, <2>1, <4>1, StartIs
    <3>2. /\ 2 + d \in 1 .. Len(s) /\ (2 + d) + 1 = 3 + d /\ s[2 + d] = "sp" /\ s[3 + d] # "sp"
      <4>1. d = 0 => 2 + d = 2
        OBVIOUS
      <4>2. d = 1 => 2 + d = 3
        OBVIOUS
      <4>3. 2 + d \in 1 .. Len(s) /\ s[2 + d] = "sp"
        BY <1>3, <1>6, <2>1, <4>1, <4>2
      <4>4. s[3 + d] # "sp"
        BY <1>6
      <4> QED
        BY <1>4, <4>3, <4>4
    <3>3. 3 + d \in WordStarts(s)
      <4> DEFINE i == 2 + d
      <4>1. i \in 1 .. Len(s) /\ i + 1 \in 1 .. Len(s) /\ s[i] = "sp" /\ s[i + 1] # "sp"
        BY <2>1, <3>2
      <4> HIDE DEF i
      <4>2. i + 1 \in WordStarts(s)
        BY <1>4, <4>1, IsStart
      <4> QED
        BY <3>2, <4>2 DEF i
    <3> QED
      BY <3>1, <3>3
  <2>4. 5 + d \in WordStarts(s) /\ 7 + d \in WordStarts(s) /\ 9 + d \in WordStarts(s)
    <3>1. ASSUME NEW i \in 1 .. Len(s), NEW j \in 1 .. Len(s), j = i + 1, s[i] = "sp", s[j] # "sp"
          PROVE  j \in WordStarts(s)
      BY <1>4, <3>1, IsStart
    <3>2. 4 + d + 1 = 5 + d /\ 6 + d + 1 = 7 + d /\ 8 + d + 1 = 9 + d
      BY <1>4
    <3>3. s[5 + d] # "sp"
      BY <1>6
    <3>4. s[7 + d] # "sp"
      BY <1>6
    <3>5. 5 + d \in WordStarts(s)
      BY <1>6, <2>1, <3>1, <3>2, <3>3
    <3>6. 7 + d \in WordStarts(s)
      BY <1>6, <2>1, <3>1, <3>2, <3>4
    <3>7. 9 + d \in WordStarts(s)
      BY <1>6, <1>7, <2>1, <3>1, <3>2
    <3> QED
      BY <3>5, <3>6, <3>7
  <2>5. WordAt(s, 1, 1)
    <3>1. WordAt(s, 0, 0)
      BY <1>4, WordFirst
    <3>2. 0 \in Nat /\ 0 < 1 /\ 0 + 1 = 1 /\ \A i \in 0 + 1 .. 1 - 1 : i \notin WordStarts(s)
      OBVIOUS
    <3> QED
      BY <1>4, <2>1, <2>3, <3>1, <3>2, WordNext
  <2>6. WordAt(s, 2, 3 + d)
    <3>1. 1 \in Nat /\ 1 < 3 + d /\ 1 + 1 = 2
      BY <1>4
    <3>2. \A i \in 1 + 1 .. (3 + d) - 1 : i = 2 \/ (d = 1 /\ i = 3)
      BY <1>3
    <3>3. \A i \in 1 + 1 .. (3 + d) - 1 : i \notin WordStarts(s)
      BY <2>2, <3>2
    <3> QED
      BY <1>4, <2>1, <2>3, <2>5, <3>1, <3>3, WordNext
  <2>7. ASSUME NEW k, NEW i \in Nat, i \in 1 .. 9, WordAt(s, k, i + d),
               (i + 2) + d \in 1 .. Len(s), (i + 2) + d \in WordStarts(s), (i + 1) + d \notin WordStarts(s)
        PROVE  WordAt(s, k + 1, (i + 2) + d)
    <3>1. i + d \in Nat /\ i + d < (i + 2) + d
      BY <1>4
    <3>2. \A y \in (i + d) + 1 .. ((i + 2) + d) - 1 : y = (i + 1) + d
      BY <1>4
    <3>3. \A y \in (i + d) + 1 .. ((i + 2) + d) - 1 : y \notin WordStarts(s)
      BY <2>7, <3>2
    <3> QED
      BY <1>4, <2>7, <3>1, <3>3, WordNext
  <2>8. WordAt(s, 3, 5 + d)
    <3>1. 3 + 2 = 5 /\ 3 + 1 = 4 /\ 2 + 1 = 3
      OBVIOUS
    <3> QED
      BY <2>1, <2>2, <2>4, <2>6, <2>7, <3>1
  <2>9. WordAt(s, 4, 7 + d)
    <3>1. 5 + 2 = 7 /\ 5 + 1 = 6 /\ 3 + 1 = 4
      OBVIOUS
    <3> QED
      BY <2>1, <2>2, <2>4, <2>8, <2>7, <3>1
  <2>10. WordAt(s, 5, 9 + d)
    <3>1. 7 + 2 = 9 /\ 7 + 1 = 8 /\ 4 + 1 = 5
      OBVIOUS
    <3> QED
      BY <2>1, <2>2, <2>4, <2>9, <2>7, <3>1
  <2> QED
    BY <2>9, <2>10
<1>10. Word(s, 4) = <<"h">>
  <2>1. 7 + d \in 1 .. Len(s) /\ 8 + d \in 1 .. Len(s) /\ 7 + d < 8 + d /\ (8 + d) - 1 = 7 + d
        /\ \A i \in (7 + d) + 1 .. (8 + d) - 1 : s[i] # "sp"
    BY <1>1, <1>4
  <2>2. Word(s, 4) = SubSeq(s, 7 + d, 7 + d)
    BY <1>4, <1>6, <1>9, <2>1, WordIs
  <2> QED
    BY <1>4, <1>6, <2>1, <2>2, OneToken
<1>11. Word(s, 5) = G
  <2>1. n \in 1 .. Len(s) /\ 9 + d < n /\ s[n] = "sp" /\ n - 1 = 8 + d + g
    BY <1>1, <1>3, <1>4, <1>7
  <2>2. \A i \in (9 + d) + 1 .. n - 1 : s[i] # "sp"
    BY <1>4, <1>8, <2>1
  <2>3. Word(s, 5) = SubSeq(s, 9 + d, 8 + d + g)
    <3> DEFINE i == 9 + d
    <3>1. /\ WordAt(s, 5, i) /\ i \in 1 .. Len(s) /\ i < n
          /\ \A y \in i + 1 .. n - 1 : s[y] # "sp"
      <4>1. i \in 1 .. n
        BY <2>1, <1>4
      <4> QED
        BY <1>5, <1>9, <2>1, <2>2, <4>1
    <3>2. s[i] # "sp"
      BY <1>7
    <3> HIDE DEF n, i
    <3>3. 5 \in Nat \ {0} /\ n \in 1 .. Len(s) /\ s[n] = "sp" /\ s \in Seq(Tokens)
      BY <1>4, <2>1
    <3>4. Word(s, 5) = SubSeq(s, i, n - 1)
      BY <3>1, <3>3, WordIs
    <3> QED
      BY <2>1, <3>4 DEF i
  <2>4. 8 + d \in Nat /\ 8 + d + g <= Len(s) /\ 9 + d = (8 + d) + 1 /\ 8 + d + g = (8 + d) + g
    BY <1>1, <1>4
  <2>5. \A i \in 1 .. Len(G) : s[(8 + d) + i] = G[i]
    BY <1>3
  <2>6. SubSeq(s, 9 + d, 8 + d + g) = G
    <3> DEFINE k == 8 + d
               w == Len(G)
               m == 9 + d
               z == 8 + d + g
    <3>1. k \in Nat /\ k + w <= Len(s) /\ m = k + 1 /\ z = k + w /\ \A i \in 1 .. w : s[k + i] = G[i]
      BY <2>4, <2>5
    <3>2. s \in Seq(Tokens) /\ G \in Seq(Tokens) /\ w = Len(G)
      BY <1>2, <1>4
    <3> HIDE DEF k, w, m, z
    <3>3. SubSeq(s, m, z) = G
      BY <3>1, <3>2, PartEquals
    <3> QED
      BY <3>3 DEF m, z
  <2> QED
    BY <2>3, <2>6
(* The message.                                                            *)
<1> DEFINE c == 8 - d
<1>12. SpaceAt(s, 4, c)
  <2>1. SpaceAt(s, 0, 0)
    BY <1>4, SpaceFirst
  <2>2. 2 \in 1 .. Len(s) /\ 3 \in 1 .. Len(s) /\ 4 \in 1 .. Len(s) /\ 5 \in 1 .. Len(s) /\ 6 \in 1 .. Len(s)
        /\ 7 \in 1 .. Len(s) /\ 8 \in 1 .. Len(s)
    BY <1>1, <1>4
  <2>3. SpaceAt(s, 1, 2)
    BY <1>4, <1>6, <2>1, <2>2, SpaceSkip
  <2>4. CASE d = 0
    <3>1. s[3] = "2" /\ s[4] = "sp" /\ s[5] = "time" /\ s[6] = "sp" /\ s[7] = "h" /\ s[8] = "sp"
      BY <1>6, <2>4
    <3>2. SpaceAt(s, 2, 4)
      BY <1>4, <2>2, <2>3, <3>1, SpaceSkip
    <3>3. SpaceAt(s, 3, 6)
      BY <1>4, <2>2, <3>1, <3>2, SpaceSkip
    <3>4. SpaceAt(s, 4, 8)
      BY <1>4, <2>2, <3>1, <3>3, SpaceSkip
    <3> QED
      BY <2>4, <3>4
  <2>5. CASE d = 1
    <3>1. s[3] = "sp" /\ s[4] = "2" /\ s[5] = "sp" /\ s[6] = "time" /\ s[7] = "sp"
      BY <1>6, <2>5
    <3>2. SpaceAt(s, 2, 3)
      BY <1>4, <2>2, <2>3, <3>1, SpaceSkip
    <3>3. SpaceAt(s, 3, 5)
      BY <1>4, <2>2, <3>1, <3>2, SpaceSkip
    <3>4. SpaceAt(s, 4, 7)
      BY <1>4, <2>2, <3>1, <3>3, SpaceSkip
    <3> QED
      BY <2>5, <3>4
  <2> QED
    BY <2>4, <2>5
<1>13. c \in Nat /\ c >= 7 /\ c >= 6 + d /\ c <= 8 + d
  BY <1>3
<1> HIDE DEF c
<1>14. After(s, 4) = Rest(s, c) /\ ~(Cardinality(Spaces(s)) < 4)
  <2>1. Space(s, 4) = c /\ 4 <= Cardinality(Spaces(s))
    BY <1>4, <1>12, SpaceThere
  <2>2. Cardinality(Spaces(s)) \in Nat
    <3>1. Spaces(s) \subseteq 1 .. Len(s) /\ Len(s) \in Nat
      BY <1>4, LenProperties DEF Spaces
    <3> QED
      BY <3>1, CountAll
  <2>3. ~(Cardinality(Spaces(s)) < 4)
    BY <2>1, <2>2
  <2>4. After(s, 4) = Rest(s, c)
    BY <2>1 DEF After, Rest
  <2> QED
    BY <2>3, <2>4
<1> DEFINE b == Rest(s, c)
           m == n - c
           tags == {i \in Spaces(b) : i > 1 /\ b[i - 1] = ":"}
<1>15. EndsWith(b, m, u) /\ \A i \in 1 .. m : b[i] = s[c + i]
  <2>1. c \in 0 .. n
    BY <1>2, <1>4, <1>13
  <2>2. EndsWith(s, n, u)
    BY <1>3
  <2> HIDE DEF n
  <2> QED
    BY <2>1, <2>2, CutEnds
<1> HIDE DEF b
<1>16. b \in Seq(Tokens) /\ DOMAIN b = 1 .. Len(b) /\ m \in 1 .. Len(b) /\ Len(b) \in Nat /\ m >= 3 /\ m \in Nat
  <2>1. m \in Nat /\ m >= 3
    BY <1>4, <1>7, <1>13
  <2> HIDE DEF m
  <2>2. b \in Seq(Tokens) /\ Len(b) = m + Len(u)
    BY <1>15 DEF EndsWith
  <2> QED
    BY <1>1, <2>1, <2>2, LenProperties
<1>17. m \in tags
  <2>1. m \in 1 .. m /\ c + m = n /\ m - 1 \in 1 .. m /\ c + (m - 1) = 8 + d + g /\ g \in 1 .. g /\ m > 1
    <3>1. m >= 3 /\ m \in Nat /\ c \in Nat /\ d \in Nat
      BY <1>4, <1>13, <1>16
    <3>2. g \in Nat /\ g >= 2
      BY <1>2, <1>7
    <3>3. c + m = n
      BY <1>4, <1>13
    <3>4. c + (m - 1) = 8 + d + g
      BY <1>13, <3>1, <3>2
    <3>5. g \in 1 .. g
      <4> HIDE DEF g
      <4> QED
        BY <3>2
    <3>6. m \in 1 .. m /\ m - 1 \in 1 .. m /\ m > 1
      <4> HIDE DEF m
      <4> QED
        BY <3>1
    <3> QED
      BY <3>3, <3>4, <3>5, <3>6
  <2>2. b[m] = "sp"
    BY <1>3, <1>15, <2>1
  <2>3. b[m - 1] = s[8 + d + g]
    BY <1>15, <2>1
  <2>4. b[m - 1] = ":"
    BY <1>2, <1>3, <2>1, <2>3
  <2> HIDE DEF m
  <2> QED
    BY <1>16, <2>1, <2>2, <2>4 DEF Spaces
<1>18. ASSUME NEW i \in tags PROVE i \in Int /\ m <= i
  <2>1. i \in Nat /\ i > 1 /\ b[i - 1] = ":"
    BY <1>16 DEF Spaces
  <2>2. ~(i < m)
    <3> SUFFICES ASSUME i < m PROVE FALSE
      OBVIOUS
    <3> DEFINE j == c + (i - 1)
    <3>1. i - 1 \in 1 .. m
      BY <1>16, <2>1
    <3>2. s[j] = ":"
      BY <1>15, <2>1, <3>1
    <3>3. j = 7 + d \/ j = 8 + d \/ (j - (8 + d) \in 1 .. g - 1 /\ j - (8 + d) \in 1 .. g /\ 8 + d + (j - (8 + d)) = j)
      BY <1>2, <1>4, <1>13, <2>1
    <3> HIDE DEF j
    <3>4. CASE j = 7 + d \/ j = 8 + d
      BY <1>6, <3>2, <3>4
    <3>5. CASE j - (8 + d) \in 1 .. g - 1 /\ j - (8 + d) \in 1 .. g /\ 8 + d + (j - (8 + d)) = j
      <4>1. s[j] = G[j - (8 + d)]
        BY <1>3, <3>5
      <4> QED
        BY <1>2, <3>2, <3>5, <4>1
    <3> QED
      BY <3>3, <3>4, <3>5
  <2> QED
    BY <1>16, <2>1, <2>2
<1>19. AfterTag(b) = Rest(b, m)
  <2>1. m \in Int
    BY <1>16
  <2> HIDE DEF m
  <2>2. Min(tags) = m
    <3> HIDE DEF tags
    <3> QED
      BY <1>17, <1>18, <2>1, LeastIs
  <2> QED
    BY <1>17, <2>2 DEF AfterTag, Rest
<1>20. Rest(b, m) = u
  <2>1. m \in 0 .. m /\ m - m = 0
    BY <1>16
  <2> HIDE DEF m
  <2>2. EndsWith(Rest(b, m), 0, u)
    BY <1>15, <2>1, CutEnds
  <2> QED
    BY <2>2, WholeEnds
<1> QED
  BY <1>1, <1>3, <1>6, <1>10, <1>11, <1>14, <1>19, <1>20 DEF s, G, u, b

(* A line of no format.                                                    *)
LEMMA LinePlain ==
    ASSUME NEW x \in Sent, x.format = "plain", line = Written(x)
    PROVE  line = x.text /\ line[1] # "<" /\ Field(line, 1) # <<"ts">>
<1>1. line = x.text
  BY DEF Written
<1>2. x.text \in Seq(Tokens) /\ Len(x.text) \in Nat \ {0} /\ x.text[1] \notin {"<", "ts"}
  BY SentIs
<1> DEFINE s == x.text
           n == Space(s, 1) - 1
<1>3. Space(s, 0) = 0 /\ 0 + 1 = 1 /\ 1 - 1 = 0
  BY DEF Space
<1>4. Space(s, 1) \in 1 .. Len(s) + 1
  <2>1. Spaces(s) \in SUBSET (1 .. Len(s)) /\ Len(s) \in Nat
    BY <1>2, LenProperties DEF Spaces
  <2>2. CASE 1 > Cardinality(Spaces(s))
    <3>1. Space(s, 1) = Len(s) + 1
      BY <2>2 DEF Space
    <3> QED
      BY <2>1, <3>1
  <2>3. CASE ~(1 > Cardinality(Spaces(s)))
    <3>1. Space(s, 1) = Nth(Spaces(s), 1)
      BY <2>3 DEF Space
    <3>2. Cardinality(Spaces(s)) \in Nat
      BY <2>1, CountAll
    <3>3. 1 \in 1 .. Cardinality(Spaces(s))
      BY <2>3, <3>2
    <3>4. Nth(Spaces(s), 1) \in Spaces(s)
      BY <1>2, <2>1, <3>3, PickType
    <3> QED
      BY <2>1, <3>1, <3>4
  <2> QED
    BY <2>2, <2>3
<1>5. Field(s, 1) = SubSeq(s, 1, n)
  BY <1>3 DEF Field
<1>6. n \in Nat /\ n <= Len(s) /\ 1 <= n + 1 /\ 1 \in Nat \ {0}
  BY <1>2, <1>4
<1> HIDE DEF s, n
<1>7. /\ Len(SubSeq(s, 1, n)) = n - 1 + 1
      /\ \A i \in 1 .. n - 1 + 1 : SubSeq(s, 1, n)[i] = s[1 + i - 1]
  BY <1>2, <1>6, PartIs DEF s
<1>8. ASSUME Field(s, 1) = <<"ts">> PROVE FALSE
  <2>1. Len(<<"ts">>) = 1 /\ <<"ts">>[1] = "ts"
    OBVIOUS
  <2>2. n - 1 + 1 = 1
    BY <1>5, <1>7, <1>8, <2>1
  <2>3. 1 \in 1 .. n - 1 + 1 /\ 1 + 1 - 1 = 1
    BY <2>2
  <2>4. SubSeq(s, 1, n)[1] = s[1]
    <3> DEFINE r == SubSeq(s, 1, n)
    <3>1. \A i \in 1 .. n - 1 + 1 : r[i] = s[1 + i - 1]
      BY <1>7
    <3> HIDE DEF r
    <3>2. ASSUME NEW i \in 1 .. n - 1 + 1, i = 1 PROVE r[i] = s[i]
      <4>1. 1 + i - 1 = i
        BY <3>2
      <4> QED
        BY <3>1, <4>1
    <3>3. r[1] = s[1]
      BY <2>3, <3>2
    <3> QED
      BY <3>3 DEF r
  <2>5. s[1] = "ts"
    BY <1>5, <1>8, <2>1, <2>4
  <2> QED
    BY <1>2, <2>5 DEF s
<1> QED
  BY <1>1, <1>2, <1>8 DEF s

-----------------------------------------------------------------------------
(* The invariant: which formats are left in each phase, and what entry     *)
(* holds from the phase on in which the format of the line was recognised. *)

(* The entry of x with this body and severity.                             *)
Found(x, body, severity) ==
    Entry(body, severity,
          IF x.format = "plain" THEN Absent ELSE Named(<<x.host>>),
          IF x.format = "plain" THEN Absent ELSE Process(x),
          IF x.pid THEN <<"7">> ELSE Absent)

(* The severity the entry has in the end.                                  *)
Inferred(x) == IF Stated(x) = "none" /\ x.format # "journal"
               THEN InferSeverity(StripAnsi(x.text)) ELSE Stated(x)

LInv ==
    /\ sent \in Sent
    /\ line = Written(sent)
    /\ phase = "5424"    => sent.format # "journal"
    /\ phase = "3164"    => sent.format \in {"3164", "rsyslog", "plain"}
    /\ phase = "rsyslog" => sent.format \in {"rsyslog", "plain"}
    /\ phase = "whole"   => sent.format = "plain"
    /\ phase = "journal" => sent.format = "journal"
    /\ phase = "strip"   => /\ sent.format # "journal"
                            /\ entry = Found(sent, sent.text, Stated(sent))
    /\ phase = "infer"   => /\ sent.format # "journal"
                            /\ entry = Found(sent, StripAnsi(sent.text), Stated(sent))
    /\ phase = "done"    => \/ entry = Found(sent, StripAnsi(sent.text), Inferred(sent))
                            \/ entry = Unparsed /\ StripAnsi(sent.text) = <<>>

LEMMA StatedIs ==
    ASSUME NEW x \in Sent, x.format \in {"5424", "3164", "rsyslog"}
    PROVE  /\ x.format \in {"5424", "3164"} => Stated(x) = Severity(x.pri)
           /\ x.format = "rsyslog" => Stated(x) = "none"
           /\ \A body, severity :
                 Found(x, body, severity) =
                    Entry(body, severity, Named(<<x.host>>), Named(<<x.app>>), IF x.pid THEN <<"7">> ELSE Absent)
           /\ x.format \in {"3164", "rsyslog"} =>
                 Named(<<x.host>>) = <<x.host>> /\ Named(<<x.app>>) = <<x.app>>
<1>1. x.format \in {"3164", "rsyslog"} => x.host = "h" /\ x.app = "a"
  BY SentIs
<1>2. x.comm = "-"
  BY SentIs
<1>3. Process(x) = Named(<<x.app>>)
  BY <1>2 DEF Process
<1>4. Named(<<"h">>) = <<"h">> /\ Named(<<"a">>) = <<"a">>
  <2>1. <<"h">> # <<"-">> /\ <<"a">> # <<"-">>
    <3>1. <<"h">>[1] = "h" /\ <<"a">>[1] = "a" /\ <<"-">>[1] = "-"
      OBVIOUS
    <3> QED
      BY <3>1
  <2> QED
    BY <2>1 DEF Named
<1> QED
  BY <1>1, <1>3, <1>4 DEF Stated, Found

LEMMA Rfc5424Step ==
    LInv /\ TryRfc5424 => LInv'
<1> SUFFICES ASSUME LInv, TryRfc5424 PROVE LInv'
  OBVIOUS
<1>1. /\ sent \in Sent /\ line = Written(sent) /\ phase = "5424" /\ sent.format # "journal"
      /\ sent' = sent /\ line' = line
  BY DEF LInv, TryRfc5424
<1>2. sent.format \in {"5424", "3164", "rsyslog", "plain"}
  BY <1>1, SentIs
<1> DEFINE rest == TrimStart(Tail(AfterPri), "sp")
           G == HasPri /\ AfterPri # <<>> /\ AfterPri[1] = "1" /\ Cardinality(Spaces(rest)) >= 6
           E == Entry(TrimStart(After(rest, 6), "bom"), Severity(Pri),
                      Named(Field(rest, 2)), Named(Field(rest, 3)),
                      IF Field(rest, 4) = <<"7">> THEN <<"7">> ELSE Absent)
<1>3. (G /\ entry' = E /\ phase' = "strip") \/ (~G /\ phase' = "3164")
  BY DEF TryRfc5424
<1>4. CASE sent.format = "5424"
  <2>1. /\ G /\ Pri = sent.pri /\ TrimStart(After(rest, 6), "bom") = sent.text
        /\ Field(rest, 2) = <<sent.host>> /\ Field(rest, 3) = <<sent.app>>
        /\ Field(rest, 4) = <<IF sent.pid THEN "7" ELSE "-">>
    BY <1>1, <1>4, Line5424
  <2>2. (Field(rest, 4) = <<"7">>) <=> sent.pid
    <3>1. sent.pid \in BOOLEAN
      BY <1>1, SentIs
    <3>2. <<"7">>[1] = "7" /\ <<"-">>[1] = "-"
      OBVIOUS
    <3> HIDE DEF rest
    <3> QED
      BY <2>1, <3>1, <3>2
  <2>3. E = Found(sent, sent.text, Stated(sent))
    <3>1. sent.format \in {"5424", "3164", "rsyslog"} /\ sent.format \in {"5424", "3164"}
      BY <1>4
    <3>2. Stated(sent) = Severity(sent.pri)
      BY <1>1, <3>1, StatedIs
    <3>3. Found(sent, sent.text, Stated(sent)) =
             Entry(sent.text, Stated(sent), Named(<<sent.host>>), Named(<<sent.app>>),
                   IF sent.pid THEN <<"7">> ELSE Absent)
      BY <1>1, <3>1, StatedIs
    <3> HIDE DEF rest, G
    <3> QED
      BY <2>1, <2>2, <3>2, <3>3
  <2>4. phase' = "strip" /\ entry' = Found(sent, sent.text, Stated(sent))
    BY <1>3, <2>1, <2>3
  <2> QED
    BY <1>1, <1>4, <2>4 DEF LInv, Found, Stated
<1>5. CASE sent.format \in {"3164", "rsyslog", "plain"}
  <2>1. ~G
    <3>1. CASE sent.format = "3164"
      BY <1>1, <3>1, Line3164
    <3>2. CASE sent.format = "rsyslog"
      BY <1>1, <3>2, LineRsyslog, NoPri
    <3>3. CASE sent.format = "plain"
      BY <1>1, <3>3, LinePlain, NoPri
    <3> QED
      BY <1>5, <3>1, <3>2, <3>3
  <2>2. phase' = "3164"
    BY <1>3, <2>1
  <2> QED
    BY <1>1, <1>5, <2>2 DEF LInv
<1> QED
  BY <1>2, <1>4, <1>5

LEMMA Rfc3164Step ==
    LInv /\ TryRfc3164 => LInv'
<1> SUFFICES ASSUME LInv, TryRfc3164 PROVE LInv'
  OBVIOUS
<1>1. /\ sent \in Sent /\ line = Written(sent) /\ phase = "3164"
      /\ sent.format \in {"3164", "rsyslog", "plain"}
      /\ sent' = sent /\ line' = line
  BY DEF LInv, TryRfc3164
<1> DEFINE body == AfterTag(IF Cardinality(Spaces(AfterPri)) < 4 THEN AfterPri ELSE After(AfterPri, 4))
           G == HasPri /\ body # <<>>
           E == Entry(body, Severity(Pri), Word(AfterPri, 4),
                      TagName(Word(AfterPri, 5)), TagPid(Word(AfterPri, 5)))
<1>2. (G /\ entry' = E /\ phase' = "strip") \/ (~G /\ phase' = "rsyslog")
  BY DEF TryRfc3164
<1>3. CASE sent.format = "3164"
  <2>1. /\ HasPri /\ Pri = sent.pri /\ ~(Cardinality(Spaces(AfterPri)) < 4)
        /\ Word(AfterPri, 4) = <<sent.host>> /\ Word(AfterPri, 5) = TagOf(sent)
        /\ AfterTag(After(AfterPri, 4)) = sent.text
    BY <1>1, <1>3, Line3164
  <2>2. sent.app = "a" /\ sent.text # <<>>
    <3>1. Len(sent.text) \in Nat \ {0} /\ sent.app = "a"
      BY <1>1, <1>3, SentIs
    <3> QED
      BY <3>1, EmptySeq
  <2>3. TagName(TagOf(sent)) = <<"a">> /\ TagPid(TagOf(sent)) = IF sent.pid THEN <<"7">> ELSE Absent
    BY <1>1, <2>2, TagIs
  <2>4. body = sent.text
    BY <2>1
  <2>5. E = Found(sent, sent.text, Stated(sent))
    <3>1. sent.format = "3164"
      BY <1>3
    <3>2. Stated(sent) = Severity(sent.pri)
      BY <1>1, <3>1, StatedIs
    <3>3. Found(sent, sent.text, Stated(sent)) =
             Entry(sent.text, Stated(sent), Named(<<sent.host>>), Named(<<sent.app>>),
                   IF sent.pid THEN <<"7">> ELSE Absent)
      BY <1>1, <3>1, StatedIs
    <3>4. Named(<<sent.host>>) = <<sent.host>> /\ Named(<<sent.app>>) = <<"a">>
      BY <1>1, <2>2, <3>1, StatedIs
    <3> HIDE DEF body
    <3> QED
      BY <2>1, <2>3, <2>4, <3>2, <3>3, <3>4
  <2>6. phase' = "strip" /\ entry' = Found(sent, sent.text, Stated(sent))
    <3> HIDE DEF E, body
    <3>1. G
      BY <2>1, <2>2, <2>4
    <3> QED
      BY <1>2, <2>5, <3>1
  <2> QED
    BY <1>1, <1>3, <2>6 DEF LInv, Found, Stated
<1>4. CASE sent.format \in {"rsyslog", "plain"}
  <2>1. ~HasPri
    <3>1. CASE sent.format = "rsyslog"
      BY <1>1, <3>1, LineRsyslog, NoPri
    <3>2. CASE sent.format = "plain"
      BY <1>1, <3>2, LinePlain, NoPri
    <3> QED
      BY <1>4, <3>1, <3>2
  <2>2. phase' = "rsyslog"
    BY <1>2, <2>1
  <2> QED
    BY <1>1, <1>4, <2>2 DEF LInv
<1> QED
  BY <1>1, <1>3, <1>4

LEMMA RsyslogStep ==
    LInv /\ TryRsyslogDefault => LInv'
<1> SUFFICES ASSUME LInv, TryRsyslogDefault PROVE LInv'
  OBVIOUS
<1>1. /\ sent \in Sent /\ line = Written(sent) /\ phase = "rsyslog"
      /\ sent.format \in {"rsyslog", "plain"}
      /\ sent' = sent /\ line' = line
  BY DEF LInv, TryRsyslogDefault
<1> DEFINE message == TrimStart(After(line, 3), "sp")
           G == line[1] # "<" /\ Field(line, 1) = <<"ts">> /\ message # <<>>
           E == Entry(message, "none", Field(line, 2), TagName(Field(line, 3)), TagPid(Field(line, 3)))
<1>2. (G /\ entry' = E /\ phase' = "strip") \/ (~G /\ phase' = "whole")
  BY DEF TryRsyslogDefault
<1>3. CASE sent.format = "rsyslog"
  <2>1. /\ line[1] # "<" /\ Field(line, 1) = <<"ts">>
        /\ Field(line, 2) = <<sent.host>> /\ Field(line, 3) = TagOf(sent) /\ message = sent.text
    BY <1>1, <1>3, LineRsyslog
  <2>2. sent.app = "a" /\ sent.text # <<>>
    <3>1. Len(sent.text) \in Nat \ {0} /\ sent.app = "a"
      BY <1>1, <1>3, SentIs
    <3> QED
      BY <3>1, EmptySeq
  <2>3. TagName(TagOf(sent)) = <<"a">> /\ TagPid(TagOf(sent)) = IF sent.pid THEN <<"7">> ELSE Absent
    BY <1>1, <2>2, TagIs
  <2>4. E = Found(sent, sent.text, Stated(sent))
    <3>1. sent.format \in {"5424", "3164", "rsyslog"} /\ sent.format = "rsyslog"
      BY <1>3
    <3>2. Stated(sent) = "none"
      BY <1>1, <1>3, <3>1, StatedIs
    <3>3. Found(sent, sent.text, Stated(sent)) =
             Entry(sent.text, Stated(sent), Named(<<sent.host>>), Named(<<sent.app>>),
                   IF sent.pid THEN <<"7">> ELSE Absent)
      BY <1>1, <3>1, StatedIs
    <3>4. Named(<<sent.host>>) = <<sent.host>> /\ Named(<<sent.app>>) = <<"a">>
      BY <1>1, <2>2, <3>1, StatedIs
    <3> HIDE DEF message
    <3> QED
      BY <2>1, <2>3, <3>2, <3>3, <3>4
  <2>5. phase' = "strip" /\ entry' = Found(sent, sent.text, Stated(sent))
    <3> HIDE DEF E, message
    <3>1. G
      BY <2>1, <2>2
    <3> QED
      BY <1>2, <2>4, <3>1
  <2> QED
    BY <1>1, <1>3, <2>5 DEF LInv, Found, Stated
<1>4. CASE sent.format = "plain"
  <2>1. Field(line, 1) # <<"ts">>
    BY <1>1, <1>4, LinePlain
  <2>2. phase' = "whole"
    BY <1>2, <2>1
  <2> QED
    BY <1>1, <1>4, <2>2 DEF LInv
<1> QED
  BY <1>1, <1>3, <1>4

LEMMA WholeStep ==
    LInv /\ WholeLine => LInv'
<1> SUFFICES ASSUME LInv, WholeLine PROVE LInv'
  OBVIOUS
<1>1. /\ sent \in Sent /\ line = Written(sent) /\ sent.format = "plain"
      /\ sent' = sent /\ line' = line /\ phase' = "strip"
      /\ entry' = [Unparsed EXCEPT !.body = line]
  BY DEF LInv, WholeLine
<1>2. line = sent.text /\ sent.pri = "none" /\ ~sent.pid
  <2>1. ~sent.pid
    BY <1>1 DEF Sent
  <2> QED
    BY <1>1, <2>1, LinePlain, SentIs
<1>3. entry' = Found(sent, sent.text, Stated(sent))
  BY <1>1, <1>2 DEF Found, Stated, Unparsed, Entry
<1> QED
  BY <1>1, <1>3 DEF LInv, Found, Stated

LEMMA StripStepKeeps ==
    LInv /\ StripBody => LInv'
<1> SUFFICES ASSUME LInv, StripBody PROVE LInv'
  OBVIOUS
<1>1. /\ sent \in Sent /\ line = Written(sent) /\ sent.format # "journal"
      /\ entry = Found(sent, sent.text, Stated(sent))
      /\ sent' = sent /\ line' = line /\ phase' = "infer"
      /\ entry' = [entry EXCEPT !.body = StripAnsi(entry.body)]
  BY DEF LInv, StripBody
<1>2. entry' = Found(sent, StripAnsi(sent.text), Stated(sent))
  BY <1>1 DEF Found, Entry
<1> QED
  BY <1>1, <1>2 DEF LInv, Found, Stated

LEMMA InferStepKeeps ==
    LInv /\ InferBody => LInv'
<1> SUFFICES ASSUME LInv, InferBody PROVE LInv'
  OBVIOUS
<1>1. /\ sent \in Sent /\ line = Written(sent) /\ sent.format # "journal"
      /\ entry = Found(sent, StripAnsi(sent.text), Stated(sent))
      /\ sent' = sent /\ line' = line /\ phase' = "done"
      /\ entry' = [entry EXCEPT !.severity = IF entry.severity = "none"
                                             THEN InferSeverity(entry.body) ELSE entry.severity]
  BY DEF LInv, InferBody
<1>2. entry' = Found(sent, StripAnsi(sent.text), Inferred(sent))
  BY <1>1 DEF Found, Entry, Inferred
<1> QED
  BY <1>1, <1>2 DEF LInv, Found, Inferred, Stated

LEMMA JournalStep ==
    LInv /\ EntryToLog => LInv'
<1> SUFFICES ASSUME LInv, EntryToLog PROVE LInv'
  OBVIOUS
<1> DEFINE body == StripAnsi(line)
<1>1. /\ sent \in Sent /\ line = Written(sent) /\ sent.format = "journal"
      /\ sent' = sent /\ line' = line /\ phase' = "done"
      /\ entry' = IF body = <<>> THEN Unparsed
                  ELSE Entry(body, JournalSeverity(sent.pri), Named(<<sent.host>>), Process(sent),
                             IF sent.pid THEN <<"7">> ELSE Absent)
  BY DEF LInv, EntryToLog
<1>2. line = sent.text
  BY <1>1 DEF Written
<1> HIDE DEF body
<1>3. Inferred(sent) = JournalSeverity(sent.pri)
  BY <1>1 DEF Inferred, Stated
<1>4. CASE body # <<>>
  <2>1. entry' = Found(sent, body, Inferred(sent))
    BY <1>1, <1>3, <1>4 DEF Found
  <2> QED
    BY <1>1, <1>2, <2>1 DEF LInv, body, Found, Inferred, Stated
<1>5. CASE body = <<>>
  BY <1>1, <1>2, <1>5 DEF LInv, body, Found, Inferred, Stated
<1> QED
  BY <1>4, <1>5

(* The invariant of a line on its way to an entry: the reader recognises   *)
(* the format the line was written in, no earlier and no later, and finds  *)
(* the message, the severity and the origin in it.                         *)
THEOREM LineInvariant ==
    Spec => []LInv
<1>1. Init => LInv
  BY DEF Init, LInv
<1>2. LInv /\ [Next]_vars => LInv'
  <2> SUFFICES ASSUME LInv, [Next]_vars PROVE LInv'
    OBVIOUS
  <2>1. CASE TryRfc5424
    BY <2>1, Rfc5424Step
  <2>2. CASE TryRfc3164
    BY <2>2, Rfc3164Step
  <2>3. CASE TryRsyslogDefault
    BY <2>3, RsyslogStep
  <2>4. CASE WholeLine
    BY <2>4, WholeStep
  <2>5. CASE StripBody
    BY <2>5, StripStepKeeps
  <2>6. CASE InferBody
    BY <2>6, InferStepKeeps
  <2>7. CASE EntryToLog
    BY <2>7, JournalStep
  <2>8. CASE UNCHANGED vars
    BY <2>8 DEF vars, LInv, Found, Inferred, Stated
  <2> QED
    BY <2>1, <2>2, <2>3, <2>4, <2>5, <2>6, <2>7, <2>8 DEF Next
<1> QED
  BY <1>1, <1>2, PTL DEF Spec

(* StripsSequences: what remains of a message in the body of its entry is  *)
(* the reference's plain text, in every format and for every message.      *)
THEOREM StripsSequencesTheorem ==
    Spec => []StripsSequences
<1>1. LInv => StripsSequences
  <2> SUFFICES ASSUME LInv, phase \in {"infer", "done"}, ValidUtf8(PlainText(sent.text))
               PROVE  entry.body = PlainText(sent.text)
    BY DEF StripsSequences
  <2>1. sent.text \in Seq(Tokens)
    BY SentIs DEF LInv
  <2>2. StripAnsi(sent.text) = PlainText(sent.text)
    BY <2>1, StripIsReference DEF StripAnsi
  <2>3. entry.body = StripAnsi(sent.text)
    BY DEF LInv, Found, Unparsed, Entry
  <2> QED
    BY <2>2, <2>3
<1> QED
  BY <1>1, LineInvariant, PTL

-----------------------------------------------------------------------------
(* The severity tracing writes.                                            *)

(* The k-th word, if there is one, goes from its start to the next space.  *)
WordFrom(s, k, b, e) ==
    /\ b \in 1 .. Len(s) /\ e \in b + 1 .. Len(s) + 1 /\ WordAt(s, k, b) /\ b \in WordStarts(s)
    /\ \A x \in b .. e - 1 : s[x] # "sp"
    /\ e <= Len(s) => s[e] = "sp"
    /\ Word(s, k) \in Seq(Tokens) /\ Len(Word(s, k)) = e - b
    /\ \A j \in 1 .. e - b : Word(s, k)[j] = s[b + j - 1]

LEMMA WordBounds ==
    ASSUME NEW s \in Seq(Tokens), NEW k \in Nat \ {0}, Word(s, k) # <<>>
    PROVE  \E b, e : WordFrom(s, k, b, e)
<1>1. DOMAIN s = 1 .. Len(s) /\ Len(s) \in Nat
  BY LenProperties
<1>2. WordStarts(s) \in SUBSET (1 .. Len(s)) /\ Cardinality(WordStarts(s)) \in Nat
  <2>1. WordStarts(s) \subseteq 1 .. Len(s)
    BY <1>1 DEF WordStarts
  <2> QED
    BY <1>1, <2>1, CountAll
<1> DEFINE c == Cardinality(WordStarts(s))
<1>3. ~(k > c)
  BY DEF Word, Absent
<1>4. k \in 1 .. c
  BY <1>2, <1>3
<1>5. PICK b \in WordStarts(s) : Count(WordStarts(s), b) = k
  BY <1>1, <1>2, <1>4, NthExists
<1> DEFINE S == {i \in Spaces(s) : i > b}
           e == FirstOf(s, S)
<1>6. b = Nth(WordStarts(s), k) /\ WordAt(s, k, b)
  <2>1. WordStarts(s) \subseteq Nat
    BY <1>2
  <2> QED
    BY <1>5, <2>1, NthIs DEF WordAt, IsNth
<1>7. Word(s, k) = SubSeq(s, b, e - 1)
  BY <1>3, <1>6 DEF Word
<1>8. b \in 1 .. Len(s)
  BY <1>2
<1>9. e \in S \cup {Len(s) + 1} /\ \A y \in S \cup {Len(s) + 1} : e <= y
  <2>1. S \cup {Len(s) + 1} \subseteq Nat /\ S \cup {Len(s) + 1} # {}
    BY <1>1, <1>8 DEF Spaces
  <2> HIDE DEF S
  <2> QED
    BY <2>1, LeastType DEF FirstOf
<1> HIDE DEF e
<1>10. e \in b + 1 .. Len(s) + 1 /\ (e <= Len(s) => s[e] = "sp")
  BY <1>1, <1>8, <1>9 DEF Spaces
<1>11. ASSUME NEW x \in b .. e - 1
       PROVE  s[x] # "sp"
  <2>1. x \in Nat /\ x < e /\ x \in 1 .. Len(s)
    BY <1>1, <1>8, <1>10
  <2>2. x \notin S
    BY <1>9, <1>10, <2>1
  <2>3. CASE x = b
    BY <1>8, <2>3, StartIs
  <2>4. CASE x # b
    <3>1. x > b
      BY <1>8, <2>4
    <3> QED
      BY <1>1, <2>1, <2>2, <3>1 DEF Spaces
  <2> QED
    BY <2>3, <2>4
<1> HIDE DEF S
<1>12. b \in Nat \ {0} /\ e - 1 \in Nat /\ e - 1 <= Len(s) /\ b <= (e - 1) + 1 /\ (e - 1) - b + 1 = e - b
  BY <1>1, <1>8, <1>10
<1> DEFINE n == e - 1
           r == SubSeq(s, b, n)
<1>13. r \in Seq(Tokens) /\ Len(r) = n - b + 1 /\ \A i \in 1 .. n - b + 1 : r[i] = s[b + i - 1]
  BY <1>12, PartIs
<1>14. n - b + 1 = e - b /\ r = Word(s, k)
  BY <1>7, <1>12
<1> HIDE DEF n, r
<1>15. Word(s, k) \in Seq(Tokens) /\ Len(Word(s, k)) = e - b /\ \A i \in 1 .. e - b : Word(s, k)[i] = s[b + i - 1]
  BY <1>13, <1>14
<1> QED
  BY <1>5, <1>6, <1>8, <1>10, <1>11, <1>15 DEF WordFrom

(* What a word holds stands in the text.                                   *)
LEMMA WordHolds ==
    ASSUME NEW s \in Seq(Tokens), NEW k \in Nat \ {0}, NEW b, NEW e, WordFrom(s, k, b, e),
           NEW t \in Range(Word(s, k))
    PROVE  \E x \in b .. e - 1 : s[x] = t
<1>1. Len(s) \in Nat
  BY LenProperties
<1>2. b \in Nat /\ e \in Nat /\ b < e
  BY <1>1 DEF WordFrom
<1>3. Word(s, k) \in Seq(Tokens) /\ Len(Word(s, k)) = e - b
  BY DEF WordFrom
<1>4. DOMAIN Word(s, k) = 1 .. e - b
  BY <1>3, LenProperties
<1>5. PICK j \in 1 .. e - b : Word(s, k)[j] = t
  BY <1>4 DEF Range
<1>6. s[b + j - 1] = t /\ b + j - 1 \in b .. e - 1
  BY <1>2, <1>5 DEF WordFrom
<1> QED
  BY <1>6

(* In front of a place that is no space a word starts, with no space       *)
(* between.                                                                *)
LEMMA StartBefore ==
    ASSUME NEW s \in Seq(Tokens), NEW y \in 1 .. Len(s), s[y] # "sp"
    PROVE  \E x \in 1 .. y : x \in WordStarts(s) /\ \A z \in x .. y : s[z] # "sp"
<1> DEFINE T == {x \in 1 .. y : \A z \in x .. y : s[z] # "sp"}
<1>1. y \in Nat /\ y >= 1 /\ Len(s) \in Nat /\ y <= Len(s)
  BY LenProperties
<1>2. T \subseteq Nat /\ y \in T
  <2>1. \A z \in y .. y : z = y
    BY <1>1
  <2> QED
    BY <1>1, <2>1
<1>3. PICK x \in T : \A v \in T : ~(v < x)
  BY <1>2, Minimum
<1>4. x \in 1 .. y /\ x \in 1 .. Len(s) /\ (\A z \in x .. y : s[z] # "sp") /\ x \in x .. y
  BY <1>1, <1>3
<1>5. ASSUME x # 1
      PROVE  s[x - 1] = "sp"
  <2> SUFFICES ASSUME s[x - 1] # "sp" PROVE FALSE
    OBVIOUS
  <2>1. x - 1 \in 1 .. y /\ x - 1 < x
    BY <1>4, <1>5
  <2>2. \A z \in x - 1 .. y : z = x - 1 \/ z \in x .. y
    BY <1>4
  <2>3. x - 1 \in T
    BY <1>4, <2>1, <2>2
  <2> QED
    BY <1>3, <2>1, <2>3
<1>6. x \in WordStarts(s)
  BY <1>4, <1>5, StartIs
<1> QED
  BY <1>4, <1>6

(* No word starts before the first, and none between the first two.        *)
LEMMA StartsApart ==
    ASSUME NEW s \in Seq(Tokens), NEW i, NEW j, WordAt(s, 1, i), WordAt(s, 2, j),
           i \in WordStarts(s), j \in WordStarts(s), NEW x \in WordStarts(s), x < j
    PROVE  x = i /\ i < j
<1>1. WordStarts(s) \subseteq Nat
  BY LenProperties DEF WordStarts
<1>2. x \in Nat /\ i \in Nat /\ j \in Nat /\ Count(WordStarts(s), i) = 1 /\ Count(WordStarts(s), j) = 2
  BY <1>1 DEF WordAt, IsNth
<1>3. Count(WordStarts(s), x) \in Nat /\ Count(WordStarts(s), x) < 2
  BY <1>1, <1>2, CountGrows, CountType
<1>4. ~(x < i)
  <2> SUFFICES ASSUME x < i PROVE FALSE
    OBVIOUS
  <2>1. Count(WordStarts(s), x) = 0
    BY <1>1, <1>2, <1>3, CountGrows
  <2>2. 0 < Count(WordStarts(s), x)
    <3>1. \A v \in WordStarts(s) : v > 0
      BY LenProperties DEF WordStarts
    <3>2. Count(WordStarts(s), 0) = 0
      BY <3>1, <1>1, CountNone
    <3>3. Count(WordStarts(s), 0) < Count(WordStarts(s), x)
      BY <1>1, <1>2, <3>1, CountGrows
    <3> QED
      BY <3>2, <3>3
  <2> QED
    BY <1>3, <2>1, <2>2
<1>5. ~(i < x)
  BY <1>1, <1>2, <1>3, CountGrows
<1> QED
  BY <1>2, <1>4, <1>5

LEMMA LevelIs ==
    ASSUME NEW w, \A l \in Levels : w # <<l>>
    PROVE  LevelSeverity(w) = "none"
BY DEF LevelSeverity, Levels

(* A severity is inferred only from a level behind what may be a time.     *)
LEMMA InferredBehindTime ==
    ASSUME NEW s \in Seq(Tokens), InferSeverity(s) # "none"
    PROVE  \E i \in DOMAIN s : LevelBehindTime(s, i) /\ InferSeverity(s) = LevelSeverity(<<s[i]>>)
<1>1. DOMAIN s = 1 .. Len(s) /\ Len(s) \in Nat
  BY LenProperties
<1>2. /\ Range(Word(s, 1)) \cap WithT # {} /\ Range(Word(s, 1)) \cap WithColon # {}
      /\ InferSeverity(s) = LevelSeverity(Word(s, 2))
  BY DEF InferSeverity, LooksLikeTime
<1>3. PICK l \in Levels : Word(s, 2) = <<l>>
  BY <1>2, LevelIs
<1>4. Word(s, 1) # <<>> /\ Word(s, 2) # <<>> /\ 1 \in Nat \ {0} /\ 2 \in Nat \ {0}
  <2>1. Len(<<l>>) = 1 /\ Len(<<>>) = 0 /\ Range(<<>>) = {}
    BY DEF Range
  <2> QED
    BY <1>2, <1>3, <2>1
<1>5. PICK b, e : WordFrom(s, 1, b, e)
  BY <1>4, WordBounds
<1>6. PICK i, f : WordFrom(s, 2, i, f)
  BY <1>4, WordBounds
<1>7. i \in 1 .. Len(s) /\ f = i + 1 /\ s[i] = l /\ (i < Len(s) => s[i + 1] = "sp")
  <2>1. i \in 1 .. Len(s) /\ f \in i + 1 .. Len(s) + 1 /\ Len(Word(s, 2)) = f - i
        /\ (f <= Len(s) => s[f] = "sp")
    BY <1>6 DEF WordFrom
  <2>2. Len(<<l>>) = 1
    OBVIOUS
  <2>3. f = i + 1
    <3>1. i \in Nat /\ f \in Nat
      BY <1>1, <2>1
    <3>2. Len(Word(s, 2)) = 1
      BY <1>3, <2>2
    <3>3. f - i = 1
      BY <2>1, <3>2
    <3> QED
      BY <3>1, <3>3
  <2>4. PICK x \in i .. f - 1 : s[x] = l
    <3>1. DOMAIN <<l>> = 1 .. 1 /\ 1 \in 1 .. 1
      OBVIOUS
    <3>2. l \in Range(Word(s, 2))
      BY <1>3, <3>1 DEF Range
    <3> QED
      BY <1>4, <1>6, <3>2, WordHolds
  <2>5. x = i
    BY <1>1, <2>1, <2>3
  <2> QED
    BY <1>1, <2>1, <2>3, <2>4, <2>5
<1>8. b \in 1 .. Len(s) /\ e \in b + 1 .. Len(s) + 1 /\ b \in WordStarts(s) /\ i \in WordStarts(s)
      /\ WordAt(s, 1, b) /\ WordAt(s, 2, i) /\ (\A x \in b .. e - 1 : s[x] # "sp")
  BY <1>5, <1>6 DEF WordFrom
<1>9. b < i
  <2>1. WordStarts(s) \subseteq Nat /\ Count(WordStarts(s), b) = 1 /\ Count(WordStarts(s), i) = 2
    BY <1>1, <1>8 DEF WordStarts, WordAt, IsNth
  <2>2. b # i
    BY <2>1
  <2>3. ~(i < b)
    BY <2>1, <1>7, <1>8, CountGrows
  <2> QED
    BY <1>7, <1>8, <2>2, <2>3
<1>10. i > 1 /\ s[i - 1] = "sp" /\ s[i] # "sp"
  BY <1>7, <1>8, <1>9, StartIs
<1>11. e <= i
  <2> SUFFICES ASSUME ~(e <= i) PROVE FALSE
    OBVIOUS
  <2>1. i - 1 \in b .. e - 1
    BY <1>1, <1>7, <1>8, <1>9
  <2> QED
    BY <1>8, <1>10, <2>1
<1> DEFINE word == {j \in 1 .. i - 1 : s[j] # "sp"}
<1>12. ASSUME NEW t, t \in Range(Word(s, 1))
       PROVE  \E j \in word : s[j] = t
  <2>1. PICK j \in b .. e - 1 : s[j] = t
    BY <1>4, <1>5, <1>12, WordHolds
  <2>2. j \in 1 .. i - 1 /\ s[j] # "sp"
    BY <1>1, <1>7, <1>8, <1>11
  <2> QED
    BY <2>1, <2>2
<1>13. ASSUME NEW j \in word, NEW k \in word, NEW x \in j .. k
       PROVE  x \in word
  <2>1. j \in 1 .. Len(s) /\ k \in 1 .. Len(s) /\ x \in 1 .. i - 1 /\ k < i
    BY <1>1, <1>7
  <2>2. PICK p \in 1 .. j : p \in WordStarts(s) /\ \A z \in p .. j : s[z] # "sp"
    BY <2>1, StartBefore
  <2>3. PICK q \in 1 .. k : q \in WordStarts(s) /\ \A z \in q .. k : s[z] # "sp"
    BY <2>1, StartBefore
  <2>4. p < i /\ q < i
    BY <1>7, <2>1, <2>2, <2>3
  <2>5. p = b /\ q = b
    BY <1>8, <2>2, <2>3, <2>4, StartsApart
  <2>6. x \in q .. k
    BY <2>1, <2>2, <2>3, <2>5
  <2> QED
    BY <2>1, <2>3, <2>6
<1>14. (\E j \in word : s[j] \in WithT) /\ (\E j \in word : s[j] \in WithColon)
  BY <1>2, <1>12
<1>15. LevelBehindTime(s, i)
  BY <1>7, <1>10, <1>13, <1>14 DEF LevelBehindTime
<1> QED
  BY <1>1, <1>2, <1>3, <1>7, <1>15

(* What is left of a text is a text.                                       *)
LEMMA PlainTokens ==
    ASSUME NEW s \in Seq(Tokens)
    PROVE  StripAnsi(s) \in Seq(Tokens)
<1> DEFINE S == {i \in DOMAIN s : \A j \in Starts(s) : ~(j <= i /\ i <= Reach(s, j))}
<1>1. S \in SUBSET (1 .. Len(s))
  BY LenProperties
<1>2. Skipped(s) = Pick(s, S)
  BY StripIsReference DEF PlainText
<1> HIDE DEF S
<1>3. Skipped(s) \in Seq(Tokens)
  BY <1>1, <1>2, PickType
<1> QED
  BY <1>3 DEF StripAnsi

(* A word of one token.                                                    *)
LEMMA ShortWordIs ==
    ASSUME NEW s \in Seq(Tokens), NEW k \in Nat \ {0}, NEW i \in Nat, WordAt(s, k, i),
           NEW e \in 1 .. Len(s), e = i + 1, s[e] = "sp"
    PROVE  Word(s, k) = SubSeq(s, i, i)
<1>1. i < e /\ e - 1 = i /\ \A x \in i + 1 .. e - 1 : s[x] # "sp"
  OBVIOUS
<1>2. Word(s, k) = SubSeq(s, i, e - 1)
  BY <1>1, WordIs
<1> QED
  BY <1>1, <1>2

(* A time stamp, spaces and a word.                                        *)
LEMMA SecondWord ==
    ASSUME NEW s \in Seq(Tokens), NEW c \in {3, 4}, c + 1 <= Len(s),
           s[1] = "ts", \A i \in 2 .. c - 1 : s[i] = "sp", s[c] # "sp", s[c + 1] = "sp"
    PROVE  Word(s, 1) = <<"ts">> /\ Word(s, 2) = <<s[c]>>
<1>1. Len(s) \in Nat /\ c \in Nat
  BY LenProperties
<1>2. /\ 1 \in 1 .. Len(s) /\ 2 \in 1 .. Len(s) /\ c \in 1 .. Len(s) /\ c - 1 \in 1 .. Len(s)
      /\ c + 1 \in 1 .. Len(s) /\ c - 1 \in 2 .. c - 1 /\ 2 \in 2 .. c - 1
      /\ \A i \in 2 .. c - 1 : i \in 1 .. Len(s)
  BY <1>1
<1>3. s[2] = "sp" /\ s[c - 1] = "sp"
  BY <1>2
<1>4. WordAt(s, 1, 1)
  <2>1. WordAt(s, 0, 0)
    BY WordFirst
  <2>2. 1 \in WordStarts(s)
    <3>1. s[1] # "sp"
      OBVIOUS
    <3> QED
      BY <1>2, <3>1, StartIs
  <2>3. 0 \in Nat /\ 0 < 1 /\ 0 + 1 = 1 /\ \A i \in 0 + 1 .. 1 - 1 : i \notin WordStarts(s)
    OBVIOUS
  <2> QED
    BY <1>2, <2>1, <2>2, <2>3, WordNext
<1>5. WordAt(s, 2, c)
  <2>1. c \in WordStarts(s)
    BY <1>2, <1>3, StartIs
  <2>2. \A i \in 2 .. c - 1 : i \notin WordStarts(s)
    BY <1>2, NoStart
  <2>3. 1 \in Nat /\ 1 < c /\ 1 + 1 = 2
    BY <1>1
  <2>4. \A i \in 1 + 1 .. c - 1 : i \notin WordStarts(s)
    BY <2>2, <2>3
  <2> QED
    BY <1>2, <1>4, <2>1, <2>3, <2>4, WordNext
<1>6. Word(s, 1) = SubSeq(s, 1, 1)
  <2>1. ASSUME NEW e \in 1 .. Len(s), e = 2 PROVE Word(s, 1) = SubSeq(s, 1, e - 1)
    <3>1. 1 \in Nat \ {0} /\ 1 < e /\ s[e] = "sp" /\ \A i \in 1 + 1 .. e - 1 : s[i] # "sp"
      BY <1>3, <2>1
    <3> QED
      BY <1>4, <3>1, WordIs
  <2>2. 2 - 1 = 1
    OBVIOUS
  <2> QED
    BY <1>2, <2>1, <2>2
<1>7. Word(s, 2) = SubSeq(s, c, c)
  <2> DEFINE e == c + 1
  <2>1. e = c + 1 /\ e \in 1 .. Len(s) /\ s[e] = "sp" /\ c \in Nat
    BY <1>1, <1>2
  <2> HIDE DEF e
  <2> QED
    BY <1>5, <2>1, ShortWordIs
<1> QED
  BY <1>2, <1>6, <1>7, OneToken

(* What the loop has done after i bytes.                                   *)
ScanAt(s, i, mode, out) == Scan(s)[i] = [mode |-> mode, out |-> out]

LEMMA ScanNext ==
    ASSUME NEW s \in Seq(Tokens), NEW i, NEW j \in 1 .. Len(s), i = j - 1, NEW o
    PROVE  /\ ScanAt(s, i, "text", o) /\ s[j] \notin {"esc", "#"} => ScanAt(s, j, "text", Append(o, s[j]))
           /\ ScanAt(s, i, "text", o) /\ s[j] = "esc" => ScanAt(s, j, "escape", o)
           /\ ScanAt(s, i, "escape", o) /\ s[j] = "[" => ScanAt(s, j, "csi", o)
           /\ ScanAt(s, i, "csi", o) /\ s[j] \notin Letters => ScanAt(s, j, "csi", o)
           /\ ScanAt(s, i, "csi", o) /\ s[j] \in Letters => ScanAt(s, j, "text", o)
<1>1. Scan(s)[j] = StripStep(s, Scan(s)[i], j)
  BY ScanIs DEF Scanning
<1> DEFINE a == Scan(s)[i]
           b == Scan(s)[j]
<1>2. b = StripStep(s, a, j)
  BY <1>1
<1> HIDE DEF a, b
<1>3. ASSUME a = [mode |-> "text", out |-> o], s[j] \notin {"esc", "#"}
      PROVE  b = [mode |-> "text", out |-> Append(o, s[j])]
  <2>1. a.mode = "text" /\ a.out = o /\ a = [mode |-> a.mode, out |-> a.out]
    BY <1>3
  <2>2. ~Introduced(s, j)
    BY <1>3 DEF Introduced
  <2> QED
    BY <1>2, <2>1, <2>2, StripStepIs
<1>4. ASSUME a = [mode |-> "text", out |-> o], s[j] = "esc"
      PROVE  b = [mode |-> "escape", out |-> o]
  <2>1. a.mode = "text" /\ a.out = o /\ a = [mode |-> a.mode, out |-> a.out]
    BY <1>4
  <2> QED
    BY <1>2, <1>4, <2>1, StripStepIs
<1>5. ASSUME a = [mode |-> "escape", out |-> o], s[j] = "["
      PROVE  b = [mode |-> "csi", out |-> o]
  <2>1. a.mode = "escape" /\ a.out = o /\ a = [mode |-> a.mode, out |-> a.out]
    BY <1>5
  <2> QED
    BY <1>2, <1>5, <2>1, StripStepIs
<1>6. ASSUME a = [mode |-> "csi", out |-> o]
      PROVE  b = [mode |-> IF s[j] \in Letters THEN "text" ELSE "csi", out |-> o]
  <2>1. a.mode = "csi" /\ a.out = o /\ a = [mode |-> a.mode, out |-> a.out]
    BY <1>6
  <2> QED
    BY <1>2, <2>1, StripStepIs
<1> QED
  BY <1>3, <1>4, <1>5, <1>6 DEF ScanAt, a, b

(* The loop in the text, with n bytes kept.                                *)
Kept(s, i, n, o) == ScanAt(s, i, "text", o) /\ o \in Seq(Tokens) /\ Len(o) = n

(* One more is kept.                                                       *)
Keeps(n, o, k, p, t) == k = n + 1 /\ p[k] = t /\ \A x \in 1 .. n : p[x] = o[x]

LEMMA KeptNext ==
    ASSUME NEW s \in Seq(Tokens), NEW i, NEW j \in 1 .. Len(s), i = j - 1, NEW n \in Nat, NEW k, k = n + 1,
           NEW o, Kept(s, i, n, o), s[j] \notin {"esc", "#"}
    PROVE  \E p : Kept(s, j, k, p) /\ Keeps(n, o, k, p, s[j])
<1>1. s[j] \in Tokens /\ o \in Seq(Tokens) /\ Len(o) = n /\ ScanAt(s, i, "text", o)
  BY ElementOfSeq DEF Kept
<1> DEFINE p == Append(o, s[j])
<1>2. p \in Seq(Tokens) /\ Len(p) = n + 1 /\ p[n + 1] = s[j] /\ \A x \in 1 .. n : p[x] = o[x]
  BY <1>1, AppendProperties
<1>3. ScanAt(s, j, "text", p)
  BY <1>1, ScanNext
<1> HIDE DEF p
<1>4. Kept(s, j, k, p) /\ Keeps(n, o, k, p, s[j])
  BY <1>2, <1>3 DEF Kept, Keeps
<1> QED
  BY <1>4

(* A colour is left out.                                                   *)
LEMMA ColourNext ==
    ASSUME NEW s \in Seq(Tokens), NEW i \in Nat, i + 4 <= Len(s), NEW j, j = i + 4, NEW n, NEW o,
           Kept(s, i, n, o), s[i + 1] = "esc", s[i + 2] = "[", s[i + 3] \notin Letters, s[i + 4] \in Letters
    PROVE  Kept(s, j, n, o)
<1>1. /\ i + 1 \in 1 .. Len(s) /\ i + 2 \in 1 .. Len(s) /\ i + 3 \in 1 .. Len(s) /\ i + 4 \in 1 .. Len(s)
      /\ i = (i + 1) - 1 /\ i + 1 = (i + 2) - 1 /\ i + 2 = (i + 3) - 1 /\ i + 3 = (i + 4) - 1
  BY LenProperties
<1>2. ScanAt(s, i, "text", o)
  BY DEF Kept
<1>3. ScanAt(s, i + 1, "escape", o)
  BY <1>1, <1>2, ScanNext
<1>4. ScanAt(s, i + 2, "csi", o)
  BY <1>1, <1>3, ScanNext
<1>5. ScanAt(s, i + 3, "csi", o)
  BY <1>1, <1>4, ScanNext
<1>6. ScanAt(s, i + 4, "text", o)
  BY <1>1, <1>5, ScanNext
<1> QED
  BY <1>6 DEF Kept

(* The body of a line of tracing is the line without its colours.          *)
LEMMA TracedStripped ==
    ASSUME NEW l \in Levels, NEW m \in Traced,
           \/ m = <<"ts", "sp", l, "sp", "m">>
           \/ m = <<"ts", "sp", "sp", l, "sp", "m">>
           \/ m = <<"ts", "esc", "[", "2", "m", "sp", "esc", "[", "3", "m", "sp", l, "sp", "m">>
    PROVE  /\ Skipped(m) \in Seq(Tokens)
           /\ \/ /\ Len(Skipped(m)) = 5
                 /\ Skipped(m)[1] = "ts" /\ Skipped(m)[2] = "sp" /\ Skipped(m)[3] = l
                 /\ Skipped(m)[4] = "sp" /\ Skipped(m)[5] = "m"
              \/ /\ Len(Skipped(m)) = 6
                 /\ Skipped(m)[1] = "ts" /\ Skipped(m)[2] = "sp" /\ Skipped(m)[3] = "sp" /\ Skipped(m)[4] = l
                 /\ Skipped(m)[5] = "sp" /\ Skipped(m)[6] = "m"
<1>1. m \in Seq(Tokens)
  BY TracedIs
<1>2. l \notin {"esc", "#"} /\ "m" \in Letters /\ "2" \notin Letters /\ "3" \notin Letters /\ "[" \notin Letters
      /\ {"ts", "sp", "m", l} \subseteq Tokens
  BY DEF Levels, Letters, Tokens
<1>3. Kept(m, 0, 0, <<>>)
  <2>1. ScanAt(m, 0, "text", <<>>)
    BY <1>1, ScanIs DEF Scanning, ScanStart, ScanAt
  <2>2. <<>> \in Seq(Tokens) /\ Len(<<>>) = 0
    OBVIOUS
  <2> QED
    BY <2>1, <2>2 DEF Kept
<1>4. ASSUME NEW n, n = Len(m), NEW k, NEW o, Kept(m, n, k, o)
      PROVE  Skipped(m) = o /\ o \in Seq(Tokens) /\ Len(o) = k
  BY <1>4 DEF Skipped, ScanAt, Kept
<1>5. CASE m = <<"ts", "sp", l, "sp", "m">>
  <2>1. Len(m) = 5 /\ m[1] = "ts" /\ m[2] = "sp" /\ m[3] = l /\ m[4] = "sp" /\ m[5] = "m"
    BY <1>5
  <2>2. PICK o1 : Kept(m, 1, 1, o1) /\ Keeps(0, <<>>, 1, o1, "ts")
    <3>1. 1 \in 1 .. Len(m) /\ 0 = 1 - 1 /\ 0 \in Nat /\ 1 = 0 + 1 /\ m[1] = "ts"
      BY <2>1
    <3> QED
      BY <1>1, <1>2, <1>3, <3>1, KeptNext
  <2>3. PICK o2 : Kept(m, 2, 2, o2) /\ Keeps(1, o1, 2, o2, "sp")
    <3>1. 2 \in 1 .. Len(m) /\ 1 = 2 - 1 /\ 1 \in Nat /\ 2 = 1 + 1 /\ m[2] = "sp"
      BY <2>1
    <3> QED
      BY <1>1, <1>2, <2>2, <3>1, KeptNext
  <2>4. PICK o3 : Kept(m, 3, 3, o3) /\ Keeps(2, o2, 3, o3, l)
    <3>1. 3 \in 1 .. Len(m) /\ 2 = 3 - 1 /\ 2 \in Nat /\ 3 = 2 + 1 /\ m[3] = l
      BY <2>1
    <3> QED
      BY <1>1, <1>2, <2>3, <3>1, KeptNext
  <2>5. PICK o4 : Kept(m, 4, 4, o4) /\ Keeps(3, o3, 4, o4, "sp")
    <3>1. 4 \in 1 .. Len(m) /\ 3 = 4 - 1 /\ 3 \in Nat /\ 4 = 3 + 1 /\ m[4] = "sp"
      BY <2>1
    <3> QED
      BY <1>1, <1>2, <2>4, <3>1, KeptNext
  <2>6. PICK o5 : Kept(m, 5, 5, o5) /\ Keeps(4, o4, 5, o5, "m")
    <3>1. 5 \in 1 .. Len(m) /\ 4 = 5 - 1 /\ 4 \in Nat /\ 5 = 4 + 1 /\ m[5] = "m"
      BY <2>1
    <3> QED
      BY <1>1, <1>2, <2>5, <3>1, KeptNext
  <2>7. o5[1] = "ts" /\ o5[2] = "sp" /\ o5[3] = l /\ o5[4] = "sp" /\ o5[5] = "m"
    BY <2>2, <2>3, <2>4, <2>5, <2>6 DEF Keeps
  <2> QED
    BY <1>4, <2>1, <2>6, <2>7
<1>6. CASE m = <<"ts", "sp", "sp", l, "sp", "m">>
  <2>1. Len(m) = 6 /\ m[1] = "ts" /\ m[2] = "sp" /\ m[3] = "sp" /\ m[4] = l /\ m[5] = "sp" /\ m[6] = "m"
    BY <1>6
  <2>2. PICK o1 : Kept(m, 1, 1, o1) /\ Keeps(0, <<>>, 1, o1, "ts")
    <3>1. 1 \in 1 .. Len(m) /\ 0 = 1 - 1 /\ 0 \in Nat /\ 1 = 0 + 1 /\ m[1] = "ts"
      BY <2>1
    <3> QED
      BY <1>1, <1>2, <1>3, <3>1, KeptNext
  <2>3. PICK o2 : Kept(m, 2, 2, o2) /\ Keeps(1, o1, 2, o2, "sp")
    <3>1. 2 \in 1 .. Len(m) /\ 1 = 2 - 1 /\ 1 \in Nat /\ 2 = 1 + 1 /\ m[2] = "sp"
      BY <2>1
    <3> QED
      BY <1>1, <1>2, <2>2, <3>1, KeptNext
  <2>4. PICK o3 : Kept(m, 3, 3, o3) /\ Keeps(2, o2, 3, o3, "sp")
    <3>1. 3 \in 1 .. Len(m) /\ 2 = 3 - 1 /\ 2 \in Nat /\ 3 = 2 + 1 /\ m[3] = "sp"
      BY <2>1
    <3> QED
      BY <1>1, <1>2, <2>3, <3>1, KeptNext
  <2>5. PICK o4 : Kept(m, 4, 4, o4) /\ Keeps(3, o3, 4, o4, l)
    <3>1. 4 \in 1 .. Len(m) /\ 3 = 4 - 1 /\ 3 \in Nat /\ 4 = 3 + 1 /\ m[4] = l
      BY <2>1
    <3> QED
      BY <1>1, <1>2, <2>4, <3>1, KeptNext
  <2>6. PICK o5 : Kept(m, 5, 5, o5) /\ Keeps(4, o4, 5, o5, "sp")
    <3>1. 5 \in 1 .. Len(m) /\ 4 = 5 - 1 /\ 4 \in Nat /\ 5 = 4 + 1 /\ m[5] = "sp"
      BY <2>1
    <3> QED
      BY <1>1, <1>2, <2>5, <3>1, KeptNext
  <2>7. PICK o6 : Kept(m, 6, 6, o6) /\ Keeps(5, o5, 6, o6, "m")
    <3>1. 6 \in 1 .. Len(m) /\ 5 = 6 - 1 /\ 5 \in Nat /\ 6 = 5 + 1 /\ m[6] = "m"
      BY <2>1
    <3> QED
      BY <1>1, <1>2, <2>6, <3>1, KeptNext
  <2>8. o6[1] = "ts" /\ o6[2] = "sp" /\ o6[3] = "sp" /\ o6[4] = l /\ o6[5] = "sp" /\ o6[6] = "m"
    BY <2>2, <2>3, <2>4, <2>5, <2>6, <2>7 DEF Keeps
  <2> QED
    BY <1>4, <2>1, <2>7, <2>8
<1>7. CASE m = <<"ts", "esc", "[", "2", "m", "sp", "esc", "[", "3", "m", "sp", l, "sp", "m">>
  <2>1. Len(m) = 14 /\ m[1] = "ts" /\ m[2] = "esc" /\ m[3] = "[" /\ m[4] = "2" /\ m[5] = "m"
        /\ m[6] = "sp" /\ m[7] = "esc" /\ m[8] = "[" /\ m[9] = "3" /\ m[10] = "m"
        /\ m[11] = "sp" /\ m[12] = l /\ m[13] = "sp" /\ m[14] = "m"
    BY <1>7
  <2>2. PICK o1 : Kept(m, 1, 1, o1) /\ Keeps(0, <<>>, 1, o1, "ts")
    <3>1. 1 \in 1 .. Len(m) /\ 0 = 1 - 1 /\ 0 \in Nat /\ 1 = 0 + 1 /\ m[1] = "ts"
      BY <2>1
    <3> QED
      BY <1>1, <1>2, <1>3, <3>1, KeptNext
  <2>3. Kept(m, 5, 1, o1)
    <3>1. 1 \in Nat /\ 1 + 4 <= Len(m) /\ 5 = 1 + 4 /\ m[1 + 1] = "esc" /\ m[1 + 2] = "[" /\ m[1 + 3] = "2" /\ m[1 + 4] = "m"
      BY <2>1
    <3> QED
      BY <1>1, <1>2, <2>2, <3>1, ColourNext
  <2>4. PICK o2 : Kept(m, 6, 2, o2) /\ Keeps(1, o1, 2, o2, "sp")
    <3>1. 6 \in 1 .. Len(m) /\ 5 = 6 - 1 /\ 1 \in Nat /\ 2 = 1 + 1 /\ m[6] = "sp"
      BY <2>1
    <3> QED
      BY <1>1, <1>2, <2>3, <3>1, KeptNext
  <2>5. Kept(m, 10, 2, o2)
    <3>1. 6 \in Nat /\ 6 + 4 <= Len(m) /\ 10 = 6 + 4 /\ m[6 + 1] = "esc" /\ m[6 + 2] = "[" /\ m[6 + 3] = "3" /\ m[6 + 4] = "m"
      BY <2>1
    <3> QED
      BY <1>1, <1>2, <2>4, <3>1, ColourNext
  <2>6. PICK o3 : Kept(m, 11, 3, o3) /\ Keeps(2, o2, 3, o3, "sp")
    <3>1. 11 \in 1 .. Len(m) /\ 10 = 11 - 1 /\ 2 \in Nat /\ 3 = 2 + 1 /\ m[11] = "sp"
      BY <2>1
    <3> QED
      BY <1>1, <1>2, <2>5, <3>1, KeptNext
  <2>7. PICK o4 : Kept(m, 12, 4, o4) /\ Keeps(3, o3, 4, o4, l)
    <3>1. 12 \in 1 .. Len(m) /\ 11 = 12 - 1 /\ 3 \in Nat /\ 4 = 3 + 1 /\ m[12] = l
      BY <2>1
    <3> QED
      BY <1>1, <1>2, <2>6, <3>1, KeptNext
  <2>8. PICK o5 : Kept(m, 13, 5, o5) /\ Keeps(4, o4, 5, o5, "sp")
    <3>1. 13 \in 1 .. Len(m) /\ 12 = 13 - 1 /\ 4 \in Nat /\ 5 = 4 + 1 /\ m[13] = "sp"
      BY <2>1
    <3> QED
      BY <1>1, <1>2, <2>7, <3>1, KeptNext
  <2>9. PICK o6 : Kept(m, 14, 6, o6) /\ Keeps(5, o5, 6, o6, "m")
    <3>1. 14 \in 1 .. Len(m) /\ 13 = 14 - 1 /\ 5 \in Nat /\ 6 = 5 + 1 /\ m[14] = "m"
      BY <2>1
    <3> QED
      BY <1>1, <1>2, <2>8, <3>1, KeptNext
  <2>10. o6[1] = "ts" /\ o6[2] = "sp" /\ o6[3] = "sp" /\ o6[4] = l /\ o6[5] = "sp" /\ o6[6] = "m"
    BY <2>2, <2>3, <2>4, <2>5, <2>6, <2>7, <2>8, <2>9 DEF Keeps
  <2>11. Skipped(m) = o6 /\ o6 \in Seq(Tokens) /\ Len(o6) = 6
    <3>1. ASSUME NEW n, n = 14 PROVE n = Len(m)
      BY <2>1, <3>1
    <3> QED
      BY <1>4, <2>9, <3>1
  <2> QED
    BY <2>10, <2>11
<1> QED
  BY <1>5, <1>6, <1>7

(* Tracing's level, in the line and as it is inferred from the body.       *)
LEMMA TracedSeverity ==
    ASSUME NEW m \in Traced
    PROVE  \E l \in Levels :
              /\ InferSeverity(StripAnsi(m)) = LevelSeverity(<<l>>)
              /\ \E i \in 1 .. Len(m) : m[i] = l
<1>1. PICK l \in Levels :
         \/ m = <<"ts", "sp", l, "sp", "m">>
         \/ m = <<"ts", "sp", "sp", l, "sp", "m">>
         \/ m = <<"ts", "esc", "[", "2", "m", "sp", "esc", "[", "3", "m", "sp", l, "sp", "m">>
  BY TracedIs
<1> DEFINE s == Skipped(m)
<1>2. /\ s \in Seq(Tokens)
      /\ \/ Len(s) = 5 /\ s[1] = "ts" /\ s[2] = "sp" /\ s[3] = l /\ s[4] = "sp" /\ s[5] = "m"
         \/ /\ Len(s) = 6 /\ s[1] = "ts" /\ s[2] = "sp" /\ s[3] = "sp" /\ s[4] = l /\ s[5] = "sp" /\ s[6] = "m"
  BY <1>1, TracedStripped
<1>3. l \notin {"sp", "hi", "lo"} /\ "ts" \notin {"hi", "lo"} /\ "m" \notin {"hi", "lo"}
  BY DEF Levels
<1>4. \E i \in 1 .. Len(m) : m[i] = l
  <2>1. CASE m = <<"ts", "sp", l, "sp", "m">>
    <3>1. Len(m) = 5 /\ m[3] = l
      BY <2>1
    <3> QED
      BY <3>1
  <2>2. CASE m = <<"ts", "sp", "sp", l, "sp", "m">>
    <3>1. Len(m) = 6 /\ m[4] = l
      BY <2>2
    <3> QED
      BY <3>1
  <2>3. CASE m = <<"ts", "esc", "[", "2", "m", "sp", "esc", "[", "3", "m", "sp", l, "sp", "m">>
    <3>1. Len(m) = 14 /\ m[12] = l
      BY <2>3
    <3> QED
      BY <3>1
  <2> QED
    BY <1>1, <2>1, <2>2, <2>3
<1> HIDE DEF s
<1>7. Len(s) \in Nat /\ DOMAIN s = 1 .. Len(s)
  BY <1>2, LenProperties
<1>8. StripAnsi(m) = s
  <2>1. \A i \in DOMAIN s : s[i] # "hi" /\ s[i] # "lo"
    <3>1. CASE Len(s) = 5
      <4>1. \A i \in DOMAIN s : i \in {1, 2, 3, 4, 5}
        BY <1>7, <3>1
      <4> QED
        BY <1>2, <1>3, <3>1, <4>1
    <3>2. CASE Len(s) = 6
      <4>1. \A i \in DOMAIN s : i \in {1, 2, 3, 4, 5, 6}
        BY <1>7, <3>2
      <4> QED
        BY <1>2, <1>3, <3>2, <4>1
    <3> QED
      BY <1>2, <3>1, <3>2
  <2>2. ValidUtf8(s)
    BY <2>1 DEF ValidUtf8
  <2> QED
    BY <2>2 DEF StripAnsi, s
<1>9. Word(s, 1) = <<"ts">> /\ Word(s, 2) = <<l>>
  <2>1. CASE Len(s) = 5
    <3>1. ASSUME NEW c \in {3, 4}, c = 3 PROVE Word(s, 1) = <<"ts">> /\ Word(s, 2) = <<s[c]>>
      <4>1. c + 1 = 4 /\ \A i \in 2 .. c - 1 : i = 2
        BY <3>1
      <4>2. c + 1 <= Len(s) /\ s[1] = "ts" /\ (\A i \in 2 .. c - 1 : s[i] = "sp") /\ s[c] # "sp" /\ s[c + 1] = "sp"
        BY <1>2, <1>3, <2>1, <3>1, <4>1
      <4> QED
        BY <1>2, <4>2, SecondWord
    <3> QED
      BY <1>2, <2>1, <3>1
  <2>2. CASE Len(s) = 6
    <3>1. ASSUME NEW c \in {3, 4}, c = 4 PROVE Word(s, 1) = <<"ts">> /\ Word(s, 2) = <<s[c]>>
      <4>1. c + 1 = 5 /\ \A i \in 2 .. c - 1 : i = 2 \/ i = 3
        BY <3>1
      <4>2. c + 1 <= Len(s) /\ s[1] = "ts" /\ (\A i \in 2 .. c - 1 : s[i] = "sp") /\ s[c] # "sp" /\ s[c + 1] = "sp"
        BY <1>2, <1>3, <2>2, <3>1, <4>1
      <4> QED
        BY <1>2, <4>2, SecondWord
    <3> QED
      BY <1>2, <2>2, <3>1
  <2> QED
    BY <1>2, <2>1, <2>2
<1>10. InferSeverity(StripAnsi(m)) = LevelSeverity(<<l>>)
  <2>1. Range(<<"ts">>) = {"ts"}
    <3>1. DOMAIN <<"ts">> = {1} /\ <<"ts">>[1] = "ts"
      OBVIOUS
    <3> QED
      BY <3>1 DEF Range
  <2>2. LooksLikeTime(<<"ts">>)
    BY <2>1 DEF LooksLikeTime, WithT, WithColon
  <2> QED
    BY <1>8, <1>9, <2>2 DEF InferSeverity
<1> QED
  BY <1>4, <1>10

(* OriginKept: whatever a message holds, and in every format, the entry    *)
(* has the severity, the host, the program and the process the line        *)
(* states; a severity that is inferred is tracing's level, or stands as a  *)
(* level behind what may be a time.                                        *)
THEOREM OriginKeptTheorem ==
    Spec => []OriginKept
<1>1. LInv => OriginKept
  <2> SUFFICES ASSUME LInv, phase = "done", entry.body # <<>>
               PROVE  OriginKept
    BY DEF OriginKept
  <2>1. /\ sent \in Sent /\ entry = Found(sent, StripAnsi(sent.text), Inferred(sent))
        /\ entry.severity = Inferred(sent) /\ entry.body = StripAnsi(sent.text)
    BY DEF LInv, Unparsed, Entry, Found
  <2>2. Stated(sent) # "none" \/ sent.format = "journal" => entry.severity = Stated(sent)
    BY <2>1 DEF Inferred
  <2>3. ASSUME Stated(sent) = "none", sent.format # "journal"
        PROVE  entry.severity = InferSeverity(entry.body)
    BY <2>1, <2>3 DEF Inferred
  <2>4. ASSUME Stated(sent) = "none", sent.format # "journal", sent.text \in Traced
        PROVE  \E i \in DOMAIN sent.text :
                  sent.text[i] \in Levels /\ entry.severity = LevelSeverity(<<sent.text[i]>>)
    <3>1. PICK l \in Levels : /\ InferSeverity(StripAnsi(sent.text)) = LevelSeverity(<<l>>)
                              /\ \E i \in 1 .. Len(sent.text) : sent.text[i] = l
      BY <2>4, TracedSeverity
    <3>2. DOMAIN sent.text = 1 .. Len(sent.text)
      BY <2>1, SentIs, LenProperties
    <3> QED
      BY <2>1, <2>3, <2>4, <3>1, <3>2
  <2>5. ASSUME Stated(sent) = "none", sent.format # "journal", entry.severity # "none"
        PROVE  \E i \in DOMAIN entry.body :
                  /\ LevelBehindTime(entry.body, i)
                  /\ entry.severity = LevelSeverity(<<entry.body[i]>>)
    <3>1. entry.body \in Seq(Tokens)
      BY <2>1, SentIs, PlainTokens
    <3> QED
      BY <2>3, <2>5, <3>1, InferredBehindTime
  <2>6. sent.format # "plain" =>
           /\ entry.host = Named(<<sent.host>>) /\ entry.app = Process(sent)
           /\ entry.pid = IF sent.pid THEN <<"7">> ELSE Absent
    BY <2>1 DEF Found, Entry
  <2> QED
    BY <2>2, <2>4, <2>5, <2>6 DEF OriginKept
<1> QED
  BY <1>1, LineInvariant, PTL
=============================================================================
