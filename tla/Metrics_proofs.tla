--------------------------- MODULE Metrics_proofs ---------------------------
(***************************************************************************)
(* The metrics, for every set of streams, window, limit and number of      *)
(* faults: the invariants that Metrics states, and that numbers only grow. *)
(*                                                                         *)
(* The aggregator is made of folds over sequences and over hash maps.  The *)
(* induction that they need is won from the well-foundedness of < on the   *)
(* naturals, for a set instead of a predicate (SetInduction); a fold is    *)
(* then the last of as many results as there are elements, each made from  *)
(* the one before (FoldSamples, FoldWindows), and a sum can be taken in    *)
(* any order (PartialSums).                                                *)
(***************************************************************************)
EXTENDS Metrics, TLAPS, WellFoundedInduction, FiniteSetTheorems, SequenceTheorems

-----------------------------------------------------------------------------
(* Induction, and the folds of the aggregator.                             *)

(* A set of naturals has a least element.                                  *)
LEMMA Minimum ==
    ASSUME NEW T, T \subseteq Nat, T # {}
    PROVE  \E x \in T : \A y \in T : ~(y < x)
<1> DEFINE R == {ss \in Nat \X Nat : ss[1] < ss[2]}
<1>1. IsWellFoundedOn(OpToRel(<, Nat), Nat)
  BY NatLessThanWellFounded
<1>2. OpToRel(<, Nat) = R
  BY DEF OpToRel
<1>3. IsWellFoundedOn(R, Nat)
  BY <1>1, <1>2
<1> HIDE DEF R
<1>4. \E x \in T : \A y \in T : <<y, x>> \notin R
  BY <1>3, WFMin
<1> QED
  BY <1>4 DEF R

(* Induction over the naturals, for sets.                                  *)
LEMMA SetInduction ==
    ASSUME NEW S, 0 \in S, \A n \in Nat : n \in S => n + 1 \in S
    PROVE  Nat \subseteq S
<1> SUFFICES ASSUME Nat \ S # {} PROVE FALSE
  OBVIOUS
<1>1. PICK x \in Nat \ S : \A y \in Nat \ S : ~(y < x)
  BY Minimum
<1>2. x - 1 \in Nat
  BY <1>1
<1>3. x - 1 \in S
  BY <1>1, <1>2
<1> QED
  BY <1>1, <1>2, <1>3

(* Max, where one is known.                                                *)
LEMMA Greatest ==
    ASSUME NEW s, NEW m \in s, m \in Int, \A y \in s : y \in Int /\ y <= m
    PROVE  Max(s) = m
<1>1. m >= m /\ \A y \in s : m >= y
  OBVIOUS
<1>2. \A x \in s : (\A y \in s : x >= y) => x = m
  OBVIOUS
<1> QED
  BY <1>1, <1>2 DEF Max

Samples(start, q) == FoldLeft(IngestSample, start, q)
Ingesting(iter, start, q, n) ==
    /\ iter[{}] = start
    /\ \A k \in 1 .. n : iter[1 .. k] = IngestSample(iter[1 .. k - 1], q[k])

(* What a fold over samples computes, one step after the other.            *)
LEMMA FoldSamples ==
    ASSUME NEW start, NEW n \in Nat, NEW q, DOMAIN q = 1 .. n
    PROVE  \E iter : Samples(start, q) = iter[1 .. n] /\ Ingesting(iter, start, q, n)
<1> DEFINE Step(it, s) == IF s = {} THEN start
                          ELSE LET x == Max(s) IN IngestSample(it[s \ {x}], q[x])
           Good(it, k) == it = [s \in SUBSET (1 .. k) |-> Step(it, s)]
           S == {k \in Nat : \E it : Good(it, k)}
<1>1. 0 \in S
  <2> DEFINE it == [s \in SUBSET (1 .. 0) |-> start]
  <2>1. SUBSET (1 .. 0) = {{}}
    OBVIOUS
  <2>2. Good(it, 0)
    BY <2>1
  <2> QED
    BY <2>2
<1>2. ASSUME NEW k \in Nat, k \in S PROVE k + 1 \in S
  <2>1. PICK it : Good(it, k)
    BY <1>2
  <2> DEFINE jt == [s \in SUBSET (1 .. k + 1) |->
                      IF k + 1 \in s THEN IngestSample(it[s \ {k + 1}], q[k + 1]) ELSE it[s]]
  <2>2. ASSUME NEW s \in SUBSET (1 .. k + 1) PROVE jt[s] = Step(jt, s)
    <3>1. CASE k + 1 \in s
      <4>1. Max(s) = k + 1
        <5>1. \A y \in s : y \in Int /\ y <= k + 1
          OBVIOUS
        <5> QED
          BY <3>1, <5>1, Greatest
      <4>2. s \ {k + 1} \in SUBSET (1 .. k + 1) /\ k + 1 \notin s \ {k + 1}
        OBVIOUS
      <4>3. s \ {k + 1} \in SUBSET (1 .. k)
        OBVIOUS
      <4>4. jt[s \ {k + 1}] = it[s \ {k + 1}]
        BY <4>2
      <4>5. jt[s] = IngestSample(it[s \ {k + 1}], q[k + 1])
        BY <3>1
      <4> HIDE DEF jt
      <4> QED
        BY <3>1, <4>1, <4>4, <4>5
    <3>2. CASE k + 1 \notin s
      <4>1. s \in SUBSET (1 .. k)
        BY <3>2
      <4>2. jt[s] = it[s] /\ it[s] = Step(it, s)
        BY <2>1, <3>2, <4>1
      <4>3. s \ {Max(s)} \in SUBSET (1 .. k + 1) /\ k + 1 \notin s \ {Max(s)}
        BY <3>2
      <4>4. jt[s \ {Max(s)}] = it[s \ {Max(s)}]
        BY <4>3
      <4> HIDE DEF jt
      <4> QED
        BY <4>2, <4>4
    <3> QED
      BY <3>1, <3>2
  <2>3. jt = [s \in SUBSET (1 .. k + 1) |-> jt[s]]
    OBVIOUS
  <2> HIDE DEF jt
  <2>4. Good(jt, k + 1)
    BY <2>2, <2>3
  <2>5. k + 1 \in Nat
    OBVIOUS
  <2> QED
    BY <2>4, <2>5, Zenon
<1>3. n \in S
  <2> HIDE DEF S
  <2> QED
    BY <1>1, <1>2, SetInduction
<1> DEFINE iter == CHOOSE it : Good(it, n)
<1>4. Good(iter, n)
  BY <1>3
<1>5. Samples(start, q) = iter[1 .. n]
  BY DEF Samples, FoldLeft, MapThenFoldSet
<1> HIDE DEF iter
<1>6. iter[{}] = start
  BY <1>4
<1>7. ASSUME NEW k \in 1 .. n PROVE iter[1 .. k] = IngestSample(iter[1 .. k - 1], q[k])
  <2>1. 1 .. k \in SUBSET (1 .. n) /\ 1 .. k # {}
    <3>1. k \in 1 .. k /\ \A i \in 1 .. k : i \in 1 .. n
      OBVIOUS
    <3> HIDE DEF Step, Good
    <3> QED
      BY <3>1
  <2>2. Max(1 .. k) = k
    <3>1. k \in 1 .. k /\ k \in Int /\ \A y \in 1 .. k : y \in Int /\ y <= k
      OBVIOUS
    <3> QED
      BY <3>1, Greatest
  <2>3. (1 .. k) \ {k} = 1 .. k - 1
    OBVIOUS
  <2>4. iter[1 .. k] = Step(iter, 1 .. k)
    BY <1>4, <2>1
  <2> QED
    BY <2>1, <2>2, <2>3, <2>4
<1>8. Ingesting(iter, start, q, n)
  BY <1>6, <1>7, Zenon DEF Ingesting
<1> QED
  BY <1>5, <1>8, Zenon

Flushed(start, q) == FoldLeft(FlushWindow, start, q)
Flushing(iter, start, q, n) ==
    /\ iter[{}] = start
    /\ \A k \in 1 .. n : iter[1 .. k] = FlushWindow(iter[1 .. k - 1], q[k])

(* And one over windows that have elapsed.                                 *)
LEMMA FoldWindows ==
    ASSUME NEW start, NEW n \in Nat, NEW q, DOMAIN q = 1 .. n
    PROVE  \E iter : Flushed(start, q) = iter[1 .. n] /\ Flushing(iter, start, q, n)
<1> DEFINE Step(it, s) == IF s = {} THEN start
                          ELSE LET x == Max(s) IN FlushWindow(it[s \ {x}], q[x])
           Good(it, k) == it = [s \in SUBSET (1 .. k) |-> Step(it, s)]
           S == {k \in Nat : \E it : Good(it, k)}
<1>1. 0 \in S
  <2> DEFINE it == [s \in SUBSET (1 .. 0) |-> start]
  <2>1. SUBSET (1 .. 0) = {{}}
    OBVIOUS
  <2>2. Good(it, 0)
    BY <2>1
  <2> QED
    BY <2>2
<1>2. ASSUME NEW k \in Nat, k \in S PROVE k + 1 \in S
  <2>1. PICK it : Good(it, k)
    BY <1>2
  <2> DEFINE jt == [s \in SUBSET (1 .. k + 1) |->
                      IF k + 1 \in s THEN FlushWindow(it[s \ {k + 1}], q[k + 1]) ELSE it[s]]
  <2>2. ASSUME NEW s \in SUBSET (1 .. k + 1) PROVE jt[s] = Step(jt, s)
    <3>1. CASE k + 1 \in s
      <4>1. Max(s) = k + 1
        <5>1. \A y \in s : y \in Int /\ y <= k + 1
          OBVIOUS
        <5> QED
          BY <3>1, <5>1, Greatest
      <4>2. s \ {k + 1} \in SUBSET (1 .. k + 1) /\ k + 1 \notin s \ {k + 1}
        OBVIOUS
      <4>3. s \ {k + 1} \in SUBSET (1 .. k)
        OBVIOUS
      <4>4. jt[s \ {k + 1}] = it[s \ {k + 1}]
        BY <4>2
      <4>5. jt[s] = FlushWindow(it[s \ {k + 1}], q[k + 1])
        BY <3>1
      <4> HIDE DEF jt
      <4> QED
        BY <3>1, <4>1, <4>4, <4>5
    <3>2. CASE k + 1 \notin s
      <4>1. s \in SUBSET (1 .. k)
        BY <3>2
      <4>2. jt[s] = it[s] /\ it[s] = Step(it, s)
        BY <2>1, <3>2, <4>1
      <4>3. s \ {Max(s)} \in SUBSET (1 .. k + 1) /\ k + 1 \notin s \ {Max(s)}
        BY <3>2
      <4>4. jt[s \ {Max(s)}] = it[s \ {Max(s)}]
        BY <4>3
      <4> HIDE DEF jt
      <4> QED
        BY <4>2, <4>4
    <3> QED
      BY <3>1, <3>2
  <2>3. jt = [s \in SUBSET (1 .. k + 1) |-> jt[s]]
    OBVIOUS
  <2> HIDE DEF jt
  <2>4. Good(jt, k + 1)
    BY <2>2, <2>3
  <2>5. k + 1 \in Nat
    OBVIOUS
  <2> QED
    BY <2>4, <2>5, Zenon
<1>3. n \in S
  <2> HIDE DEF S
  <2> QED
    BY <1>1, <1>2, SetInduction
<1> DEFINE iter == CHOOSE it : Good(it, n)
<1>4. Good(iter, n)
  BY <1>3
<1>5. Flushed(start, q) = iter[1 .. n]
  BY DEF Flushed, FoldLeft, MapThenFoldSet
<1> HIDE DEF iter
<1>6. iter[{}] = start
  BY <1>4
<1>7. ASSUME NEW k \in 1 .. n PROVE iter[1 .. k] = FlushWindow(iter[1 .. k - 1], q[k])
  <2>1. 1 .. k \in SUBSET (1 .. n) /\ 1 .. k # {}
    <3>1. k \in 1 .. k /\ \A i \in 1 .. k : i \in 1 .. n
      OBVIOUS
    <3> HIDE DEF Step, Good
    <3> QED
      BY <3>1
  <2>2. Max(1 .. k) = k
    <3>1. k \in 1 .. k /\ k \in Int /\ \A y \in 1 .. k : y \in Int /\ y <= k
      OBVIOUS
    <3> QED
      BY <3>1, Greatest
  <2>3. (1 .. k) \ {k} = 1 .. k - 1
    OBVIOUS
  <2>4. iter[1 .. k] = Step(iter, 1 .. k)
    BY <1>4, <2>1
  <2> QED
    BY <2>1, <2>2, <2>3, <2>4
<1>8. Flushing(iter, start, q, n)
  BY <1>6, <1>7, Zenon DEF Flushing
<1> QED
  BY <1>5, <1>8, Zenon

-----------------------------------------------------------------------------
(* Sums.                                                                   *)

Total(f) == FoldFunction(+, 0, f)

(* The sum over a part of the domain, one element after the other.         *)
SumStep(f, it, s) == IF s = {} THEN 0
                     ELSE f[CHOOSE x \in s : TRUE] + it[s \ {CHOOSE x \in s : TRUE}]

IsSum(f, it) == it = [s \in SUBSET DOMAIN f |-> SumStep(f, it, s)]

Partial(f) == CHOOSE it : IsSum(f, it)

(* Total is the sum over the whole domain.                                 *)
LEMMA TotalIs == ASSUME NEW f PROVE Total(f) = Partial(f)[DOMAIN f]
BY DEF Total, FoldFunction, FoldFunctionOnSet, MapThenFoldSet, Partial, IsSum, SumStep

(* The sums over small parts exist, hence all of them.                     *)
LEMMA PartialExists ==
    ASSUME NEW f, IsFiniteSet(DOMAIN f)
    PROVE  IsSum(f, Partial(f))
<1> DEFINE Upto(k) == {s \in SUBSET DOMAIN f : Cardinality(s) <= k}
           Good(it, k) == it = [s \in Upto(k) |-> SumStep(f, it, s)]
           S == {k \in Nat : \E it : Good(it, k)}
<1>1. \A s \in SUBSET DOMAIN f : /\ IsFiniteSet(s) /\ Cardinality(s) \in Nat
                                 /\ Cardinality(s) = 0 <=> s = {}
                                 /\ Cardinality(s) <= Cardinality(DOMAIN f)
  BY FS_Subset, FS_CardinalityType, FS_EmptySet
<1>2. ASSUME NEW s \in SUBSET DOMAIN f, s # {}
      PROVE  LET x == CHOOSE x \in s : TRUE
             IN  x \in s /\ s \ {x} \in SUBSET DOMAIN f /\ Cardinality(s \ {x}) = Cardinality(s) - 1
  BY <1>1, <1>2, FS_RemoveElement
<1>3. 0 \in S
  <2> DEFINE it == [s \in Upto(0) |-> 0]
  <2>1. \A s \in Upto(0) : s = {}
    BY <1>1
  <2>2. Good(it, 0)
    BY <2>1 DEF SumStep
  <2> QED
    BY <2>2
<1>4. ASSUME NEW k \in Nat, k \in S PROVE k + 1 \in S
  <2>1. PICK it : Good(it, k)
    BY <1>4
  <2> DEFINE jt == [s \in Upto(k + 1) |-> SumStep(f, it, s)]
  <2>2. ASSUME NEW s \in Upto(k + 1) PROVE SumStep(f, jt, s) = SumStep(f, it, s)
    <3>1. CASE s = {}
      BY <3>1 DEF SumStep
    <3>2. CASE s # {}
      <4> DEFINE t == s \ {CHOOSE x \in s : TRUE}
      <4>1. t \in SUBSET DOMAIN f /\ Cardinality(t) = Cardinality(s) - 1 /\ Cardinality(s) \in Nat
        BY <1>1, <1>2, <3>2
      <4>2. t \in Upto(k) /\ t \in Upto(k + 1)
        BY <4>1
      <4> HIDE DEF t
      <4>3. jt[t] = it[t]
        BY <2>1, <4>2
      <4> HIDE DEF jt
      <4> QED
        BY <3>2, <4>3 DEF SumStep, t
    <3> QED
      BY <3>1, <3>2
  <2>3. Good(jt, k + 1)
    BY <2>2
  <2>4. k + 1 \in Nat
    OBVIOUS
  <2> QED
    BY <2>3, <2>4, Zenon
<1>5. Nat \subseteq S
  <2> HIDE DEF S
  <2> QED
    BY <1>3, <1>4, SetInduction
<1>6. PICK it : Good(it, Cardinality(DOMAIN f))
  BY <1>1, <1>5
<1>7. Upto(Cardinality(DOMAIN f)) = SUBSET DOMAIN f
  BY <1>1
<1>8. IsSum(f, it)
  BY <1>6, <1>7 DEF IsSum
<1> QED
  BY <1>8 DEF Partial

(* Two functions that agree on a set have the same sum over it; and any    *)
(* element of a set can be the last that is added.                         *)
LEMMA PartialSums ==
    ASSUME NEW f, IsFiniteSet(DOMAIN f), \A x \in DOMAIN f : f[x] \in Nat
    PROVE  /\ \A s \in SUBSET DOMAIN f : Partial(f)[s] \in Nat
           /\ \A s \in SUBSET DOMAIN f : \A x \in s :
                 Partial(f)[s] = f[x] + Partial(f)[s \ {x}]
           /\ \A g : DOMAIN g \subseteq DOMAIN f /\ (\A x \in DOMAIN g : g[x] = f[x]) =>
                 \A s \in SUBSET DOMAIN g : Partial(g)[s] = Partial(f)[s]
<1> DEFINE p == Partial(f)
<1>1. \A s \in SUBSET DOMAIN f : p[s] = SumStep(f, p, s)
  BY PartialExists DEF IsSum
<1>2. \A s \in SUBSET DOMAIN f : /\ IsFiniteSet(s) /\ Cardinality(s) \in Nat
                                 /\ Cardinality(s) = 0 <=> s = {}
  BY FS_Subset, FS_CardinalityType, FS_EmptySet
<1>3. ASSUME NEW s \in SUBSET DOMAIN f, NEW x \in s
      PROVE  s \ {x} \in SUBSET DOMAIN f /\ Cardinality(s \ {x}) = Cardinality(s) - 1
  BY <1>2, FS_RemoveElement
<1> HIDE DEF p
<1>4. \A s \in SUBSET DOMAIN f : p[s] \in Nat
  <2> DEFINE S == {k \in Nat : \A s \in SUBSET DOMAIN f : Cardinality(s) = k => p[s] \in Nat}
  <2>1. 0 \in S
    BY <1>1, <1>2 DEF SumStep
  <2>2. ASSUME NEW k \in Nat, k \in S PROVE k + 1 \in S
    <3> SUFFICES ASSUME NEW s \in SUBSET DOMAIN f, Cardinality(s) = k + 1 PROVE p[s] \in Nat
      OBVIOUS
    <3>1. s # {}
      BY <1>2
    <3>2. PICK x \in s : p[s] = f[x] + p[s \ {x}]
      BY <1>1, <3>1 DEF SumStep
    <3>3. p[s \ {x}] \in Nat
      BY <1>3, <2>2
    <3> QED
      BY <3>2, <3>3
  <2>3. Nat \subseteq S
    <3> HIDE DEF S
    <3> QED
      BY <2>1, <2>2, SetInduction
  <2> QED
    BY <1>2, <2>3
<1>5. \A s \in SUBSET DOMAIN f : \A x \in s : p[s] = f[x] + p[s \ {x}]
  <2> DEFINE S == {k \in Nat : \A s \in SUBSET DOMAIN f : \A x \in s :
                                  Cardinality(s) = k => p[s] = f[x] + p[s \ {x}]}
  <2>1. 0 \in S
    BY <1>2
  <2>2. ASSUME NEW k \in Nat, k \in S PROVE k + 1 \in S
    <3> SUFFICES ASSUME NEW s \in SUBSET DOMAIN f, NEW x \in s, Cardinality(s) = k + 1
                 PROVE  p[s] = f[x] + p[s \ {x}]
      OBVIOUS
    <3>1. PICK c \in s : p[s] = f[c] + p[s \ {c}]
      BY <1>1 DEF SumStep
    <3>2. CASE c = x
      BY <3>1, <3>2
    <3>3. CASE c # x
      <4>1. /\ s \ {c} \in SUBSET DOMAIN f /\ Cardinality(s \ {c}) = k
            /\ s \ {x} \in SUBSET DOMAIN f /\ Cardinality(s \ {x}) = k
        BY <1>3
      <4>2. x \in s \ {c} /\ c \in s \ {x}
        BY <3>3
      <4>3. p[s \ {c}] = f[x] + p[(s \ {c}) \ {x}]
        BY <2>2, <4>1, <4>2
      <4>4. p[s \ {x}] = f[c] + p[(s \ {x}) \ {c}]
        BY <2>2, <4>1, <4>2
      <4>5. (s \ {c}) \ {x} = (s \ {x}) \ {c}
        OBVIOUS
      <4>6. p[(s \ {x}) \ {c}] \in Nat /\ f[x] \in Nat /\ f[c] \in Nat
        BY <1>4
      <4>7. PICK r \in Nat, u \in Nat, v \in Nat :
                r = p[(s \ {x}) \ {c}] /\ u = f[x] /\ v = f[c]
        BY <4>6
      <4>8. p[s \ {c}] = u + r /\ p[s \ {x}] = v + r
        BY <4>3, <4>4, <4>5, <4>7
      <4>9. p[s] = v + (u + r) /\ f[x] + p[s \ {x}] = u + (v + r)
        BY <3>1, <4>7, <4>8
      <4> QED
        BY <4>9
    <3> QED
      BY <3>2, <3>3
  <2>3. Nat \subseteq S
    <3> HIDE DEF S
    <3> QED
      BY <2>1, <2>2, SetInduction
  <2> QED
    BY <1>2, <2>3
<1>6. ASSUME NEW g, DOMAIN g \subseteq DOMAIN f, \A x \in DOMAIN g : g[x] = f[x]
      PROVE  \A s \in SUBSET DOMAIN g : Partial(g)[s] = p[s]
  <2> DEFINE q == Partial(g)
             S == {k \in Nat : \A s \in SUBSET DOMAIN g : Cardinality(s) = k => q[s] = p[s]}
  <2>1. IsFiniteSet(DOMAIN g)
    BY <1>6, FS_Subset
  <2>2. \A s \in SUBSET DOMAIN g : q[s] = SumStep(g, q, s)
    BY <2>1, PartialExists DEF IsSum
  <2> HIDE DEF q
  <2>3. 0 \in S
    BY <1>1, <1>2, <1>6, <2>2 DEF SumStep
  <2>4. ASSUME NEW k \in Nat, k \in S PROVE k + 1 \in S
    <3> SUFFICES ASSUME NEW s \in SUBSET DOMAIN g, Cardinality(s) = k + 1 PROVE q[s] = p[s]
      OBVIOUS
    <3> DEFINE c == CHOOSE x \in s : TRUE
    <3>1. s \in SUBSET DOMAIN f /\ s # {}
      BY <1>2, <1>6
    <3>2. c \in s
      BY <3>1
    <3>3. q[s] = g[c] + q[s \ {c}] /\ p[s] = f[c] + p[s \ {c}]
      BY <1>1, <2>2, <3>1 DEF SumStep
    <3> HIDE DEF c
    <3>4. s \ {c} \in SUBSET DOMAIN g /\ Cardinality(s \ {c}) = k
      BY <1>3, <3>1, <3>2
    <3>5. q[s \ {c}] = p[s \ {c}]
      BY <2>4, <3>4
    <3>6. g[c] = f[c]
      BY <1>6, <3>2
    <3> QED
      BY <3>3, <3>5, <3>6
  <2>5. Nat \subseteq S
    <3> HIDE DEF S
    <3> QED
      BY <2>3, <2>4, SetInduction
  <2> QED
    BY <1>2, <1>6, <2>5 DEF q
<1> QED
  BY <1>4, <1>5, <1>6 DEF p

(* The sum of a function, and of the same with one element more.           *)
LEMMA SumType ==
    ASSUME NEW f, IsFiniteSet(DOMAIN f), \A x \in DOMAIN f : f[x] \in Nat
    PROVE  Total(f) \in Nat
BY PartialSums, TotalIs

(* Nothing sums to 0.                                                      *)
LEMMA SumEmpty == ASSUME NEW f, DOMAIN f = {} PROVE Total(f) = 0
<1>1. IsFiniteSet(DOMAIN f)
  BY FS_EmptySet
<1>2. Partial(f)[{}] = SumStep(f, Partial(f), {})
  BY <1>1, PartialExists DEF IsSum
<1> QED
  BY <1>2, TotalIs DEF SumStep

(* The sum of a function is that of the rest and one element.              *)
LEMMA SumMore ==
    ASSUME NEW f, NEW g, NEW x, IsFiniteSet(DOMAIN f), \A y \in DOMAIN f : f[y] \in Nat,
           x \in DOMAIN f, DOMAIN g = DOMAIN f \ {x}, \A y \in DOMAIN g : g[y] = f[y]
    PROVE  Total(f) = f[x] + Total(g)
<1>1. Partial(f)[DOMAIN f] = f[x] + Partial(f)[DOMAIN f \ {x}]
  <2>1. \A s \in SUBSET DOMAIN f : \A y \in s : Partial(f)[s] = f[y] + Partial(f)[s \ {y}]
    BY PartialSums
  <2> QED
    BY <2>1
<1>2. \A s \in SUBSET DOMAIN g : Partial(g)[s] = Partial(f)[s]
  BY PartialSums
<1> QED
  BY <1>1, <1>2, TotalIs

-----------------------------------------------------------------------------
(* What windows and readings stand for.                                    *)

Windows  == [count : Nat \ {0}, sum : Nat, min : Nat, max : Nat, start : Nat]
Readings == [stream : Streams, seq : Nat, count : Nat \ {0}, sum : Nat, min : Nat, max : Nat]

Countable(f) == IsFiniteSet(DOMAIN f) /\ \A x \in DOMAIN f : f[x].count \in Nat /\ f[x].sum \in Nat

(* Counts and sums of windows or readings are naturals,                    *)
LEMMA HoldingsType == ASSUME NEW f, Countable(f) PROVE CountOf(f) \in Nat /\ SumOf(f) \in Nat
BY SumType DEF Countable, CountOf, SumOf, Total

(* and of none 0.                                                          *)
LEMMA HoldingsEmpty == ASSUME NEW f, DOMAIN f = {} PROVE CountOf(f) = 0 /\ SumOf(f) = 0
BY SumEmpty DEF CountOf, SumOf, Total

(* An element more counts for itself.                                      *)
LEMMA HoldingsMore ==
    ASSUME NEW f, NEW g, NEW x \in DOMAIN f, Countable(f),
           DOMAIN g = DOMAIN f \ {x}, \A y \in DOMAIN g : g[y] = f[y]
    PROVE  /\ CountOf(f) = f[x].count + CountOf(g)
           /\ SumOf(f) = f[x].sum + SumOf(g)
           /\ Countable(g)
<1>1. Countable(g)
  BY FS_RemoveElement DEF Countable
<1> DEFINE fc == [y \in DOMAIN f |-> f[y].count]
           gc == [y \in DOMAIN g |-> g[y].count]
           fs == [y \in DOMAIN f |-> f[y].sum]
           gs == [y \in DOMAIN g |-> g[y].sum]
<1>2. /\ IsFiniteSet(DOMAIN fc) /\ \A y \in DOMAIN fc : fc[y] \in Nat
      /\ x \in DOMAIN fc /\ DOMAIN gc = DOMAIN fc \ {x} /\ \A y \in DOMAIN gc : gc[y] = fc[y]
  BY DEF Countable
<1>3. /\ IsFiniteSet(DOMAIN fs) /\ \A y \in DOMAIN fs : fs[y] \in Nat
      /\ x \in DOMAIN fs /\ DOMAIN gs = DOMAIN fs \ {x} /\ \A y \in DOMAIN gs : gs[y] = fs[y]
  BY DEF Countable
<1>4. fc[x] = f[x].count /\ fs[x] = f[x].sum
  OBVIOUS
<1>5. CountOf(f) = Total(fc) /\ CountOf(g) = Total(gc) /\ SumOf(f) = Total(fs) /\ SumOf(g) = Total(gs)
  BY DEF CountOf, SumOf, Total
<1> HIDE DEF fc, gc, fs, gs
<1>6. Total(fc) = fc[x] + Total(gc)
  BY <1>2, SumMore
<1>7. Total(fs) = fs[x] + Total(gs)
  BY <1>3, SumMore
<1> QED
  BY <1>1, <1>4, <1>5, <1>6, <1>7

(* A sequence of readings can be counted.                                  *)
LEMMA ReadingsCountable == ASSUME NEW q \in Seq(Readings) PROVE Countable(q)
<1>1. DOMAIN q = 1 .. Len(q) /\ Len(q) \in Nat /\ \A i \in 1 .. Len(q) : q[i] \in Readings
  BY LenProperties, ElementOfSeq
<1>2. IsFiniteSet(1 .. Len(q))
  BY <1>1, FS_Interval
<1> QED
  BY <1>1, <1>2 DEF Countable, Readings

(* A reading appended counts for itself.                                   *)
LEMMA HoldingsAppend ==
    ASSUME NEW q \in Seq(Readings), NEW r \in Readings
    PROVE  /\ CountOf(Append(q, r)) = CountOf(q) + r.count
           /\ SumOf(Append(q, r)) = SumOf(q) + r.sum
<1> DEFINE f == Append(q, r)
           x == Len(q) + 1
<1>1. /\ f \in Seq(Readings) /\ Len(f) = x /\ f[x] = r
      /\ \A i \in 1 .. Len(q) : f[i] = q[i]
  BY AppendProperties
<1>2. DOMAIN q = 1 .. Len(q) /\ Len(q) \in Nat /\ DOMAIN f = 1 .. Len(f)
  BY <1>1, LenProperties
<1>3. x \in DOMAIN f /\ DOMAIN q = DOMAIN f \ {x} /\ \A y \in DOMAIN q : q[y] = f[y]
  BY <1>1, <1>2
<1>4. Countable(f) /\ Countable(q)
  BY <1>1, ReadingsCountable
<1>5. CountOf(q) \in Nat /\ SumOf(q) \in Nat /\ r.count \in Nat /\ r.sum \in Nat
  BY <1>4, HoldingsType DEF Readings
<1> HIDE DEF f, x
<1>6. CountOf(f) = f[x].count + CountOf(q) /\ SumOf(f) = f[x].sum + SumOf(q)
  BY <1>3, <1>4, HoldingsMore
<1> QED
  BY <1>1, <1>5, <1>6 DEF f

(* The elements of two sequences of readings put together.                 *)
LEMMA JoinProperties ==
    ASSUME NEW a \in Seq(Readings), NEW b \in Seq(Readings)
    PROVE  /\ a \o b \in Seq(Readings) /\ Len(a \o b) = Len(a) + Len(b)
           /\ \A i \in 1 .. Len(a \o b) : (a \o b)[i] = IF i <= Len(a) THEN a[i] ELSE b[i - Len(a)]
BY ConcatProperties

(* So do readings that are concatenated; by induction on the second part.  *)
LEMMA HoldingsConcat ==
    ASSUME NEW p \in Seq(Readings), NEW q \in Seq(Readings)
    PROVE  /\ CountOf(p \o q) = CountOf(p) + CountOf(q)
           /\ SumOf(p \o q) = SumOf(p) + SumOf(q)
<1> DEFINE Adds(r) == /\ CountOf(p \o r) = CountOf(p) + CountOf(r)
                      /\ SumOf(p \o r) = SumOf(p) + SumOf(r)
           S == {k \in Nat : \A r \in Seq(Readings) : Len(r) = k => Adds(r)}
<1>1. \A r \in Seq(Readings) : /\ CountOf(r) \in Nat /\ SumOf(r) \in Nat
                               /\ DOMAIN r = 1 .. Len(r) /\ Len(r) \in Nat
  BY ReadingsCountable, HoldingsType, LenProperties
<1>2. 0 \in S
  <2> SUFFICES ASSUME NEW r \in Seq(Readings), Len(r) = 0 PROVE Adds(r)
    OBVIOUS
  <2>1. DOMAIN r = {}
    BY <1>1
  <2>2. CountOf(r) = 0 /\ SumOf(r) = 0
    BY <2>1, HoldingsEmpty
  <2>3. p \o r = p
    BY ConcatEmptySeq, EmptySeq
  <2> QED
    BY <1>1, <2>2, <2>3
<1>3. ASSUME NEW k \in Nat, k \in S PROVE k + 1 \in S
  <2> SUFFICES ASSUME NEW r \in Seq(Readings), Len(r) = k + 1 PROVE Adds(r)
    OBVIOUS
  <2> DEFINE r0 == SubSeq(r, 1, k)
             f == p \o r
             g == p \o r0
             x == Len(p) + k + 1
  <2>1. r0 \in Seq(Readings) /\ Len(r0) = k /\ \A i \in 1 .. k : r0[i] = r[i]
    BY SubSeqProperties
  <2>2. /\ f \in Seq(Readings) /\ Len(f) = Len(p) + Len(r)
        /\ \A i \in 1 .. Len(f) : f[i] = IF i <= Len(p) THEN p[i] ELSE r[i - Len(p)]
    BY JoinProperties
  <2>3. /\ g \in Seq(Readings) /\ Len(g) = Len(p) + Len(r0)
        /\ \A i \in 1 .. Len(g) : g[i] = IF i <= Len(p) THEN p[i] ELSE r0[i - Len(p)]
    BY <2>1, JoinProperties
  <2>4. Adds(r0)
    BY <1>3, <2>1
  <2> HIDE DEF f, g, r0
  <2>5. /\ DOMAIN f = 1 .. Len(p) + k + 1 /\ DOMAIN g = 1 .. Len(p) + k /\ Len(p) \in Nat
        /\ Len(f) = Len(p) + k + 1 /\ Len(g) = Len(p) + k
    BY <1>1, <2>1, <2>2, <2>3
  <2>6. /\ x \in DOMAIN f /\ DOMAIN g = DOMAIN f \ {x} /\ f[x] = r[k + 1]
        /\ \A y \in DOMAIN g : g[y] = f[y]
    <3>1. x \in DOMAIN f /\ DOMAIN g = DOMAIN f \ {x}
      BY <2>5
    <3>2. f[x] = r[x - Len(p)] /\ x - Len(p) = k + 1
      BY <2>2, <2>5
    <3>3. ASSUME NEW y \in DOMAIN g PROVE g[y] = f[y]
      <4>1. y \in 1 .. Len(f) /\ y \in 1 .. Len(g)
        BY <2>5
      <4>2. CASE y <= Len(p)
        BY <2>2, <2>3, <4>1, <4>2
      <4>3. CASE ~(y <= Len(p))
        <5>1. y - Len(p) \in 1 .. k
          BY <2>5, <4>1, <4>3
        <5> QED
          BY <2>1, <2>2, <2>3, <4>1, <4>3, <5>1
      <4> QED
        BY <4>2, <4>3
    <3> QED
      BY <3>1, <3>2, <3>3
  <2>7. /\ k + 1 \in DOMAIN r /\ DOMAIN r0 = DOMAIN r \ {k + 1}
        /\ \A y \in DOMAIN r0 : r0[y] = r[y]
    BY <1>1, <2>1
  <2>8. Countable(f) /\ Countable(r) /\ r[k + 1] \in Readings
    BY <2>2, <2>7, ReadingsCountable, ElementOfSeq, <1>1
  <2> HIDE DEF x
  <2>9. CountOf(f) = f[x].count + CountOf(g) /\ SumOf(f) = f[x].sum + SumOf(g)
    BY <2>6, <2>8, HoldingsMore
  <2>10. CountOf(r) = r[k + 1].count + CountOf(r0) /\ SumOf(r) = r[k + 1].sum + SumOf(r0)
    BY <2>7, <2>8, HoldingsMore
  <2>11. r[k + 1].count \in Nat /\ r[k + 1].sum \in Nat
    BY <2>8 DEF Readings
  <2>12. CountOf(g) = CountOf(p) + CountOf(r0) /\ SumOf(g) = SumOf(p) + SumOf(r0)
    BY <2>4 DEF g
  <2>13. CountOf(p) \in Nat /\ CountOf(r0) \in Nat /\ SumOf(p) \in Nat /\ SumOf(r0) \in Nat
    BY <1>1, <2>1
  <2>14. CountOf(f) = CountOf(p) + CountOf(r) /\ SumOf(f) = SumOf(p) + SumOf(r)
    BY <2>6, <2>9, <2>10, <2>11, <2>12, <2>13
  <2> QED
    BY <2>14 DEF f
<1>4. Nat \subseteq S
  <2> HIDE DEF S
  <2> QED
    BY <1>2, <1>3, SetInduction
<1> QED
  BY <1>1, <1>4

-----------------------------------------------------------------------------
(* The numbers of a stream in a sequence of readings.                      *)

(* Which numbers are behind a place.                                       *)
LEMMA BehindIs ==
    ASSUME NEW q, NEW i, NEW s, NEW n
    PROVE  n \in Behind(q, i, s) <=> \E j \in i + 1 .. Len(q) : q[j].stream = s /\ q[j].seq = n
BY DEF Behind

(* Nothing is behind the last reading.                                     *)
LEMMA BehindLast ==
    ASSUME NEW q \in Seq(Readings), NEW s
    PROVE  Behind(q, Len(q), s) = {}
<1>1. Len(q) \in Nat
  BY LenProperties
<1>2. Len(q) + 1 .. Len(q) = {}
  BY <1>1
<1> QED
  BY <1>2, BehindIs

(* Behind a place of the first part is also all of the second.             *)
LEMMA BehindConcat ==
    ASSUME NEW p \in Seq(Readings), NEW q \in Seq(Readings), NEW s
    PROVE  /\ \A i \in 0 .. Len(p) :
                 Behind(p \o q, i, s) = Behind(p, i, s) \cup Behind(q, 0, s)
           /\ \A i \in Nat : Behind(p \o q, Len(p) + i, s) = Behind(q, i, s)
<1> DEFINE f == p \o q
<1>1. /\ f \in Seq(Readings) /\ Len(f) = Len(p) + Len(q)
      /\ \A i \in 1 .. Len(f) : f[i] = IF i <= Len(p) THEN p[i] ELSE q[i - Len(p)]
  BY ConcatProperties
<1>2. Len(p) \in Nat /\ Len(q) \in Nat
  BY LenProperties
<1> HIDE DEF f
<1>3. /\ \A i \in 1 .. Len(p) : f[i] = p[i]
      /\ \A i \in 1 .. Len(q) : f[Len(p) + i] = q[i]
  <2>1. ASSUME NEW i \in 1 .. Len(p) PROVE f[i] = p[i]
    BY <1>1, <1>2
  <2>2. ASSUME NEW i \in 1 .. Len(q) PROVE f[Len(p) + i] = q[i]
    <3>1. Len(p) + i \in 1 .. Len(f) /\ ~(Len(p) + i <= Len(p)) /\ Len(p) + i - Len(p) = i
      BY <1>1, <1>2
    <3> QED
      BY <1>1, <3>1
  <2> QED
    BY <2>1, <2>2
<1>4. ASSUME NEW i \in Nat PROVE Behind(f, Len(p) + i, s) = Behind(q, i, s)
  <2>1. ASSUME NEW n \in Behind(f, Len(p) + i, s) PROVE n \in Behind(q, i, s)
    <3>1. PICK j \in Len(p) + i + 1 .. Len(f) : f[j].stream = s /\ f[j].seq = n
      BY <2>1, BehindIs
    <3> DEFINE k == j - Len(p)
    <3>2. k \in i + 1 .. Len(q) /\ k \in 1 .. Len(q) /\ Len(p) + k = j
      BY <1>1, <1>2
    <3> HIDE DEF k
    <3>3. q[k].stream = s /\ q[k].seq = n
      BY <1>3, <3>1, <3>2
    <3> QED
      BY <3>2, <3>3, BehindIs
  <2>2. ASSUME NEW n \in Behind(q, i, s) PROVE n \in Behind(f, Len(p) + i, s)
    <3>1. PICK j \in i + 1 .. Len(q) : q[j].stream = s /\ q[j].seq = n
      BY <2>2, BehindIs
    <3>2. Len(p) + j \in Len(p) + i + 1 .. Len(f) /\ j \in 1 .. Len(q)
      BY <1>1, <1>2
    <3>3. f[Len(p) + j].stream = s /\ f[Len(p) + j].seq = n
      BY <1>3, <3>1, <3>2
    <3> QED
      BY <3>2, <3>3, BehindIs
  <2> QED
    BY <2>1, <2>2
<1>5. ASSUME NEW i \in 0 .. Len(p)
      PROVE  Behind(f, i, s) = Behind(p, i, s) \cup Behind(q, 0, s)
  <2>1. Behind(f, Len(p), s) = Behind(q, 0, s)
    <3>1. Behind(f, Len(p) + 0, s) = Behind(q, 0, s)
      BY <1>4
    <3> QED
      BY <1>2, <3>1
  <2>2. ASSUME NEW n \in Behind(f, i, s) PROVE n \in Behind(p, i, s) \cup Behind(f, Len(p), s)
    <3>1. PICK j \in i + 1 .. Len(f) : f[j].stream = s /\ f[j].seq = n
      BY <2>2, BehindIs
    <3>2. CASE j <= Len(p)
      <4>1. j \in i + 1 .. Len(p) /\ j \in 1 .. Len(p)
        BY <1>1, <1>2, <3>2
      <4> QED
        BY <1>3, <3>1, <4>1, BehindIs
    <3>3. CASE ~(j <= Len(p))
      <4>1. j \in Len(p) + 1 .. Len(f)
        BY <1>1, <1>2, <3>3
      <4> QED
        BY <3>1, <4>1, BehindIs
    <3> QED
      BY <3>2, <3>3
  <2>3. ASSUME NEW n \in Behind(p, i, s) PROVE n \in Behind(f, i, s)
    <3>1. PICK j \in i + 1 .. Len(p) : p[j].stream = s /\ p[j].seq = n
      BY <2>3, BehindIs
    <3>2. j \in 1 .. Len(p) /\ j \in i + 1 .. Len(f)
      BY <1>1, <1>2
    <3> QED
      BY <1>3, <3>1, <3>2, BehindIs
  <2>4. ASSUME NEW n \in Behind(f, Len(p), s) PROVE n \in Behind(f, i, s)
    <3>1. PICK j \in Len(p) + 1 .. Len(f) : f[j].stream = s /\ f[j].seq = n
      BY <2>4, BehindIs
    <3>2. j \in i + 1 .. Len(f)
      BY <1>1, <1>2
    <3> QED
      BY <3>1, <3>2, BehindIs
  <2> QED
    BY <2>1, <2>2, <2>3, <2>4
<1> QED
  BY <1>4, <1>5 DEF f

(* A reading at the end.                                                   *)
LEMMA BehindAppend ==
    ASSUME NEW q \in Seq(Readings), NEW r \in Readings, NEW s, NEW i \in 0 .. Len(q)
    PROVE  Behind(Append(q, r), i, s) =
              Behind(q, i, s) \cup IF r.stream = s THEN {r.seq} ELSE {}
<1> DEFINE one == <<r>>
<1>1. one \in Seq(Readings) /\ Len(one) = 1 /\ one[1] = r
  OBVIOUS
<1>2. Append(q, r) = q \o one
  BY AppendIsConcat
<1>3. Behind(one, 0, s) = IF r.stream = s THEN {r.seq} ELSE {}
  <2>1. \A n : n \in Behind(one, 0, s) <=> \E j \in 1 .. 1 : one[j].stream = s /\ one[j].seq = n
    BY <1>1, BehindIs
  <2>2. \A j \in 1 .. 1 : j = 1
    OBVIOUS
  <2>3. \A n : n \in Behind(one, 0, s) <=> r.stream = s /\ r.seq = n
    BY <1>1, <2>1, <2>2
  <2> QED
    BY <2>3
<1> HIDE DEF one
<1>4. \A j \in 0 .. Len(q) : Behind(q \o one, j, s) = Behind(q, j, s) \cup Behind(one, 0, s)
  BY <1>1, BehindConcat
<1> QED
  BY <1>2, <1>3, <1>4

(* What is left of a sequence without its beginning.                       *)
LEMMA BehindSlice ==
    ASSUME NEW q \in Seq(Readings), NEW k \in 1 .. Len(q) + 1, NEW s, NEW i \in Nat
    PROVE  Behind(SubSeq(q, k, Len(q)), i, s) = Behind(q, i + k - 1, s)
<1> DEFINE f == SubSeq(q, k, Len(q))
<1>0. Len(q) \in Nat
  BY LenProperties
<1>1. /\ f \in Seq(Readings) /\ Len(f) = Len(q) - k + 1
      /\ \A j \in 1 .. Len(f) : f[j] = q[k + j - 1]
  <2>1. k \in 1 .. Len(q) + 1 /\ Len(q) \in k - 1 .. Len(q)
    BY <1>0
  <2> QED
    BY <1>0, <2>1, SubSeqProperties
<1> HIDE DEF f
<1>2. ASSUME NEW n \in Behind(f, i, s) PROVE n \in Behind(q, i + k - 1, s)
  <2>1. PICK j \in i + 1 .. Len(f) : f[j].stream = s /\ f[j].seq = n
    BY <1>2, BehindIs
  <2> DEFINE l == k + j - 1
  <2>2. l \in (i + k - 1) + 1 .. Len(q) /\ j \in 1 .. Len(f)
    BY <1>0, <1>1
  <2>3. q[l] = f[j]
    BY <1>1, <2>2
  <2> HIDE DEF l
  <2>4. q[l].stream = s /\ q[l].seq = n
    BY <2>1, <2>3
  <2> QED
    BY <2>2, <2>4, BehindIs
<1>3. ASSUME NEW n \in Behind(q, i + k - 1, s) PROVE n \in Behind(f, i, s)
  <2>1. PICK j \in (i + k - 1) + 1 .. Len(q) : q[j].stream = s /\ q[j].seq = n
    BY <1>3, BehindIs
  <2> DEFINE l == j - k + 1
  <2>2. l \in i + 1 .. Len(f) /\ l \in 1 .. Len(f) /\ k + l - 1 = j
    BY <1>0, <1>1
  <2>3. f[l] = q[j]
    <3>1. f[l] = q[k + l - 1]
      BY <1>1, <2>2
    <3> HIDE DEF l
    <3> QED
      BY <2>2, <3>1, Zenon
  <2> HIDE DEF l
  <2>4. f[l].stream = s /\ f[l].seq = n
    BY <2>1, <2>3, Zenon
  <2> QED
    BY <2>2, <2>4, BehindIs
<1> QED
  BY <1>2, <1>3 DEF f

-----------------------------------------------------------------------------
(* The aggregator.                                                         *)

Shaped(a) == a = [states |-> a.states, seq |-> a.seq, ready |-> a.ready,
                  count |-> a.count, sum |-> a.sum]

(* The open windows.                                                       *)
Open(w) ==
    /\ DOMAIN w \subseteq Streams \ RawStreams
    /\ Cardinality(DOMAIN w) <= MaxStreams
    /\ \A s \in DOMAIN w : w[s] \in Windows /\ Agrees(w[s]) /\ w[s].start <= clock

(* The numbers given out.                                                  *)
Given(numbers) == DOMAIN numbers \subseteq Streams /\ \A s \in DOMAIN numbers : numbers[s] \in Nat

(* Readings that follow each other up to the last number given out.        *)
InOrder(readings, numbers) ==
    /\ readings \in Seq(Readings)
    /\ \A i \in 1 .. Len(readings) :
          LET r    == readings[i]
              last == LastNumber(numbers, r.stream)
          IN  r.seq <= last /\ Behind(readings, i, r.stream) = r.seq + 1 .. last
    /\ \A i \in 1 .. Len(readings) : Agrees(readings[i])

(* And they begin after the numbers given out before.                      *)
Continues(readings, before, numbers) ==
    \A s \in Streams :
       /\ LastNumber(before, s) <= LastNumber(numbers, s)
       /\ Behind(readings, 0, s) = LastNumber(before, s) + 1 .. LastNumber(numbers, s)

(* What was taken in is in a window or a reading.                          *)
Conserved(a) ==
    /\ a.count \in Nat /\ a.count + CountOf(states) = CountOf(a.ready) + CountOf(a.states)
    /\ a.sum \in Nat /\ a.sum + SumOf(states) = SumOf(a.ready) + SumOf(a.states)

Numbering(a) == Given(a.seq) /\ InOrder(a.ready, a.seq) /\ Continues(a.ready, seq, a.seq)

Sound(a) == Shaped(a) /\ Open(a.states) /\ Numbering(a) /\ Conserved(a)

(* Products of naturals.                                                   *)
LEMMA ProductGrows ==
    ASSUME NEW m \in Nat, NEW k \in Nat, NEW l \in Nat, k <= l
    PROVE  m * k \in Nat /\ m * l \in Nat /\ m * k <= m * l
<1>1. PICK d \in Nat : l = k + d
  <2>1. l - k \in Nat /\ l = k + (l - k)
    OBVIOUS
  <2> QED
    BY <2>1
<1>2. m * (k + d) = m * k + m * d /\ m * k \in Nat /\ m * d \in Nat
  OBVIOUS
<1> QED
  BY <1>1, <1>2

(* StreamState::update keeps count, sum, min and max in agreement.         *)
LEMMA UpdateAgrees ==
    ASSUME NEW w \in Windows, Agrees(w), NEW v \in Nat
    PROVE  /\ Update(w, v) \in Windows /\ Agrees(Update(w, v))
           /\ Update(w, v).count = w.count + 1 /\ Update(w, v).sum = w.sum + v
           /\ Update(w, v).start = w.start
<1>1. PICK c \in Nat, n \in Nat, x \in Nat, t \in Nat :
         c + 1 = w.count /\ n = w.min /\ x = w.max /\ t = w.sum
  <2>1. w.count - 1 \in Nat /\ (w.count - 1) + 1 = w.count
    BY DEF Windows
  <2> QED
    BY <2>1 DEF Windows
<1>2. n <= x /\ c * n + x <= t /\ t <= c * x + n
  <2>1. w.count - 1 = c
    BY <1>1
  <2> QED
    BY <1>1, <2>1 DEF Agrees
<1>3. PICK lo \in Nat : lo = Min({n, v}) /\ lo <= n /\ lo <= v /\ (lo = n \/ lo = v)
  BY DEF Min
<1>4. PICK hi \in Nat : hi = Max({x, v}) /\ hi >= x /\ hi >= v /\ (hi = x \/ hi = v)
  BY DEF Max
<1>5. /\ c * lo \in Nat /\ c * n \in Nat /\ c * lo <= c * n
      /\ c * x \in Nat /\ c * hi \in Nat /\ c * x <= c * hi
  BY <1>3, <1>4, ProductGrows
<1>6. (c + 1) * lo = c * lo + lo /\ (c + 1) * hi = c * hi + hi
  OBVIOUS
<1>7. lo <= hi /\ (c + 1) * lo + hi <= t + v /\ t + v <= (c + 1) * hi + lo
  <2>1. c * n <= t /\ t <= c * x + x
    BY <1>2, <1>5
  <2>2. c * lo + lo + hi <= t + v
    <3>1. CASE hi = v
      <4>1. c * lo + lo <= t
        BY <1>2, <1>3, <1>5
      <4> QED
        BY <1>5, <3>1, <4>1
    <3>2. CASE hi = x
      BY <1>2, <1>3, <1>5, <3>2
    <3> QED
      BY <1>4, <3>1, <3>2
  <2>3. t + v <= c * hi + hi + lo
    <3>1. CASE lo = v
      <4>1. t <= c * hi + hi
        BY <1>2, <1>4, <1>5
      <4> QED
        BY <1>5, <3>1, <4>1
    <3>2. CASE lo = n
      BY <1>2, <1>4, <1>5, <3>2
    <3> QED
      BY <1>3, <3>1, <3>2
  <2> QED
    BY <1>3, <1>4, <1>5, <1>6, <2>2, <2>3
<1> DEFINE u == Update(w, v)
<1>8. /\ u \in Windows /\ u.count = w.count + 1 /\ u.sum = w.sum + v /\ u.start = w.start
      /\ u.min = lo /\ u.max = hi
  <2>1. w.count + 1 \in Nat \ {0} /\ w.sum + v \in Nat
    BY <1>1
  <2>2. Min({w.min, v}) = lo /\ Max({w.max, v}) = hi
    BY <1>1, <1>3, <1>4
  <2>3. PICK k \in Nat \ {0}, l \in Nat : k = w.count + 1 /\ l = w.sum + v
    BY <2>1
  <2>4. u = [w EXCEPT !.count = k, !.sum = l, !.min = lo, !.max = hi]
    BY <2>2, <2>3, Zenon DEF Update
  <2> HIDE DEF u
  <2>5. u \in Windows /\ u.count = k /\ u.sum = l /\ u.min = lo /\ u.max = hi /\ u.start = w.start
    BY <2>4 DEF Windows
  <2> QED
    BY <2>3, <2>5
<1>9. u.count - 1 = c + 1 /\ u.sum = t + v
  BY <1>1, <1>8
<1> HIDE DEF u
<1>10. Agrees(u)
  BY <1>7, <1>8, <1>9 DEF Agrees
<1> QED
  BY <1>8, <1>10 DEF u

(* StreamState::new.                                                       *)
LEMMA NewWindowAgrees ==
    ASSUME NEW v \in Nat, NEW t \in Nat
    PROVE  /\ NewWindow(v, t) \in Windows /\ Agrees(NewWindow(v, t))
           /\ NewWindow(v, t).count = 1 /\ NewWindow(v, t).sum = v
           /\ NewWindow(v, t).start = t
<1> DEFINE w == NewWindow(v, t)
<1>1. /\ w \in Windows /\ w.count = 1 /\ w.sum = v /\ w.min = v /\ w.max = v /\ w.start = t
  BY DEF NewWindow, Windows
<1>2. (w.count - 1) * w.min = 0 /\ (w.count - 1) * w.max = 0
  BY <1>1
<1> HIDE DEF w
<1> QED
  BY <1>1, <1>2 DEF Agrees, w

(* A reading says what its window said.                                    *)
LEMMA ReadingAgrees ==
    ASSUME NEW s \in Streams, NEW n \in Nat, NEW w \in Windows, Agrees(w)
    PROVE  LET r == Reading(s, n, w)
           IN  /\ r \in Readings /\ Agrees(r) /\ r.stream = s /\ r.seq = n
               /\ r.count = w.count /\ r.sum = w.sum
BY DEF Reading, Readings, Windows, Agrees

(* A last number is a natural.                                             *)
LEMMA LastNumberType ==
    ASSUME NEW numbers, Given(numbers), NEW s PROVE LastNumber(numbers, s) \in Nat
BY DEF Given, LastNumber

(* The next number of a stream keeps the order.                            *)
LEMMA NextReading ==
    ASSUME NEW numbers, NEW readings, NEW before, NEW r \in Readings, Agrees(r),
           Given(numbers), Given(before), InOrder(readings, numbers),
           Continues(readings, before, numbers),
           r.seq = LastNumber(numbers, r.stream) + 1
    PROVE  LET new == With(numbers, r.stream, r.seq)
               all == Append(readings, r)
           IN  Given(new) /\ InOrder(all, new) /\ Continues(all, before, new)
<1> DEFINE new == With(numbers, r.stream, r.seq)
           all == Append(readings, r)
           Old(s) == LastNumber(numbers, s)
<1>1. /\ \A s : Old(s) \in Nat /\ LastNumber(before, s) \in Nat
      /\ r.stream \in Streams /\ r.seq \in Nat /\ r.seq = Old(r.stream) + 1
  BY LastNumberType DEF Readings
<1>2. \A s : LastNumber(new, s) = IF s = r.stream THEN r.seq ELSE Old(s)
  BY DEF With, LastNumber
<1>3. Given(new)
  BY <1>1 DEF With, Given
<1>4. /\ all \in Seq(Readings) /\ Len(all) = Len(readings) + 1 /\ all[Len(readings) + 1] = r
      /\ \A i \in 1 .. Len(readings) : all[i] = readings[i]
      /\ readings \in Seq(Readings) /\ Len(readings) \in Nat
  BY AppendProperties, LenProperties DEF InOrder
<1>5. \A i \in 0 .. Len(readings) : \A s :
         Behind(all, i, s) = Behind(readings, i, s) \cup IF r.stream = s THEN {r.seq} ELSE {}
  BY <1>4, BehindAppend
<1>6. \A s : Behind(all, Len(all), s) = {}
  BY <1>4, BehindLast
<1> HIDE DEF new, all, Old
<1>7. \A m, k \in Nat : m <= k + 1 => (m .. k) \cup {k + 1} = m .. k + 1
  OBVIOUS
<1>8. ASSUME NEW i \in 1 .. Len(all)
      PROVE  LET x    == all[i]
                 last == LastNumber(new, x.stream)
             IN  /\ x.seq <= last /\ Behind(all, i, x.stream) = x.seq + 1 .. last
                 /\ Agrees(x)
  <2>1. CASE i = Len(all)
    <3>1. all[i] = r /\ LastNumber(new, r.stream) = r.seq /\ r.seq <= r.seq
      BY <1>1, <1>2, <1>4, <2>1
    <3>2. r.seq + 1 .. r.seq = {}
      BY <1>1
    <3>3. Behind(all, i, r.stream) = {}
      BY <1>6, <2>1
    <3> QED
      BY <3>1, <3>2, <3>3
  <2>2. CASE i # Len(all)
    <3>1. i \in 1 .. Len(readings) /\ i \in 0 .. Len(readings)
      BY <1>4, <2>2
    <3> DEFINE x == readings[i]
    <3>2. all[i] = x /\ x \in Readings /\ x.seq \in Nat /\ Agrees(x)
      <4>1. all[i] = x
        BY <1>4, <3>1
      <4>2. x \in Readings
        BY <1>4, <3>1, ElementOfSeq
      <4>3. Agrees(x)
        BY <3>1 DEF InOrder
      <4> QED
        BY <4>1, <4>2, <4>3 DEF Readings
    <3>3. x.seq <= Old(x.stream) /\ Behind(readings, i, x.stream) = x.seq + 1 .. Old(x.stream)
      BY <3>1 DEF InOrder, Old
    <3> HIDE DEF x
    <3>4. Behind(all, i, x.stream) =
            Behind(readings, i, x.stream) \cup IF r.stream = x.stream THEN {r.seq} ELSE {}
      BY <1>5, <3>1
    <3>5. CASE r.stream = x.stream
      <4>1. (x.seq + 1 .. Old(x.stream)) \cup {Old(x.stream) + 1} = x.seq + 1 .. Old(x.stream) + 1
        <5>1. PICK a \in Nat : a = x.seq
          BY <3>2
        <5>2. PICK k \in Nat : k = Old(x.stream)
          BY <1>1
        <5>3. a <= k
          BY <3>3, <5>1, <5>2
        <5>4. a + 1 \in Nat /\ a + 1 <= k + 1
          BY <5>3
        <5>5. (a + 1 .. k) \cup {k + 1} = a + 1 .. k + 1
          BY <1>7, <5>4, Zenon
        <5> QED
          BY <5>1, <5>2, <5>5, Zenon
      <4>2. LastNumber(new, x.stream) = Old(x.stream) + 1
        BY <1>1, <1>2, <3>5
      <4>3. Behind(all, i, x.stream) = x.seq + 1 .. Old(x.stream) + 1
        BY <1>1, <3>3, <3>4, <3>5, <4>1
      <4>4. x.seq <= Old(x.stream) + 1
        BY <1>1, <3>2, <3>3
      <4> QED
        BY <3>2, <4>2, <4>3, <4>4
    <3>6. CASE r.stream # x.stream
      <4>1. LastNumber(new, x.stream) = Old(x.stream)
        BY <1>2, <3>6
      <4>2. Behind(all, i, x.stream) = Behind(readings, i, x.stream)
        BY <3>4, <3>6
      <4> QED
        BY <3>2, <3>3, <4>1, <4>2
    <3> QED
      BY <3>5, <3>6
  <2> QED
    BY <2>1, <2>2
<1>9. InOrder(all, new)
  BY <1>4, <1>8 DEF InOrder
<1>10. ASSUME NEW s \in Streams
       PROVE  /\ LastNumber(before, s) <= LastNumber(new, s)
              /\ Behind(all, 0, s) = LastNumber(before, s) + 1 .. LastNumber(new, s)
  <2> DEFINE b == LastNumber(before, s)
  <2>1. b <= Old(s) /\ Behind(readings, 0, s) = b + 1 .. Old(s)
    BY DEF Continues, Old
  <2>2. Behind(all, 0, s) = Behind(readings, 0, s) \cup IF r.stream = s THEN {r.seq} ELSE {}
    BY <1>4, <1>5
  <2>3. b \in Nat /\ Old(s) \in Nat
    BY <1>1
  <2> HIDE DEF b
  <2>4. CASE r.stream = s
    <3>1. (b + 1 .. Old(s)) \cup {Old(s) + 1} = b + 1 .. Old(s) + 1
      BY <1>7, <2>1, <2>3
    <3>2. LastNumber(new, s) = Old(s) + 1
      BY <1>1, <1>2, <2>4
    <3>3. Behind(all, 0, s) = b + 1 .. Old(s) + 1
      BY <1>1, <2>1, <2>2, <2>4, <3>1
    <3>4. b <= Old(s) + 1
      BY <2>1, <2>3
    <3> QED
      BY <3>2, <3>3, <3>4 DEF b
  <2>5. CASE r.stream # s
    <3>1. LastNumber(new, s) = Old(s)
      BY <1>2, <2>5
    <3>2. Behind(all, 0, s) = Behind(readings, 0, s)
      BY <2>2, <2>5
    <3> QED
      BY <2>1, <3>1, <3>2 DEF b
  <2> QED
    BY <2>4, <2>5
<1>11. Continues(all, before, new)
  BY <1>10 DEF Continues
<1> QED
  BY <1>3, <1>9, <1>11 DEF new, all

(* The records that Take and Emit return.                                  *)
LEMMA TakeIs ==
    ASSUME NEW a, Shaped(a), NEW v
    PROVE  Take(a, v) = [states |-> a.states, seq |-> a.seq, ready |-> a.ready,
                         count |-> a.count + 1, sum |-> a.sum + v]
<1>1. PICK u, k, l : u = Take(a, v) /\ k = a.count + 1 /\ l = a.sum + v
  BY Zenon
<1>2. u = [a EXCEPT !.count = k, !.sum = l]
  BY <1>1, Zenon DEF Take
<1>3. u = [states |-> a.states, seq |-> a.seq, ready |-> a.ready, count |-> k, sum |-> l]
  BY <1>2 DEF Shaped
<1> QED
  BY <1>1, <1>3, Zenon

(* The next number is given out, and the reading appended.                 *)
LEMMA EmitIs ==
    ASSUME NEW a, Shaped(a), NEW s, NEW w
    PROVE  LET n == LastNumber(a.seq, s) + 1
           IN  Emit(a, s, w) = [states |-> a.states, seq |-> With(a.seq, s, n),
                                ready |-> Append(a.ready, Reading(s, n, w)),
                                count |-> a.count, sum |-> a.sum]
<1> DEFINE n == LastNumber(a.seq, s) + 1
<1>1. PICK u, k, l :
         u = Emit(a, s, w) /\ k = With(a.seq, s, n) /\ l = Append(a.ready, Reading(s, n, w))
  BY Zenon
<1>2. u = [a EXCEPT !.seq = k, !.ready = l]
  BY <1>1, Zenon DEF Emit
<1>3. u = [states |-> a.states, seq |-> k, ready |-> l, count |-> a.count, sum |-> a.sum]
  BY <1>2 DEF Shaped
<1> QED
  BY <1>1, <1>3, Zenon

(* The open windows can be counted.                                        *)
LEMMA WindowsCountable == ASSUME NEW w, Open(w) PROVE Countable(w)
<1>1. IsFiniteSet(DOMAIN w)
  BY MetricsAssumption, FS_Subset DEF Open
<1> QED
  BY <1>1 DEF Open, Windows, Countable

(* A raw reading stands for one sample.                                    *)
LEMMA RawSound ==
    ASSUME NEW a, Sound(a), Given(seq), Open(states), NEW s \in Streams, NEW v \in Nat, NEW t \in Nat
    PROVE  Sound(Emit(Take(a, v), s, NewWindow(v, t)))
<1> DEFINE n == LastNumber(a.seq, s) + 1
           r == Reading(s, n, NewWindow(v, t))
           b == Take(a, v)
           e == Emit(b, s, NewWindow(v, t))
<1>1. b = [states |-> a.states, seq |-> a.seq, ready |-> a.ready,
           count |-> a.count + 1, sum |-> a.sum + v]
  BY TakeIs DEF Sound
<1>2. /\ Shaped(b) /\ b.states = a.states /\ b.seq = a.seq /\ b.ready = a.ready
      /\ b.count = a.count + 1 /\ b.sum = a.sum + v
  BY <1>1 DEF Shaped
<1> HIDE DEF b
<1>3. e = [states |-> a.states, seq |-> With(a.seq, s, n), ready |-> Append(a.ready, r),
           count |-> a.count + 1, sum |-> a.sum + v]
  BY <1>2, EmitIs
<1> HIDE DEF e
<1>4. /\ Shaped(e) /\ e.states = a.states /\ e.seq = With(a.seq, s, n)
      /\ e.ready = Append(a.ready, r) /\ e.count = a.count + 1 /\ e.sum = a.sum + v
  BY <1>3 DEF Shaped
<1>5. n \in Nat
  BY LastNumberType DEF Sound, Numbering
<1>6. /\ r \in Readings /\ Agrees(r) /\ r.stream = s /\ r.seq = n /\ r.count = 1 /\ r.sum = v
  BY <1>5, NewWindowAgrees, ReadingAgrees
<1> HIDE DEF r, n
<1>7. Numbering(e)
  <2>1. n = LastNumber(a.seq, r.stream) + 1
    BY <1>6 DEF n
  <2>2. /\ Given(With(a.seq, r.stream, r.seq)) /\ InOrder(Append(a.ready, r), With(a.seq, r.stream, r.seq))
        /\ Continues(Append(a.ready, r), seq, With(a.seq, r.stream, r.seq))
    BY <1>6, <2>1, NextReading DEF Sound, Numbering
  <2> QED
    BY <1>4, <1>6, <2>2 DEF Numbering
<1>8. Conserved(e)
  <2>1. a.ready \in Seq(Readings) /\ Countable(a.states) /\ Countable(a.ready)
    BY WindowsCountable, ReadingsCountable DEF Sound, Numbering, InOrder
  <2>2. CountOf(e.ready) = CountOf(a.ready) + 1 /\ SumOf(e.ready) = SumOf(a.ready) + v
    BY <1>4, <1>6, <2>1, HoldingsAppend
  <2>3. /\ CountOf(a.ready) \in Nat /\ SumOf(a.ready) \in Nat
        /\ CountOf(a.states) \in Nat /\ SumOf(a.states) \in Nat
    BY <2>1, HoldingsType
  <2>4. /\ a.count \in Nat /\ a.count + CountOf(states) = CountOf(a.ready) + CountOf(a.states)
        /\ a.sum \in Nat /\ a.sum + SumOf(states) = SumOf(a.ready) + SumOf(a.states)
    BY DEF Sound, Conserved
  <2>5. CountOf(states) \in Nat /\ SumOf(states) \in Nat
    BY WindowsCountable, HoldingsType
  <2>6. /\ a.count + 1 \in Nat
        /\ (a.count + 1) + CountOf(states) = (CountOf(a.ready) + 1) + CountOf(a.states)
    BY <2>3, <2>4, <2>5
  <2>7. /\ a.sum + v \in Nat
        /\ (a.sum + v) + SumOf(states) = (SumOf(a.ready) + v) + SumOf(a.states)
    BY <2>3, <2>4, <2>5
  <2> QED
    BY <1>4, <2>2, <2>6, <2>7 DEF Conserved
<1> QED
  BY <1>4, <1>7, <1>8 DEF Sound, e, b

(* A sample enters the window of its stream, new or old.                   *)
LEMMA WindowSound ==
    ASSUME NEW a, Sound(a), Open(states), NEW v \in Nat, NEW e, NEW w, NEW s,
           e = [states |-> w, seq |-> a.seq, ready |-> a.ready,
                count |-> a.count + 1, sum |-> a.sum + v],
           Open(w), CountOf(w) = CountOf(a.states) + 1, SumOf(w) = SumOf(a.states) + v
    PROVE  Sound(e)
<1>1. /\ Shaped(e) /\ e.states = w /\ e.seq = a.seq /\ e.ready = a.ready
      /\ e.count = a.count + 1 /\ e.sum = a.sum + v
  BY DEF Shaped
<1>2. Conserved(e)
  <2>1. a.ready \in Seq(Readings) /\ Countable(a.states) /\ Countable(a.ready)
    BY WindowsCountable, ReadingsCountable DEF Sound, Numbering, InOrder
  <2>2. /\ CountOf(a.ready) \in Nat /\ SumOf(a.ready) \in Nat
        /\ CountOf(a.states) \in Nat /\ SumOf(a.states) \in Nat
    BY <2>1, HoldingsType
  <2>3. CountOf(states) \in Nat /\ SumOf(states) \in Nat
    BY WindowsCountable, HoldingsType
  <2>4. /\ a.count \in Nat /\ a.count + CountOf(states) = CountOf(a.ready) + CountOf(a.states)
        /\ a.sum \in Nat /\ a.sum + SumOf(states) = SumOf(a.ready) + SumOf(a.states)
    BY DEF Sound, Conserved
  <2>5. PICK c \in Nat, d \in Nat, f \in Nat, g \in Nat :
           /\ c = a.count /\ d = CountOf(states) /\ f = CountOf(a.ready) /\ g = CountOf(a.states)
           /\ c + d = f + g
    BY <2>2, <2>3, <2>4
  <2>6. PICK h \in Nat, j \in Nat, k \in Nat, l \in Nat :
           /\ h = a.sum /\ j = SumOf(states) /\ k = SumOf(a.ready) /\ l = SumOf(a.states)
           /\ h + j = k + l
    BY <2>2, <2>3, <2>4
  <2>7. c + 1 \in Nat /\ (c + 1) + d = f + (g + 1)
    BY <2>5
  <2>8. h + v \in Nat /\ (h + v) + j = k + (l + v)
    BY <2>6
  <2> QED
    BY <1>1, <2>5, <2>6, <2>7, <2>8 DEF Conserved
<1>3. Numbering(e)
  BY <1>1 DEF Sound, Numbering
<1> QED
  BY <1>1, <1>2, <1>3 DEF Sound

(* A sample enters a window that is open.                                  *)
LEMMA OldWindow ==
    ASSUME NEW w, Open(w), NEW s \in DOMAIN w, NEW v \in Nat
    PROVE  LET u == [w EXCEPT ![s] = Update(w[s], v)]
           IN  Open(u) /\ CountOf(u) = CountOf(w) + 1 /\ SumOf(u) = SumOf(w) + v
<1> DEFINE x == Update(w[s], v)
           u == [w EXCEPT ![s] = x]
           g == [t \in DOMAIN w \ {s} |-> w[t]]
<1>1. w[s] \in Windows /\ Agrees(w[s]) /\ w[s].start <= clock
  BY DEF Open
<1>2. /\ x \in Windows /\ Agrees(x) /\ x.count = w[s].count + 1 /\ x.sum = w[s].sum + v
      /\ x.start <= clock
  BY <1>1, UpdateAgrees
<1> HIDE DEF x
<1>3. DOMAIN u = DOMAIN w /\ u[s] = x /\ \A t \in DOMAIN w \ {s} : u[t] = w[t]
  OBVIOUS
<1>4. DOMAIN g = DOMAIN w \ {s} /\ \A t \in DOMAIN g : g[t] = w[t]
  OBVIOUS
<1> HIDE DEF u, g
<1>5. Open(u)
  BY <1>2, <1>3 DEF Open
<1>6. Countable(u) /\ Countable(w)
  BY <1>5, WindowsCountable
<1>7. CountOf(w) = w[s].count + CountOf(g) /\ SumOf(w) = w[s].sum + SumOf(g) /\ Countable(g)
  BY <1>4, <1>6, HoldingsMore
<1>8. CountOf(u) = u[s].count + CountOf(g) /\ SumOf(u) = u[s].sum + SumOf(g)
  <2>1. s \in DOMAIN u /\ DOMAIN g = DOMAIN u \ {s} /\ \A t \in DOMAIN g : g[t] = u[t]
    BY <1>3, <1>4
  <2> QED
    BY <1>6, <2>1, HoldingsMore
<1>9. CountOf(g) \in Nat /\ SumOf(g) \in Nat /\ w[s].count \in Nat /\ w[s].sum \in Nat
  BY <1>1, <1>7, HoldingsType DEF Windows
<1>10. CountOf(u) = CountOf(w) + 1 /\ SumOf(u) = SumOf(w) + v
  BY <1>2, <1>3, <1>7, <1>8, <1>9
<1> QED
  BY <1>5, <1>10 DEF u, x

(* A sample opens a window.                                                *)
LEMMA FreshWindow ==
    ASSUME NEW w, Open(w), NEW s \in Streams \ RawStreams, s \notin DOMAIN w, NEW v \in Nat,
           Cardinality(DOMAIN w) < MaxStreams, clock \in Nat
    PROVE  LET u == With(w, s, NewWindow(v, clock))
           IN  Open(u) /\ CountOf(u) = CountOf(w) + 1 /\ SumOf(u) = SumOf(w) + v
<1> DEFINE x == NewWindow(v, clock)
           u == With(w, s, x)
<1>1. /\ x \in Windows /\ Agrees(x) /\ x.count = 1 /\ x.sum = v /\ x.start = clock
  BY NewWindowAgrees
<1> HIDE DEF x
<1>2. /\ DOMAIN u = DOMAIN w \cup {s} /\ u[s] = x /\ DOMAIN w = DOMAIN u \ {s}
      /\ \A t \in DOMAIN w : u[t] = w[t]
  BY DEF With
<1> HIDE DEF u
<1>3. Countable(w)
  BY WindowsCountable
<1>4. Open(u)
  <2>1. IsFiniteSet(DOMAIN w) /\ Cardinality(DOMAIN w) \in Nat /\ MaxStreams \in Nat
    BY <1>3, FS_CardinalityType, MetricsAssumption DEF Countable
  <2>2. Cardinality(DOMAIN u) = Cardinality(DOMAIN w) + 1
    BY <1>2, <2>1, FS_AddElement
  <2>3. Cardinality(DOMAIN u) <= MaxStreams
    BY <2>1, <2>2
  <2>4. clock <= clock
    OBVIOUS
  <2> QED
    BY <1>1, <1>2, <2>3, <2>4 DEF Open
<1>5. Countable(u)
  BY <1>4, WindowsCountable
<1>6. CountOf(u) = u[s].count + CountOf(w) /\ SumOf(u) = u[s].sum + SumOf(w)
  <2>1. s \in DOMAIN u /\ \A t \in DOMAIN w : w[t] = u[t]
    BY <1>2
  <2> QED
    BY <1>2, <1>5, <2>1, HoldingsMore
<1>7. CountOf(w) \in Nat /\ SumOf(w) \in Nat
  BY <1>3, HoldingsType
<1>8. CountOf(u) = CountOf(w) + 1 /\ SumOf(u) = SumOf(w) + v
  BY <1>1, <1>2, <1>6, <1>7
<1> QED
  BY <1>4, <1>8 DEF u, x

(* One sample.                                                             *)
LEMMA SampleSound ==
    ASSUME NEW a, Sound(a), Open(states), Given(seq), clock \in Nat,
           NEW x, x.stream \in Streams, x.value \in Nat
    PROVE  Sound(IngestSample(a, x))
<1> DEFINE s == x.stream
           v == x.value
<1>1. CASE Raw(s)
  <2>1. IngestSample(a, x) = Emit(Take(a, v), s, NewWindow(v, clock))
    BY <1>1 DEF IngestSample
  <2> QED
    BY <2>1, RawSound
<1>2. CASE ~Raw(s) /\ s \in DOMAIN a.states
  <2>1. PICK e, b, w : /\ e = IngestSample(a, x) /\ b = Take(a, v)
                       /\ w = [a.states EXCEPT ![s] = Update(a.states[s], v)]
    BY Zenon
  <2>2. e = [b EXCEPT !.states[s] = Update(@, v)]
    BY <1>2, <2>1, Zenon DEF IngestSample
  <2>3. b = [states |-> a.states, seq |-> a.seq, ready |-> a.ready,
             count |-> a.count + 1, sum |-> a.sum + v]
    BY <2>1, TakeIs DEF Sound
  <2>4. e = [b EXCEPT !.states = w]
    BY <2>1, <2>2, <2>3
  <2>5. e = [states |-> w, seq |-> a.seq, ready |-> a.ready,
             count |-> a.count + 1, sum |-> a.sum + v]
    BY <2>3, <2>4
  <2>6. Open(w) /\ CountOf(w) = CountOf(a.states) + 1 /\ SumOf(w) = SumOf(a.states) + v
    BY <1>2, <2>1, OldWindow DEF Sound
  <2>7. Sound(e)
    BY <2>5, <2>6, WindowSound
  <2> QED
    BY <2>1, <2>7
<1>3. CASE ~Raw(s) /\ s \notin DOMAIN a.states /\ Cardinality(DOMAIN a.states) < MaxStreams
  <2>1. PICK e, b, w : /\ e = IngestSample(a, x) /\ b = Take(a, v)
                       /\ w = With(a.states, s, NewWindow(v, clock))
    BY Zenon
  <2>2. b = [states |-> a.states, seq |-> a.seq, ready |-> a.ready,
             count |-> a.count + 1, sum |-> a.sum + v]
    BY <2>1, TakeIs DEF Sound
  <2>3. e = [b EXCEPT !.states = With(@, s, NewWindow(v, clock))]
    BY <1>3, <2>1, Zenon DEF IngestSample
  <2>4. e = [b EXCEPT !.states = w]
    BY <2>1, <2>2, <2>3
  <2>5. e = [states |-> w, seq |-> a.seq, ready |-> a.ready,
             count |-> a.count + 1, sum |-> a.sum + v]
    BY <2>2, <2>4
  <2>6. s \in Streams \ RawStreams
    BY <1>3 DEF Raw
  <2>7. Open(w) /\ CountOf(w) = CountOf(a.states) + 1 /\ SumOf(w) = SumOf(a.states) + v
    BY <1>3, <2>1, <2>6, FreshWindow DEF Sound
  <2>8. Sound(e)
    BY <2>5, <2>7, WindowSound
  <2> QED
    BY <2>1, <2>8
<1>4. CASE /\ ~Raw(s) /\ s \notin DOMAIN a.states
           /\ ~(Cardinality(DOMAIN a.states) < MaxStreams)
  <2>1. IngestSample(a, x) = a
    BY <1>4, Zenon DEF IngestSample
  <2> QED
    BY <2>1
<1> QED
  BY <1>1, <1>2, <1>3, <1>4

(* A window that has elapsed.                                              *)
LEMMA FlushSound ==
    ASSUME NEW a, Sound(a), Open(states), Given(seq), NEW s \in DOMAIN a.states
    PROVE  Sound(FlushWindow(a, s)) /\ DOMAIN FlushWindow(a, s).states = DOMAIN a.states \ {s}
<1> DEFINE w == a.states[s]
           n == LastNumber(a.seq, s) + 1
           r == Reading(s, n, w)
           g == [t \in DOMAIN a.states \ {s} |-> a.states[t]]
<1>1. PICK e, b : e = FlushWindow(a, s) /\ b = Emit(a, s, w)
  BY Zenon
<1>2. b = [states |-> a.states, seq |-> With(a.seq, s, n), ready |-> Append(a.ready, r),
           count |-> a.count, sum |-> a.sum]
  BY <1>1, EmitIs DEF Sound
<1>3. e = [b EXCEPT !.states = g]
  BY <1>1, Zenon DEF FlushWindow
<1>4. w \in Windows /\ Agrees(w) /\ s \in Streams
  BY DEF Sound, Open
<1>5. n \in Nat
  BY LastNumberType DEF Sound, Numbering
<1>6. /\ r \in Readings /\ Agrees(r) /\ r.stream = s /\ r.seq = n
      /\ r.count = w.count /\ r.sum = w.sum
  BY <1>4, <1>5, ReadingAgrees
<1>7. DOMAIN g = DOMAIN a.states \ {s} /\ \A t \in DOMAIN g : g[t] = a.states[t]
  OBVIOUS
<1> HIDE DEF r, g
<1>8. /\ Shaped(e) /\ e.states = g /\ e.seq = With(a.seq, s, n)
      /\ e.ready = Append(a.ready, r) /\ e.count = a.count /\ e.sum = a.sum
  BY <1>2, <1>3 DEF Shaped
<1> HIDE DEF n, w
<1>9. Numbering(e)
  <2>1. n = LastNumber(a.seq, r.stream) + 1
    BY <1>6 DEF n
  <2>2. /\ Given(With(a.seq, r.stream, r.seq)) /\ InOrder(Append(a.ready, r), With(a.seq, r.stream, r.seq))
        /\ Continues(Append(a.ready, r), seq, With(a.seq, r.stream, r.seq))
    BY <1>6, <2>1, NextReading DEF Sound, Numbering
  <2> QED
    BY <1>6, <1>8, <2>2 DEF Numbering
<1>10. Countable(a.states) /\ IsFiniteSet(DOMAIN a.states)
  BY WindowsCountable DEF Sound, Countable
<1>11. Open(g)
  <2>1. /\ IsFiniteSet(DOMAIN g) /\ Cardinality(DOMAIN g) <= Cardinality(DOMAIN a.states)
        /\ Cardinality(DOMAIN g) \in Nat /\ Cardinality(DOMAIN a.states) \in Nat
    BY <1>7, <1>10, FS_Subset, FS_CardinalityType
  <2>2. MaxStreams \in Nat /\ Cardinality(DOMAIN a.states) <= MaxStreams
    BY MetricsAssumption DEF Sound, Open
  <2>3. Cardinality(DOMAIN g) <= MaxStreams
    BY <2>1, <2>2
  <2> QED
    BY <1>7, <2>3 DEF Sound, Open
<1>12. Conserved(e)
  <2>1. a.ready \in Seq(Readings) /\ Countable(a.ready)
    BY ReadingsCountable DEF Sound, Numbering, InOrder
  <2>2. CountOf(e.ready) = CountOf(a.ready) + r.count /\ SumOf(e.ready) = SumOf(a.ready) + r.sum
    BY <1>6, <1>8, <2>1, HoldingsAppend
  <2>3. /\ CountOf(a.states) = w.count + CountOf(g) /\ SumOf(a.states) = w.sum + SumOf(g)
        /\ Countable(g)
    BY <1>7, <1>10, HoldingsMore DEF w
  <2>4. /\ a.count \in Nat /\ a.count + CountOf(states) = CountOf(a.ready) + CountOf(a.states)
        /\ a.sum \in Nat /\ a.sum + SumOf(states) = SumOf(a.ready) + SumOf(a.states)
    BY DEF Sound, Conserved
  <2>5. /\ CountOf(states) \in Nat /\ SumOf(states) \in Nat
        /\ CountOf(a.ready) \in Nat /\ SumOf(a.ready) \in Nat
        /\ CountOf(g) \in Nat /\ SumOf(g) \in Nat /\ w.count \in Nat /\ w.sum \in Nat
    BY <1>4, <2>1, <2>3, WindowsCountable, HoldingsType DEF Windows
  <2>6. a.count + CountOf(states) = CountOf(e.ready) + CountOf(g)
    BY <1>6, <2>2, <2>3, <2>4, <2>5
  <2>7. a.sum + SumOf(states) = SumOf(e.ready) + SumOf(g)
    BY <1>6, <2>2, <2>3, <2>4, <2>5
  <2> QED
    BY <1>8, <2>4, <2>6, <2>7 DEF Conserved
<1>13. Sound(e)
  BY <1>8, <1>9, <1>11, <1>12 DEF Sound
<1> QED
  BY <1>1, <1>7, <1>8, <1>13

(* SetToSeq lists every element once.                                      *)
LEMMA Listing ==
    ASSUME NEW S, IsFiniteSet(S)
    PROVE  /\ Cardinality(S) \in Nat
           /\ SetToSeq(S) \in [1 .. Cardinality(S) -> S]
           /\ \A i, j \in 1 .. Cardinality(S) : SetToSeq(S)[i] = SetToSeq(S)[j] => i = j
<1>1. Cardinality(S) \in Nat
  BY FS_CardinalityType
<1>2. PICK f : f \in Bijection(1 .. Cardinality(S), S)
  BY FS_CardinalityType DEF ExistsBijection
<1>3. f \in [1 .. Cardinality(S) -> S] /\ IsInjective(f)
  BY <1>2 DEF Bijection, Injection, IsInjective
<1>4. SetToSeq(S) \in [1 .. Cardinality(S) -> S] /\ IsInjective(SetToSeq(S))
  BY <1>3 DEF SetToSeq
<1> QED
  BY <1>1, <1>4 DEF IsInjective

(* A batch of samples.                                                     *)
Batch(b) == \E n \in Nat : DOMAIN b = 1 .. n /\ \A i \in 1 .. n : b[i].stream \in Streams /\ b[i].value \in Nat

(* Aggregator::ingest keeps everything it was given.                       *)
THEOREM IngestSound ==
    ASSUME Open(states), Given(seq), clock \in Nat, NEW b, Batch(b)
    PROVE  Sound(Ingest(b))
<1> DEFINE start == [states |-> states, seq |-> seq, ready |-> <<>>, count |-> 0, sum |-> 0]
           taken == Samples(start, b)
           q == SetToSeq(Expired(taken))
           m == Cardinality(Expired(taken))
           last == Flushed(taken, q)
<1>1. Sound(start)
  <2>1. /\ Shaped(start) /\ start.states = states /\ start.seq = seq /\ start.ready = <<>>
        /\ start.count = 0 /\ start.sum = 0
    BY DEF Shaped
  <2> HIDE DEF start
  <2>2. <<>> \in Seq(Readings) /\ Len(<<>>) = 0 /\ DOMAIN <<>> = {}
    BY EmptySeq
  <2>3. \A i \in 1 .. Len(<<>>) : FALSE
    BY <2>2
  <2>4. InOrder(start.ready, start.seq)
    BY <2>1, <2>2, <2>3 DEF InOrder
  <2>5. ASSUME NEW s \in Streams
        PROVE  /\ LastNumber(seq, s) <= LastNumber(seq, s)
               /\ Behind(<<>>, 0, s) = LastNumber(seq, s) + 1 .. LastNumber(seq, s)
    <3>1. LastNumber(seq, s) \in Nat
      BY LastNumberType
    <3>2. Behind(<<>>, 0, s) = {}
      BY <2>2, BehindLast
    <3>3. LastNumber(seq, s) <= LastNumber(seq, s) /\ LastNumber(seq, s) + 1 .. LastNumber(seq, s) = {}
      BY <3>1
    <3> QED
      BY <3>2, <3>3, Zenon
  <2>6. Continues(start.ready, seq, start.seq)
    BY <2>1, <2>5 DEF Continues
  <2>7. CountOf(<<>>) = 0 /\ SumOf(<<>>) = 0
    BY <2>2, HoldingsEmpty
  <2>8. CountOf(states) \in Nat /\ SumOf(states) \in Nat
    BY WindowsCountable, HoldingsType
  <2>9. Conserved(start)
    BY <2>1, <2>7, <2>8 DEF Conserved
  <2> QED
    BY <2>1, <2>4, <2>6, <2>9 DEF Sound, Numbering
<1>2. Ingest(b) = last
  BY DEF Ingest, Samples, Flushed
<1> HIDE DEF start
<1>3. Sound(taken)
  <2> HIDE DEF taken, q, m, last
  <2>1. PICK n \in Nat : DOMAIN b = 1 .. n /\ \A i \in 1 .. n : b[i].stream \in Streams /\ b[i].value \in Nat
    BY DEF Batch
  <2>0. n \in Nat /\ DOMAIN b = 1 .. n
    BY <2>1
  <2>2. PICK iter : Samples(start, b) = iter[1 .. n] /\ Ingesting(iter, start, b, n)
    BY <2>0, FoldSamples
  <2>7. taken = iter[1 .. n]
    BY <2>2 DEF taken
  <2>8. iter[{}] = start
    BY <2>2, Zenon DEF Ingesting
  <2>9. \A k \in 1 .. n : iter[1 .. k] = IngestSample(iter[1 .. k - 1], b[k])
    BY <2>2, Zenon DEF Ingesting
  <2> DEFINE S == {k \in Nat : k <= n => Sound(iter[1 .. k])}
  <2>3. 0 \in S
    <3>1. 1 .. 0 = {}
      OBVIOUS
    <3>2. iter[1 .. 0] = start
      BY <2>8, <3>1, Zenon
    <3>3. Sound(iter[1 .. 0])
      BY <1>1, <3>2, Zenon
    <3>4. 0 \in Nat
      OBVIOUS
    <3> QED
      BY <3>3, <3>4, Zenon
  <2>4. ASSUME NEW k \in Nat, k \in S PROVE k + 1 \in S
    <3>1. k + 1 \in Nat
      OBVIOUS
    <3>2. ASSUME k + 1 <= n PROVE Sound(iter[1 .. k + 1])
      <4>1. k + 1 \in 1 .. n /\ (k + 1) - 1 = k /\ k <= n
        BY <2>1, <3>2
      <4>2. Sound(iter[1 .. k])
        BY <2>4, <4>1
      <4>3. iter[1 .. k + 1] = IngestSample(iter[1 .. k], b[k + 1])
        BY <2>9, <4>1
      <4>4. b[k + 1].stream \in Streams /\ b[k + 1].value \in Nat
        BY <2>1, <4>1
      <4>5. Sound(IngestSample(iter[1 .. k], b[k + 1]))
        BY <4>2, <4>4, SampleSound
      <4> QED
        BY <4>3, <4>5
    <3> QED
      BY <3>1, <3>2, Zenon
  <2>5. Nat \subseteq S
    <3> HIDE DEF S
    <3> QED
      BY <2>3, <2>4, SetInduction
  <2>6. n <= n
    BY <2>1
  <2> QED
    BY <2>1, <2>7, <2>5, <2>6
<1> HIDE DEF taken
<1>4. Expired(taken) \subseteq DOMAIN taken.states /\ IsFiniteSet(DOMAIN taken.states)
  BY <1>3, WindowsCountable DEF Expired, Sound, Countable
<1>5. /\ m \in Nat /\ q \in [1 .. m -> Expired(taken)]
      /\ \A i, j \in 1 .. m : q[i] = q[j] => i = j
  BY <1>4, FS_Subset, Listing
<1> HIDE DEF q, m
<1>6. DOMAIN q = 1 .. m
  BY <1>5
<1>12. PICK iter : Flushed(taken, q) = iter[1 .. m] /\ Flushing(iter, taken, q, m)
  BY <1>5, <1>6, FoldWindows
<1>7. /\ last = iter[1 .. m]
      /\ iter[{}] = taken
      /\ \A k \in 1 .. m : iter[1 .. k] = FlushWindow(iter[1 .. k - 1], q[k])
  <2>1. last = iter[1 .. m]
    BY <1>12, Zenon DEF last
  <2>2. /\ iter[{}] = taken
        /\ \A k \in 1 .. m : iter[1 .. k] = FlushWindow(iter[1 .. k - 1], q[k])
    BY <1>12, Zenon DEF Flushing
  <2> QED
    BY <2>1, <2>2, Zenon
<1> HIDE DEF last
<1> DEFINE Left(k) == \A i \in k + 1 .. m : q[i] \in DOMAIN iter[1 .. k].states
           S == {k \in Nat : k <= m => Sound(iter[1 .. k]) /\ Left(k)}
<1>8. 0 \in S
  <2>1. 1 .. 0 = {} /\ 0 + 1 = 1
    OBVIOUS
  <2>2. \A i \in 1 .. m : q[i] \in DOMAIN taken.states
    BY <1>4, <1>5
  <2> QED
    BY <1>3, <1>7, <2>1, <2>2
<1>9. ASSUME NEW k \in Nat, k \in S PROVE k + 1 \in S
  <2>1. k + 1 \in Nat
    OBVIOUS
  <2>2. ASSUME k + 1 <= m PROVE Sound(iter[1 .. k + 1]) /\ Left(k + 1)
    <3>1. k + 1 \in 1 .. m /\ (k + 1) - 1 = k /\ k <= m /\ k + 1 \in k + 1 .. m
      BY <1>5, <2>2
    <3>2. Sound(iter[1 .. k]) /\ Left(k)
      BY <1>9, <3>1
    <3>3. iter[1 .. k + 1] = FlushWindow(iter[1 .. k], q[k + 1])
      BY <1>7, <3>1
    <3>4. q[k + 1] \in DOMAIN iter[1 .. k].states
      BY <3>1, <3>2
    <3>5. /\ Sound(iter[1 .. k + 1])
          /\ DOMAIN iter[1 .. k + 1].states = DOMAIN iter[1 .. k].states \ {q[k + 1]}
      BY <3>2, <3>3, <3>4, FlushSound
    <3>6. ASSUME NEW i \in (k + 1) + 1 .. m PROVE q[i] \in DOMAIN iter[1 .. k + 1].states
      <4>1. i \in k + 1 .. m /\ i \in 1 .. m /\ i # k + 1
        BY <1>5
      <4>2. q[i] # q[k + 1]
        BY <1>5, <3>1, <4>1
      <4>3. q[i] \in DOMAIN iter[1 .. k].states
        BY <3>2, <4>1
      <4> QED
        BY <3>5, <4>2, <4>3
    <3> QED
      BY <3>5, <3>6
  <2> QED
    BY <2>1, <2>2, Zenon
<1>10. Nat \subseteq S
  <2> HIDE DEF S
  <2> QED
    BY <1>8, <1>9, SetInduction
<1>11. m <= m
  BY <1>5
<1> QED
  BY <1>2, <1>5, <1>7, <1>10, <1>11 DEF last

-----------------------------------------------------------------------------
(* A tick.                                                                 *)

(* Readings that continue those that wait.                                 *)
LEMMA JoinInOrder ==
    ASSUME NEW p, NEW q, NEW before, NEW after, Given(before), Given(after),
           InOrder(p, before), InOrder(q, after), Continues(q, before, after)
    PROVE  InOrder(p \o q, after)
<1> DEFINE f == p \o q
<1>1. p \in Seq(Readings) /\ q \in Seq(Readings)
  BY DEF InOrder
<1>2. /\ f \in Seq(Readings) /\ Len(f) = Len(p) + Len(q)
      /\ \A i \in 1 .. Len(f) : f[i] = IF i <= Len(p) THEN p[i] ELSE q[i - Len(p)]
  BY <1>1, ConcatProperties
<1>3. Len(p) \in Nat /\ Len(q) \in Nat
  BY <1>1, LenProperties
<1>4. \A s : /\ \A i \in 0 .. Len(p) : Behind(f, i, s) = Behind(p, i, s) \cup Behind(q, 0, s)
             /\ \A i \in Nat : Behind(f, Len(p) + i, s) = Behind(q, i, s)
  BY <1>1, BehindConcat
<1> HIDE DEF f
<1>5. ASSUME NEW i \in 1 .. Len(f)
      PROVE  LET r    == f[i]
                 last == LastNumber(after, r.stream)
             IN  r.seq <= last /\ Behind(f, i, r.stream) = r.seq + 1 .. last /\ Agrees(r)
  <2>1. CASE i <= Len(p)
    <3> DEFINE r == p[i]
               m == LastNumber(before, r.stream)
               n == LastNumber(after, r.stream)
    <3>1. i \in 1 .. Len(p) /\ i \in 0 .. Len(p) /\ f[i] = r
      BY <1>2, <1>3, <2>1
    <3>2. r \in Readings
      BY <1>1, <3>1, ElementOfSeq
    <3>3. r.seq \in Nat /\ r.stream \in Streams
      BY <3>2 DEF Readings
    <3>4. r.seq <= m /\ Behind(p, i, r.stream) = r.seq + 1 .. m /\ Agrees(r)
      BY <3>1 DEF InOrder
    <3>5. m <= n /\ Behind(q, 0, r.stream) = m + 1 .. n
      BY <3>3 DEF Continues
    <3>6. m \in Nat /\ n \in Nat
      BY LastNumberType
    <3>7. Behind(f, i, r.stream) = Behind(p, i, r.stream) \cup Behind(q, 0, r.stream)
      BY <1>4, <3>1
    <3> HIDE DEF r, m
    <3>8. (r.seq + 1 .. m) \cup (m + 1 .. n) = r.seq + 1 .. n /\ r.seq <= n
      <4> HIDE DEF n
      <4>1. PICK k \in Nat : k = r.seq
        BY <3>3
      <4>2. (k + 1 .. m) \cup (m + 1 .. n) = k + 1 .. n /\ k <= n
        BY <3>4, <3>5, <3>6, <4>1
      <4> QED
        BY <4>1, <4>2
    <3> QED
      BY <3>1, <3>4, <3>5, <3>7, <3>8
  <2>2. CASE ~(i <= Len(p))
    <3> DEFINE j == i - Len(p)
    <3>1. j \in 1 .. Len(q) /\ j \in Nat /\ Len(p) + j = i /\ f[i] = q[j]
      BY <1>2, <1>3, <2>2
    <3> HIDE DEF j
    <3>2. Behind(f, i, q[j].stream) = Behind(q, j, q[j].stream)
      BY <1>4, <3>1
    <3> QED
      BY <3>1, <3>2 DEF InOrder
  <2> QED
    BY <2>1, <2>2
<1>6. InOrder(f, after)
  BY <1>2, <1>5 DEF InOrder
<1> QED
  BY <1>6 DEF f

(* The newest of them.                                                     *)
LEMMA SliceInOrder ==
    ASSUME NEW q, NEW numbers, InOrder(q, numbers), NEW k \in 1 .. Len(q) + 1
    PROVE  LET f == SubSeq(q, k, Len(q))
           IN  /\ InOrder(f, numbers) /\ Len(f) = Len(q) - k + 1
               /\ \A i \in 1 .. Len(f) : k + i - 1 \in 1 .. Len(q) /\ f[i] = q[k + i - 1]
<1> DEFINE f == SubSeq(q, k, Len(q))
<1>1. q \in Seq(Readings) /\ Len(q) \in Nat
  BY LenProperties DEF InOrder
<1>2. /\ f \in Seq(Readings) /\ Len(f) = Len(q) - k + 1
      /\ \A i \in 1 .. Len(f) : f[i] = q[k + i - 1]
  <2>1. k \in 1 .. Len(q) + 1 /\ Len(q) \in k - 1 .. Len(q)
    BY <1>1
  <2> QED
    BY <1>1, <2>1, SubSeqProperties
<1>3. \A s : \A i \in Nat : Behind(f, i, s) = Behind(q, i + k - 1, s)
  BY <1>1, BehindSlice
<1> HIDE DEF f
<1>4. ASSUME NEW i \in 1 .. Len(f)
      PROVE  LET r    == f[i]
                 last == LastNumber(numbers, r.stream)
             IN  /\ r.seq <= last /\ Behind(f, i, r.stream) = r.seq + 1 .. last /\ Agrees(r)
                 /\ k + i - 1 \in 1 .. Len(q)
  <2>1. k + i - 1 \in 1 .. Len(q) /\ k + i - 1 = i + k - 1 /\ i \in Nat
    BY <1>1, <1>2
  <2>2. f[i] = q[k + i - 1]
    BY <1>2
  <2>3. Behind(f, i, f[i].stream) = Behind(q, k + i - 1, f[i].stream)
    BY <1>3, <2>1
  <2> QED
    BY <2>1, <2>2, <2>3 DEF InOrder
<1>5. InOrder(f, numbers)
  BY <1>2, <1>4 DEF InOrder
<1> QED
  BY <1>2, <1>4, <1>5 DEF f

(* CapPending keeps at most MaxPending.                                    *)
LEMMA Capped ==
    ASSUME NEW q, NEW numbers, InOrder(q, numbers)
    PROVE  /\ InOrder(CapPending(q), numbers)
           /\ Len(CapPending(q)) <= MaxPending
           /\ \A i \in 1 .. Len(CapPending(q)) : \E j \in 1 .. Len(q) : CapPending(q)[i] = q[j]
<1> DEFINE k == Max({1, Len(q) - MaxPending + 1})
<1>1. Len(q) \in Nat /\ MaxPending \in Nat \ {0}
  BY LenProperties, MetricsAssumption DEF InOrder
<1>2. k \in 1 .. Len(q) + 1 /\ Len(q) - k + 1 <= MaxPending
  <2>1. CASE Len(q) - MaxPending + 1 <= 1
    <3>1. k = 1
      <4> DEFINE T == {1, Len(q) - MaxPending + 1}
      <4>1. 1 \in T /\ 1 \in Int /\ \A y \in T : y \in Int /\ y <= 1
        BY <1>1, <2>1
      <4> HIDE DEF T
      <4>2. Max(T) = 1
        BY <4>1, Greatest
      <4> QED
        BY <4>2 DEF T
    <3> QED
      BY <1>1, <2>1, <3>1
  <2>2. CASE ~(Len(q) - MaxPending + 1 <= 1)
    <3> DEFINE m == Len(q) - MaxPending + 1
    <3>1. k = m
      <4> DEFINE T == {1, m}
      <4>1. m \in T /\ m \in Int /\ \A y \in T : y \in Int /\ y <= m
        BY <1>1, <2>2
      <4> HIDE DEF T
      <4>2. Max(T) = m
        BY <4>1, Greatest
      <4> QED
        BY <4>2 DEF T
    <3> QED
      BY <1>1, <2>2, <3>1
  <2> QED
    BY <2>1, <2>2
<1>3. CapPending(q) = SubSeq(q, k, Len(q))
  BY DEF CapPending
<1> HIDE DEF k
<1>4. /\ InOrder(CapPending(q), numbers) /\ Len(CapPending(q)) = Len(q) - k + 1
      /\ \A i \in 1 .. Len(CapPending(q)) :
            k + i - 1 \in 1 .. Len(q) /\ CapPending(q)[i] = q[k + i - 1]
  BY <1>2, <1>3, SliceInOrder
<1> QED
  BY <1>2, <1>4

(* What a tick feeds the aggregator, and what comes of it.                 *)
Sampled(values) ==
    [i \in DOMAIN SetToSeq(OsStreams) |->
       [stream |-> SetToSeq(OsStreams)[i],
        value  |-> IF SetToSeq(OsStreams)[i] \in RawStreams
                   THEN clock ELSE values[SetToSeq(OsStreams)[i]]]]

Done(values) == AddUptime(Ingest(Sampled(values) \o chan))

Samplings == [OsStreams \ RawStreams -> Values]

(* What the collector returns and the channel holds are samples of         *)
(* streams.                                                                *)
LEMMA SampledBatch ==
    ASSUME NEW values \in Samplings, clock \in Nat, chan \in Seq([stream : Custom, value : Nat])
    PROVE  Batch(Sampled(values) \o chan)
<1> DEFINE os == SetToSeq(OsStreams)
           n == Cardinality(OsStreams)
           T == [stream : Streams, value : Nat]
<1>1. n \in Nat /\ os \in [1 .. n -> OsStreams]
  <2>1. IsFiniteSet(OsStreams)
    BY MetricsAssumption, FS_Subset DEF Streams
  <2> QED
    BY <2>1, Listing
<1>2. ASSUME NEW i \in 1 .. n PROVE Sampled(values)[i] \in T
  <2>1. os[i] \in OsStreams /\ OsStreams \subseteq Streams
    BY <1>1 DEF Streams
  <2>2. IF os[i] \in RawStreams THEN clock \in Nat ELSE values[os[i]] \in Nat
    BY <2>1, MetricsAssumption DEF Samplings
  <2>3. Sampled(values)[i] =
          [stream |-> os[i], value |-> IF os[i] \in RawStreams THEN clock ELSE values[os[i]]]
    BY <1>1 DEF Sampled
  <2> QED
    BY <2>1, <2>2, <2>3
<1>3. Sampled(values) \in [1 .. n -> T]
  BY <1>1, <1>2 DEF Sampled
<1>4. \A f, k : k \in Nat /\ f \in [1 .. k -> T] => f \in Seq(T)
  <2> HIDE DEF T
  <2>1. Seq(T) = UNION {[1 .. k -> T] : k \in Nat}
    BY SeqDef, Zenon
  <2> SUFFICES ASSUME NEW k \in Nat, NEW f \in [1 .. k -> T]
               PROVE  f \in UNION {[1 .. j -> T] : j \in Nat}
    BY <2>1
  <2> QED
    BY Zenon
<1>5. chan \in Seq(T)
  <2>1. [stream : Custom, value : Nat] \subseteq T
    BY DEF Streams
  <2> QED
    BY <2>1, SeqMonotonic, Zenon
<1> DEFINE b == Sampled(values) \o chan
<1>6. b \in Seq(T)
  BY <1>1, <1>3, <1>4, <1>5, ConcatProperties
<1> HIDE DEF b
<1>7. DOMAIN b = 1 .. Len(b) /\ Len(b) \in Nat /\ \A i \in 1 .. Len(b) : b[i] \in T
  BY <1>6, LenProperties, ElementOfSeq
<1> QED
  BY <1>7 DEF Batch, b

(* The readings of a tick, with the uptime at the end.                     *)
LEMMA DoneSound ==
    ASSUME Open(states), Given(seq), clock \in Nat,
           chan \in Seq([stream : Custom, value : Nat]), NEW values \in Samplings
    PROVE  Sound(Done(values))
<1>1. Sound(Ingest(Sampled(values) \o chan))
  BY SampledBatch, IngestSound
<1>2. Uptime \in Streams
  BY DEF Streams
<1>3. CASE SendUptime
  BY <1>1, <1>2, <1>3, RawSound DEF Done, AddUptime
<1>4. CASE ~SendUptime
  BY <1>1, <1>4 DEF Done, AddUptime
<1> QED
  BY <1>3, <1>4
-----------------------------------------------------------------------------
(* The invariant.                                                          *)

Typed ==
    /\ clock \in Nat /\ faults \in Nat
    /\ Open(states)
    /\ Given(seq) /\ Given(seqFile) /\ Given(accepted)
    /\ chan \in Seq([stream : Custom, value : Nat]) /\ Len(chan) <= ChanCap
    /\ queue \in Seq(Readings) /\ Len(queue) <= QueueCap
    /\ pc \in {"idle", "publish", "save", "stopped", "down"}
    /\ {dirty, connected, loopAlive, unsaved} \subseteq BOOLEAN

Waiting ==
    /\ InOrder(pending, seq)
    /\ Len(pending) <= MaxPending
    /\ pos \in 1 .. Len(pending) + 1
    /\ pc # "publish" => pos = 1
    /\ pc = "down" => pending = <<>>

(* What is not handed over yet carries higher numbers than what is.        *)
Ahead ==
    /\ \A s \in Streams : LastNumber(accepted, s) <= LastNumber(seq, s)
    /\ loopAlive => \A i \in pos .. Len(pending) :
                       LastNumber(accepted, pending[i].stream) < pending[i].seq

Inv == Typed /\ Waiting /\ Ahead /\ SamplesConserved /\ CleanMeansSaved

(* No process runs at first.                                               *)
LEMMA InitInv == Init => Inv
<1> SUFFICES ASSUME Init PROVE Inv
  OBVIOUS
<1>1. /\ DOMAIN states = {} /\ DOMAIN seq = {} /\ DOMAIN seqFile = {} /\ DOMAIN accepted = {}
      /\ pending = <<>> /\ Len(pending) = 0 /\ DOMAIN pending = {}
      /\ chan = <<>> /\ queue = <<>> /\ Len(chan) = 0 /\ Len(queue) = 0
      /\ pending \in Seq(Readings) /\ queue \in Seq(Readings)
      /\ chan \in Seq([stream : Custom, value : Nat])
  BY EmptySeq DEF Init
<1>2. Cardinality(DOMAIN states) = 0
  BY <1>1, FS_EmptySet
<1>3. /\ MaxStreams \in Nat /\ MaxPending \in Nat /\ ChanCap \in Nat /\ QueueCap \in Nat
  BY MetricsAssumption
<1>4. Typed
  <2>1. Open(states)
    BY <1>1, <1>2, <1>3 DEF Open
  <2>2. Given(seq) /\ Given(seqFile) /\ Given(accepted)
    BY <1>1 DEF Given
  <2>3. /\ clock \in Nat /\ faults \in Nat
        /\ pc \in {"idle", "publish", "save", "stopped", "down"}
        /\ {dirty, connected, loopAlive, unsaved} \subseteq BOOLEAN
    BY DEF Init
  <2>4. Len(chan) <= ChanCap /\ Len(queue) <= QueueCap
    BY <1>1, <1>3
  <2> QED
    BY <1>1, <2>1, <2>2, <2>3, <2>4, Zenon DEF Typed
<1>5. Waiting
  <2>1. \A i \in 1 .. Len(pending) : FALSE
    BY <1>1
  <2>2. InOrder(pending, seq)
    BY <1>1, <2>1 DEF InOrder
  <2> QED
    BY <1>1, <1>3, <2>2 DEF Init, Waiting
<1>6. Ahead
  <2>1. \A s : LastNumber(accepted, s) = 0 /\ LastNumber(seq, s) = 0
    BY <1>1 DEF LastNumber
  <2> QED
    BY <2>1 DEF Ahead, Init
<1>7. SamplesConserved
  <2>1. /\ CountOf(pending) = 0 /\ SumOf(pending) = 0
        /\ CountOf(states) = 0 /\ SumOf(states) = 0
    BY <1>1, HoldingsEmpty
  <2> QED
    BY <2>1 DEF SamplesConserved, Init
<1>8. CleanMeansSaved
  BY DEF CleanMeansSaved, Init
<1> QED
  BY <1>4, <1>5, <1>6, <1>7, <1>8 DEF Inv

(* The numbers of a sound result, which continue those of the aggregator,  *)
(* are above every number accepted.                                        *)
LEMMA NewAhead ==
    ASSUME Typed, Ahead, NEW values \in Samplings,
           NEW i \in 1 .. Len(Done(values).ready)
    PROVE  LET r == Done(values).ready[i]
           IN  r.stream \in Streams /\ LastNumber(accepted, r.stream) < r.seq
<1> DEFINE d == Done(values)
           r == d.ready[i]
           m == LastNumber(seq, r.stream)
<1>1. Sound(d)
  BY DoneSound DEF Typed
<1> HIDE DEF d
<1>2. d.ready \in Seq(Readings) /\ Continues(d.ready, seq, d.seq)
  BY <1>1 DEF Sound, Numbering, InOrder
<1>3. r \in Readings
  BY <1>2, ElementOfSeq DEF d
<1>4. r.stream \in Streams /\ r.seq \in Nat
  BY <1>3 DEF Readings
<1>5. r.seq \in Behind(d.ready, 0, r.stream)
  <2>1. i \in 0 + 1 .. Len(d.ready)
    BY DEF d
  <2> QED
    BY <2>1, BehindIs
<1>6. Behind(d.ready, 0, r.stream) = m + 1 .. LastNumber(d.seq, r.stream)
  BY <1>2, <1>4 DEF Continues
<1>7. m \in Nat /\ LastNumber(accepted, r.stream) \in Nat /\ LastNumber(d.seq, r.stream) \in Nat
  BY <1>1, LastNumberType DEF Typed, Sound, Numbering
<1>8. LastNumber(accepted, r.stream) <= m
  BY <1>4 DEF Ahead
<1> QED
  BY <1>4, <1>5, <1>6, <1>7, <1>8 DEF d

(* What is pending after a tick, in the state before it.                   *)
LEMMA TickResult ==
    ASSUME Inv, pos = 1, NEW values \in Samplings
    PROVE  LET done == Done(values)
               all  == pending \o done.ready
               kept == CapPending(all)
           IN  /\ Open(done.states) /\ Given(done.seq)
               /\ InOrder(kept, done.seq) /\ Len(kept) <= MaxPending
               /\ \A s \in Streams : LastNumber(accepted, s) <= LastNumber(done.seq, s)
               /\ loopAlive => \A i \in 1 .. Len(kept) :
                                  LastNumber(accepted, kept[i].stream) < kept[i].seq
               /\ balance.count + done.count - (CountOf(all) - CountOf(kept))
                     = CountOf(kept) + CountOf(done.states)
               /\ balance.sum + done.sum - (SumOf(all) - SumOf(kept))
                     = SumOf(kept) + SumOf(done.states)
<1> DEFINE done == Done(values)
           all  == pending \o done.ready
           kept == CapPending(all)
<1>1. Sound(done)
  BY DoneSound DEF Inv, Typed
<1>2. \A i \in 1 .. Len(done.ready) : LastNumber(accepted, done.ready[i].stream) < done.ready[i].seq
  BY NewAhead DEF Inv
<1> HIDE DEF done
<1>3. /\ Open(done.states) /\ Given(done.seq) /\ InOrder(done.ready, done.seq)
      /\ Continues(done.ready, seq, done.seq) /\ Conserved(done)
      /\ done.ready \in Seq(Readings)
  BY <1>1 DEF Sound, Numbering, InOrder
<1>4. Given(seq) /\ Given(accepted) /\ InOrder(pending, seq) /\ pending \in Seq(Readings)
  BY DEF Inv, Typed, Waiting, InOrder
<1>5. InOrder(all, done.seq)
  BY <1>3, <1>4, JoinInOrder
<1>6. /\ Len(all) = Len(pending) + Len(done.ready)
      /\ \A i \in 1 .. Len(all) :
            all[i] = IF i <= Len(pending) THEN pending[i] ELSE done.ready[i - Len(pending)]
      /\ Len(pending) \in Nat /\ Len(done.ready) \in Nat
  BY <1>3, <1>4, ConcatProperties, LenProperties
<1>7. /\ CountOf(all) = CountOf(pending) + CountOf(done.ready)
      /\ SumOf(all) = SumOf(pending) + SumOf(done.ready)
  BY <1>3, <1>4, HoldingsConcat
<1> HIDE DEF all
<1>8. /\ InOrder(kept, done.seq) /\ Len(kept) <= MaxPending
      /\ \A i \in 1 .. Len(kept) : \E j \in 1 .. Len(all) : kept[i] = all[j]
  BY <1>5, Capped
<1> HIDE DEF kept
<1>9. ASSUME NEW s \in Streams PROVE LastNumber(accepted, s) <= LastNumber(done.seq, s)
  <2>1. LastNumber(accepted, s) <= LastNumber(seq, s) /\ LastNumber(seq, s) <= LastNumber(done.seq, s)
    BY <1>3 DEF Inv, Ahead, Continues
  <2>2. LastNumber(accepted, s) \in Nat /\ LastNumber(seq, s) \in Nat /\ LastNumber(done.seq, s) \in Nat
    BY <1>3, <1>4, LastNumberType
  <2> QED
    BY <2>1, <2>2
<1>10. ASSUME loopAlive, NEW i \in 1 .. Len(kept)
       PROVE  LastNumber(accepted, kept[i].stream) < kept[i].seq
  <2>1. PICK j \in 1 .. Len(all) : kept[i] = all[j]
    BY <1>8
  <2>2. CASE j <= Len(pending)
    <3>1. j \in pos .. Len(pending) /\ all[j] = pending[j]
      BY <1>6, <2>2
    <3> QED
      BY <1>10, <2>1, <3>1 DEF Inv, Ahead
  <2>3. CASE ~(j <= Len(pending))
    <3>1. j - Len(pending) \in 1 .. Len(done.ready) /\ all[j] = done.ready[j - Len(pending)]
      BY <1>6, <2>3
    <3> QED
      BY <1>2, <2>1, <3>1
  <2> QED
    BY <2>2, <2>3
<1>11. /\ CountOf(states) \in Nat /\ SumOf(states) \in Nat
       /\ CountOf(done.states) \in Nat /\ SumOf(done.states) \in Nat
  BY <1>3, WindowsCountable, HoldingsType DEF Inv, Typed
<1>12. kept \in Seq(Readings)
  BY <1>8 DEF InOrder
<1>13. /\ CountOf(pending) \in Nat /\ SumOf(pending) \in Nat
       /\ CountOf(done.ready) \in Nat /\ SumOf(done.ready) \in Nat
       /\ CountOf(kept) \in Nat /\ SumOf(kept) \in Nat
  BY <1>3, <1>4, <1>12, ReadingsCountable, HoldingsType
<1>14. balance.count + done.count - (CountOf(all) - CountOf(kept))
          = CountOf(kept) + CountOf(done.states)
  <2>1. PICK p \in Nat, s \in Nat, k \in Nat, r \in Nat, d \in Nat :
           /\ p = CountOf(pending) /\ s = CountOf(states) /\ k = CountOf(kept)
           /\ r = CountOf(done.ready) /\ d = CountOf(done.states)
    BY <1>11, <1>13
  <2>2. PICK c \in Nat : c = done.count /\ c + s = r + d
    BY <1>3, <2>1 DEF Conserved
  <2>3. balance.count = p + s /\ CountOf(all) = p + r
    BY <1>7, <2>1 DEF Inv, SamplesConserved
  <2>4. (p + s) + c - ((p + r) - k) = k + d
    BY <2>2
  <2> QED
    BY <2>1, <2>2, <2>3, <2>4
<1>15. balance.sum + done.sum - (SumOf(all) - SumOf(kept))
          = SumOf(kept) + SumOf(done.states)
  <2>1. PICK p \in Nat, s \in Nat, k \in Nat, r \in Nat, d \in Nat :
           /\ p = SumOf(pending) /\ s = SumOf(states) /\ k = SumOf(kept)
           /\ r = SumOf(done.ready) /\ d = SumOf(done.states)
    BY <1>11, <1>13
  <2>2. PICK c \in Nat : c = done.sum /\ c + s = r + d
    BY <1>3, <2>1 DEF Conserved
  <2>3. balance.sum = p + s /\ SumOf(all) = p + r
    BY <1>7, <2>1 DEF Inv, SamplesConserved
  <2>4. (p + s) + c - ((p + r) - k) = k + d
    BY <2>2
  <2> QED
    BY <2>1, <2>2, <2>3, <2>4
<1> QED
  BY <1>3, <1>8, <1>9, <1>10, <1>14, <1>15 DEF kept, all, done

(* Tick, split into what it needs and what it leaves.                      *)
LEMMA TickStep ==
    ASSUME Inv, NEW values \in Samplings, Tick(values)
    PROVE  Inv'
<1> DEFINE done == Done(values)
           all  == pending \o done.ready
           kept == CapPending(all)
<1>1. /\ pc = "idle" /\ chan' = <<>> /\ states' = done.states /\ seq' = done.seq
      /\ pending' = kept /\ pc' \in {"publish", "idle"} /\ pos' = 1
      /\ balance'.count = balance.count + done.count - (CountOf(all) - CountOf(kept))
      /\ balance'.sum = balance.sum + done.sum - (SumOf(all) - SumOf(kept))
      /\ UNCHANGED <<seqFile, unsaved, dirty, queue, connected, loopAlive, clock, faults, accepted>>
  BY DEF Tick, Done, Sampled, fileVars, linkVars, boundVars
<1>2. pos = 1
  BY <1>1 DEF Inv, Waiting
<1>3. /\ Open(done.states) /\ Given(done.seq)
      /\ InOrder(kept, done.seq) /\ Len(kept) <= MaxPending
      /\ \A s \in Streams : LastNumber(accepted, s) <= LastNumber(done.seq, s)
      /\ loopAlive => \A i \in 1 .. Len(kept) :
                         LastNumber(accepted, kept[i].stream) < kept[i].seq
      /\ balance.count + done.count - (CountOf(all) - CountOf(kept))
            = CountOf(kept) + CountOf(done.states)
      /\ balance.sum + done.sum - (SumOf(all) - SumOf(kept))
            = SumOf(kept) + SumOf(done.states)
  BY <1>2, TickResult
<1> HIDE DEF kept, all, done
<1>4. Len(kept) \in Nat
  BY <1>3, LenProperties DEF InOrder
<1>5. Typed'
  <2>1. Open(states)'
    BY <1>1, <1>3 DEF Open
  <2>2. Given(seq)' /\ Given(seqFile)' /\ Given(accepted)'
    BY <1>1, <1>3 DEF Given, Inv, Typed
  <2>3. /\ (chan \in Seq([stream : Custom, value : Nat]))' /\ (Len(chan) <= ChanCap)'
    BY <1>1, MetricsAssumption, EmptySeq
  <2>4. /\ (queue \in Seq(Readings))' /\ (Len(queue) <= QueueCap)'
        /\ (clock \in Nat)' /\ (faults \in Nat)'
        /\ ({dirty, connected, loopAlive, unsaved} \subseteq BOOLEAN)'
    BY <1>1 DEF Inv, Typed
  <2>5. (pc \in {"idle", "publish", "save", "stopped", "down"})'
    BY <1>1
  <2> QED
    BY <2>1, <2>2, <2>3, <2>4, <2>5 DEF Typed
<1>6. Waiting'
  <2>1. InOrder(pending, seq)'
    BY <1>1, <1>3 DEF InOrder
  <2>2. (pos \in 1 .. Len(pending) + 1)'
    BY <1>1, <1>4
  <2> QED
    BY <1>1, <1>3, <2>1, <2>2 DEF Waiting
<1>7. Ahead'
  BY <1>1, <1>3 DEF Ahead
<1>8. SamplesConserved'
  BY <1>1, <1>3 DEF SamplesConserved
<1>9. CleanMeansSaved'
  BY <1>1 DEF CleanMeansSaved, Inv
<1> QED
  BY <1>5, <1>6, <1>7, <1>8, <1>9 DEF Inv

(* Handing over the next reading.                                          *)
LEMMA PublishReadingStep == ASSUME Inv, PublishReading PROVE Inv'
<1> DEFINE r == pending[pos]
<1>1. /\ pc = "publish" /\ pos <= Len(pending) /\ loopAlive /\ Len(queue) < QueueCap
      /\ queue' = Append(queue, r) /\ pos' = pos + 1
      /\ accepted' = With(accepted, r.stream, r.seq)
      /\ UNCHANGED <<states, seq, seqFile, unsaved, pending, pc, dirty, connected, loopAlive,
                     chan, clock, faults, balance>>
  BY DEF PublishReading, aggVars, fileVars, appVars, boundVars
<1>2. pending \in Seq(Readings) /\ Len(pending) \in Nat /\ pos \in 1 .. Len(pending)
  BY <1>1, LenProperties DEF Inv, Waiting, InOrder
<1>3. r \in Readings /\ r.seq <= LastNumber(seq, r.stream)
      /\ Behind(pending, pos, r.stream) = r.seq + 1 .. LastNumber(seq, r.stream)
  BY <1>2, ElementOfSeq DEF Inv, Waiting, InOrder
<1> HIDE DEF r
<1>4. r.stream \in Streams /\ r.seq \in Nat
  BY <1>3 DEF Readings
<1>5. \A s : LastNumber(accepted', s) = IF s = r.stream THEN r.seq ELSE LastNumber(accepted, s)
  BY <1>1 DEF With, LastNumber
<1>6. Typed'
  <2>1. Given(accepted)'
    BY <1>1, <1>4 DEF With, Given, Inv, Typed
  <2>2. (queue \in Seq(Readings))' /\ (Len(queue) <= QueueCap)'
    <3>1. queue \in Seq(Readings) /\ Len(queue) \in Nat /\ QueueCap \in Nat
      BY LenProperties, MetricsAssumption DEF Inv, Typed
    <3>2. Append(queue, r) \in Seq(Readings) /\ Len(Append(queue, r)) = Len(queue) + 1
      BY <1>3, <3>1, AppendProperties
    <3> QED
      BY <1>1, <3>1, <3>2
  <2>3. Open(states)' /\ Given(seq)' /\ Given(seqFile)'
    BY <1>1 DEF Open, Given, Inv, Typed
  <2> QED
    BY <1>1, <2>1, <2>2, <2>3 DEF Inv, Typed
<1>7. Waiting'
  <2>1. InOrder(pending, seq)'
    BY <1>1 DEF InOrder, Inv, Waiting
  <2> QED
    BY <1>1, <1>2, <2>1 DEF Inv, Waiting
<1>8. Ahead'
  <2>1. \A s \in Streams : LastNumber(accepted', s) <= LastNumber(seq, s)
    BY <1>3, <1>5 DEF Inv, Ahead
  <2>2. ASSUME NEW i \in pos + 1 .. Len(pending)
        PROVE  LastNumber(accepted', pending[i].stream) < pending[i].seq
    <3>1. i \in pos .. Len(pending) /\ i \in 1 .. Len(pending)
      BY <1>2
    <3>2. CASE pending[i].stream = r.stream
      <4>1. pending[i].seq \in Behind(pending, pos, r.stream)
        BY <3>2, BehindIs
      <4>2. LastNumber(seq, r.stream) \in Nat
        BY LastNumberType DEF Inv, Typed
      <4>3. pending[i].seq > r.seq
        BY <1>3, <1>4, <4>1, <4>2
      <4>4. pending[i].seq \in Nat
        <5>1. pending[i] \in Readings
          BY <1>2, <3>1, ElementOfSeq
        <5> QED
          BY <5>1 DEF Readings
      <4> QED
        BY <1>4, <1>5, <3>2, <4>3, <4>4
    <3>3. CASE pending[i].stream # r.stream
      BY <1>1, <1>5, <3>1, <3>3 DEF Inv, Ahead
    <3> QED
      BY <3>2, <3>3
  <2> QED
    BY <1>1, <2>1, <2>2 DEF Ahead
<1>9. SamplesConserved'
  BY <1>1 DEF SamplesConserved, Inv
<1>10. CleanMeansSaved'
  BY <1>1 DEF CleanMeansSaved
<1> QED
  BY <1>6, <1>7, <1>8, <1>9, <1>10 DEF Inv

(* The end of a publishing, and of a save.                                 *)
LEMMA PublishedStep == ASSUME Inv, Published PROVE Inv'
<1>1. /\ pc = "publish" /\ pending' = <<>> /\ pos' = 1 /\ dirty' = TRUE
      /\ pc' \in {"save", "idle"}
      /\ balance'.count = balance.count - CountOf(pending)
      /\ balance'.sum = balance.sum - SumOf(pending)
      /\ UNCHANGED <<states, seq, seqFile, unsaved, queue, connected, loopAlive, chan, clock,
                     faults, accepted>>
  BY DEF Published, PublishedLeaving, aggVars, fileVars, linkVars, appVars, boundVars, Inv, Typed
<1>2. <<>> \in Seq(Readings) /\ Len(<<>>) = 0 /\ DOMAIN <<>> = {}
  BY EmptySeq
<1>3. Typed'
  <2>1. Open(states)' /\ Given(seq)' /\ Given(seqFile)' /\ Given(accepted)'
    BY <1>1 DEF Open, Given, Inv, Typed
  <2>2. ({dirty, connected, loopAlive, unsaved} \subseteq BOOLEAN)'
    BY <1>1 DEF Inv, Typed
  <2>3. (pc \in {"idle", "publish", "save", "stopped", "down"})'
    BY <1>1
  <2> QED
    BY <1>1, <2>1, <2>2, <2>3 DEF Inv, Typed
<1>4. Waiting'
  <2>1. (\A i \in 1 .. Len(pending) : FALSE)'
    BY <1>1, <1>2
  <2>2. InOrder(pending, seq)'
    BY <1>1, <1>2, <2>1 DEF InOrder
  <2> QED
    BY <1>1, <1>2, <2>2, MetricsAssumption DEF Waiting
<1>5. Ahead'
  <2>1. (\A i \in pos .. Len(pending) : FALSE)'
    BY <1>1, <1>2
  <2> QED
    BY <1>1, <2>1 DEF Inv, Ahead
<1>6. SamplesConserved'
  <2>1. CountOf(<<>>) = 0 /\ SumOf(<<>>) = 0
    BY <1>2, HoldingsEmpty
  <2>2. /\ CountOf(pending) \in Nat /\ SumOf(pending) \in Nat
        /\ CountOf(states) \in Nat /\ SumOf(states) \in Nat
    BY ReadingsCountable, WindowsCountable, HoldingsType DEF Inv, Waiting, InOrder, Typed
  <2> QED
    BY <1>1, <2>1, <2>2 DEF Inv, SamplesConserved
<1>7. CleanMeansSaved'
  BY <1>1 DEF CleanMeansSaved
<1> QED
  BY <1>3, <1>4, <1>5, <1>6, <1>7 DEF Inv

(* The file is written, or is not.                                         *)
LEMMA SaveStep == ASSUME Inv, PeriodicSave \/ Stop PROVE Inv'
<1>1. /\ pc \in {"save", "idle"} /\ pc' \in {"idle", "stopped"}
      /\ seqFile' = seq \/ seqFile' = seqFile
      /\ dirty' = FALSE \/ dirty' = dirty
      /\ faults' = faults \/ faults' = faults + 1
      /\ unsaved' \in BOOLEAN
      /\ UNCHANGED <<states, seq, pending, pos, queue, connected, loopAlive, chan, clock,
                     accepted, balance>>
  <2>1. CASE PeriodicSave
    BY <2>1 DEF PeriodicSave, SaveSeq, aggVars, linkVars, appVars, histVars, Inv, Typed
  <2>2. CASE Stop
    BY <2>2 DEF Stop, SaveSeq, aggVars, fileVars, linkVars, appVars, histVars, Inv, Typed
  <2> QED
    BY <2>1, <2>2
<1>2. pc' = "idle" /\ ~unsaved' => seqFile' = seq
  BY DEF PeriodicSave, Stop, SaveSeq, Inv, Typed
<1>3. Typed'
  <2>1. Open(states)' /\ Given(seq)' /\ Given(accepted)'
    BY <1>1 DEF Open, Given, Inv, Typed
  <2>2. Given(seqFile)'
    BY <1>1 DEF Given, Inv, Typed
  <2>3. ({dirty, connected, loopAlive, unsaved} \subseteq BOOLEAN)'
    BY <1>1 DEF Inv, Typed
  <2>4. (pc \in {"idle", "publish", "save", "stopped", "down"})'
    BY <1>1
  <2>5. (faults \in Nat)'
    BY <1>1 DEF Inv, Typed
  <2> QED
    BY <1>1, <2>1, <2>2, <2>3, <2>4, <2>5 DEF Inv, Typed
<1>4. Waiting'
  <2>1. InOrder(pending, seq)'
    BY <1>1 DEF InOrder, Inv, Waiting
  <2> QED
    BY <1>1, <2>1 DEF Inv, Waiting
<1>5. Ahead'
  BY <1>1 DEF Inv, Ahead
<1>6. SamplesConserved'
  BY <1>1 DEF Inv, SamplesConserved
<1>7. CleanMeansSaved'
  BY <1>1, <1>2 DEF CleanMeansSaved, Inv, Ahead
<1> QED
  BY <1>3, <1>4, <1>5, <1>6, <1>7 DEF Inv

(* The steps that leave the windows, the numbers and the readings alone.   *)
LEMMA AsideStep ==
    ASSUME Inv, \/ PublishFails \/ Connect \/ Disconnect \/ Send \/ LoopStop \/ TimePasses
                \/ (\E s \in Custom, v \in Values : Receive(s, v)) \/ UNCHANGED vars
    PROVE  Inv'
<1>1. /\ UNCHANGED <<states, seq, seqFile, unsaved, pending, dirty, faults, accepted, balance>>
      /\ (pc' = pc /\ pos' = pos) \/ (pc = "publish" /\ pc' = "idle" /\ pos' = 1 /\ ~loopAlive)
      /\ loopAlive' = loopAlive \/ loopAlive' = FALSE
  BY DEF PublishFails, Connect, Disconnect, Send, LoopStop, TimePasses, Receive, vars, aggVars,
         fileVars, loopVars, linkVars, appVars, boundVars, histVars
<1>2. clock' \in Nat /\ clock <= clock'
  <2>1. clock' = clock \/ clock' = clock + 1
    BY DEF PublishFails, Connect, Disconnect, Send, LoopStop, TimePasses, Receive, vars,
           boundVars
  <2> QED
    BY <2>1 DEF Inv, Typed
<1>3. connected' \in BOOLEAN /\ loopAlive' \in BOOLEAN
  BY <1>1 DEF PublishFails, Connect, Disconnect, Send, LoopStop, TimePasses, Receive, vars,
         linkVars, Inv, Typed
<1>4. (queue \in Seq(Readings))' /\ (Len(queue) <= QueueCap)'
  <2>1. queue' = queue \/ queue' = <<>> \/ (queue # <<>> /\ queue' = Tail(queue))
    BY DEF PublishFails, Connect, Disconnect, Send, LoopStop, TimePasses, Receive, vars,
           linkVars
  <2>2. queue \in Seq(Readings) /\ Len(queue) <= QueueCap /\ QueueCap \in Nat
    BY MetricsAssumption DEF Inv, Typed
  <2>3. Len(queue) \in Nat /\ <<>> \in Seq(Readings) /\ Len(<<>>) = 0
    BY <2>2, LenProperties, EmptySeq
  <2>4. queue # <<>> => Tail(queue) \in Seq(Readings) /\ Len(Tail(queue)) = Len(queue) - 1
    BY <2>2, HeadTailProperties
  <2>5. queue' \in Seq(Readings) /\ Len(queue') <= QueueCap
    <3>1. CASE queue' = queue
      BY <2>2, <3>1
    <3>2. CASE queue' = <<>>
      BY <2>2, <2>3, <3>2
    <3>3. CASE queue # <<>> /\ queue' = Tail(queue)
      BY <2>2, <2>3, <2>4, <3>3
    <3> QED
      BY <2>1, <3>1, <3>2, <3>3
  <2> QED
    BY <2>5
<1>5. (chan \in Seq([stream : Custom, value : Nat]))' /\ (Len(chan) <= ChanCap)'
  <2> DEFINE T == [stream : Custom, value : Nat]
  <2>1. chan \in Seq(T) /\ Len(chan) <= ChanCap /\ ChanCap \in Nat
    BY MetricsAssumption DEF Inv, Typed
  <2>2. CASE UNCHANGED chan
    BY <2>1, <2>2
  <2>3. CASE \E s \in Custom, v \in Values : Receive(s, v)
    <3>1. PICK s \in Custom, v \in Values : Receive(s, v)
      BY <2>3
    <3>2. [stream |-> s, value |-> v] \in T
      BY MetricsAssumption
    <3> DEFINE x == [stream |-> s, value |-> v]
    <3>3. chan' = chan \/ (Len(chan) < ChanCap /\ chan' = Append(chan, x))
      BY <3>1 DEF Receive
    <3>4. x \in T
      BY <3>2
    <3> HIDE DEF x, T
    <3>5. Append(chan, x) \in Seq(T) /\ Len(Append(chan, x)) = Len(chan) + 1 /\ Len(chan) \in Nat
      BY <2>1, <3>4, AppendProperties, LenProperties
    <3>6. chan' \in Seq(T) /\ Len(chan') <= ChanCap
      BY <2>1, <3>3, <3>5
    <3> QED
      BY <3>6 DEF T
  <2> QED
    BY <2>2, <2>3 DEF PublishFails, Connect, Disconnect, Send, LoopStop, TimePasses, vars,
                      appVars
<1>6. Typed'
  <2>1. Given(seq)' /\ Given(seqFile)' /\ Given(accepted)'
    BY <1>1 DEF Given, Inv, Typed
  <2>2. Open(states)'
    <3>1. Open(states) /\ clock \in Nat
      BY DEF Inv, Typed
    <3>2. \A s \in DOMAIN states : states[s].start <= clock'
      <4>1. \A s \in DOMAIN states : states[s].start \in Nat /\ states[s].start <= clock
        BY <3>1 DEF Open, Windows
      <4> QED
        BY <1>2, <3>1, <4>1
    <3> QED
      BY <1>1, <3>1, <3>2 DEF Open
  <2>3. ({dirty, connected, loopAlive, unsaved} \subseteq BOOLEAN)'
    BY <1>1, <1>3 DEF Inv, Typed
  <2>4. (pc \in {"idle", "publish", "save", "stopped", "down"})'
    BY <1>1 DEF Inv, Typed
  <2>5. (faults \in Nat)'
    BY <1>1 DEF Inv, Typed
  <2> QED
    BY <1>2, <1>4, <1>5, <2>1, <2>2, <2>3, <2>4, <2>5 DEF Typed
<1>7. Waiting'
  <2>1. InOrder(pending, seq)'
    BY <1>1 DEF InOrder, Inv, Waiting
  <2>2. Len(pending) \in Nat
    BY LenProperties DEF Inv, Waiting, InOrder
  <2> QED
    BY <1>1, <2>1, <2>2 DEF Inv, Waiting
<1>8. Ahead'
  BY <1>1 DEF Inv, Ahead
<1>9. SamplesConserved'
  BY <1>1 DEF Inv, SamplesConserved
<1>10. CleanMeansSaved'
  BY <1>1 DEF Inv, CleanMeansSaved
<1> QED
  BY <1>6, <1>7, <1>8, <1>9, <1>10 DEF Inv

(* The end of a process and the beginning of the next.                     *)
LEMMA CrashStep == ASSUME Inv, Crash PROVE Inv'
<1>1. /\ pc' = "down" /\ states' = << >> /\ seq' = << >> /\ pending' = <<>> /\ pos' = 1
      /\ dirty' = FALSE /\ queue' = <<>> /\ connected' = FALSE /\ loopAlive' = FALSE
      /\ chan' = <<>> /\ accepted' = << >> /\ balance'.count = 0 /\ balance'.sum = 0
      /\ unsaved' = FALSE
      /\ UNCHANGED <<seqFile, clock, faults>>
  BY DEF Crash
<1>2. DOMAIN <<>> = {} /\ Len(<<>>) = 0 /\ <<>> \in Seq(Readings)
      /\ <<>> \in Seq([stream : Custom, value : Nat])
  BY EmptySeq
<1>3. /\ MaxStreams \in Nat /\ MaxPending \in Nat /\ ChanCap \in Nat /\ QueueCap \in Nat
  BY MetricsAssumption
<1>4. Typed'
  <2>1. Open(states)'
    <3>1. Cardinality(DOMAIN <<>>) = 0
      BY <1>2, FS_EmptySet
    <3> QED
      BY <1>1, <1>2, <1>3, <3>1 DEF Open
  <2>2. Given(seq)' /\ Given(accepted)'
    BY <1>1, <1>2 DEF Given
  <2>3. Given(seqFile)'
    BY <1>1 DEF Given, Inv, Typed
  <2>4. ({dirty, connected, loopAlive, unsaved} \subseteq BOOLEAN)'
    BY <1>1
  <2>5. (Len(chan) <= ChanCap)' /\ (Len(queue) <= QueueCap)'
    BY <1>1, <1>2, <1>3
  <2>6. (clock \in Nat)' /\ (faults \in Nat)'
    BY <1>1 DEF Inv, Typed
  <2>7. (chan \in Seq([stream : Custom, value : Nat]))' /\ (queue \in Seq(Readings))'
    BY <1>1, <1>2
  <2>8. (pc \in {"idle", "publish", "save", "stopped", "down"})'
    BY <1>1
  <2> QED
    BY <2>1, <2>2, <2>3, <2>4, <2>5, <2>6, <2>7, <2>8 DEF Typed
<1>5. Waiting'
  <2>1. (\A i \in 1 .. Len(pending) : FALSE)'
    BY <1>1, <1>2
  <2>2. InOrder(pending, seq)'
    BY <1>1, <1>2, <2>1 DEF InOrder
  <2> QED
    BY <1>1, <1>2, <1>3, <2>2 DEF Waiting
<1>6. Ahead'
  <2>1. \A s : LastNumber(<<>>, s) = 0
    BY <1>2 DEF LastNumber
  <2> QED
    BY <1>1, <2>1 DEF Ahead
<1>7. SamplesConserved'
  <2>1. CountOf(<<>>) = 0 /\ SumOf(<<>>) = 0
    BY <1>2, HoldingsEmpty
  <2> QED
    BY <1>1, <2>1 DEF SamplesConserved
<1>8. CleanMeansSaved'
  BY <1>1 DEF CleanMeansSaved
<1> QED
  BY <1>4, <1>5, <1>6, <1>7, <1>8 DEF Inv

(* A process that counts on from what it could read.                       *)
LEMMA StartStep == ASSUME Inv, Start PROVE Inv'
<1>0. PICK numbers :
         /\ seq' = numbers /\ accepted' = numbers
         /\ DOMAIN numbers \subseteq DOMAIN seqFile
         /\ \A s \in DOMAIN numbers : numbers[s] = seqFile[s]
  <2>1. CASE StartFrom(seqFile) /\ accepted' = seqFile
    BY <2>1 DEF StartFrom
  <2>2. CASE StartUnread
    BY <2>2 DEF StartUnread, StartFrom
  <2> QED
    BY <2>1, <2>2 DEF Start
<1>1. /\ pc = "down" /\ pc' = "idle" /\ loopAlive' = TRUE
      /\ faults' = faults \/ faults' = faults + 1
      /\ UNCHANGED <<states, seqFile, unsaved, pending, pos, dirty, queue, connected, chan,
                     clock, balance>>
  BY DEF Start, StartUnread, StartFrom, fileVars, appVars
<1>2. pending = <<>> /\ pos = 1 /\ Len(pending) = 0 /\ pending \in Seq(Readings)
  BY <1>1, EmptySeq DEF Inv, Waiting
<1>3. Typed'
  <2>1. Open(states)' /\ Given(seqFile)'
    BY <1>1 DEF Open, Given, Inv, Typed
  <2>2. Given(seq)' /\ Given(accepted)'
    BY <1>0 DEF Given, Inv, Typed
  <2>3. ({dirty, connected, loopAlive, unsaved} \subseteq BOOLEAN)' /\ (faults \in Nat)'
    BY <1>1 DEF Inv, Typed
  <2>4. (pc \in {"idle", "publish", "save", "stopped", "down"})'
    BY <1>1
  <2> QED
    BY <1>1, <2>1, <2>2, <2>3, <2>4 DEF Inv, Typed
<1>4. Waiting'
  <2>1. (\A i \in 1 .. Len(pending) : FALSE)'
    BY <1>1, <1>2
  <2>2. InOrder(pending, seq)'
    BY <1>1, <1>2, <2>1 DEF InOrder
  <2> QED
    BY <1>1, <1>2, <2>2 DEF Inv, Waiting
<1>5. \A s : LastNumber(numbers, s) \in Nat /\ LastNumber(numbers, s) <= LastNumber(seqFile, s)
  BY <1>0 DEF LastNumber, Given, Inv, Typed
<1>6. Ahead'
  <2>1. \A s \in Streams : LastNumber(accepted', s) <= LastNumber(seq', s)
    BY <1>0, <1>5
  <2>2. (\A i \in pos .. Len(pending) : FALSE)'
    BY <1>1, <1>2
  <2> QED
    BY <2>1, <2>2 DEF Ahead
<1>7. SamplesConserved'
  BY <1>1 DEF Inv, SamplesConserved
<1>8. CleanMeansSaved'
  BY <1>0, <1>1, <1>5 DEF CleanMeansSaved
<1> QED
  BY <1>3, <1>4, <1>6, <1>7, <1>8 DEF Inv

(* Every step keeps the invariant.                                         *)
LEMMA NextInv == Inv /\ [Next]_vars => Inv'
<1> SUFFICES ASSUME Inv, [Next]_vars PROVE Inv'
  OBVIOUS
<1>1. ASSUME NEW values \in [OsStreams \ RawStreams -> Values], Tick(values) PROVE Inv'
  BY <1>1, TickStep DEF Samplings
<1>2. CASE PublishReading
  BY <1>2, PublishReadingStep
<1>3. CASE Published
  BY <1>3, PublishedStep
<1>4. CASE PeriodicSave \/ Stop
  BY <1>4, SaveStep
<1>5. CASE Crash
  BY <1>5, CrashStep
<1>6. CASE Start
  BY <1>6, StartStep
<1>7. CASE \/ PublishFails \/ Connect \/ Disconnect \/ Send \/ LoopStop \/ TimePasses
           \/ (\E s \in Custom, v \in Values : Receive(s, v)) \/ UNCHANGED vars
  BY <1>7, AsideStep
<1> QED
  BY <1>1, <1>2, <1>3, <1>4, <1>5, <1>6, <1>7 DEF Next

(* The invariant holds always.                                             *)
THEOREM Invariance == Spec => []Inv
BY InitInv, NextInv, PTL DEF Spec

-----------------------------------------------------------------------------
(* The theorems.                                                           *)

(* Types and capacities: MAX_STREAMS, MAX_PENDING, the channel of the      *)
(* socket and the client's request channel are never passed.               *)
THEOREM TypeCorrect == Spec => []TypeOK
<1>1. Inv => TypeOK
  <2> SUFFICES ASSUME Inv PROVE TypeOK
    OBVIOUS
  <2>1. /\ DOMAIN states \subseteq Streams \ RawStreams
        /\ Cardinality(DOMAIN states) <= MaxStreams
        /\ \A s \in DOMAIN states : WindowTypeOK(states[s]) /\ states[s].start <= clock
    BY DEF Inv, Typed, Open, Windows, WindowTypeOK
  <2>2. \A i \in DOMAIN pending : WindowTypeOK(pending[i])
    <3>1. pending \in Seq(Readings)
      BY DEF Inv, Waiting, InOrder
    <3>2. \A i \in DOMAIN pending : pending[i] \in Readings
      BY <3>1, LenProperties, ElementOfSeq
    <3> QED
      BY <3>2 DEF Readings, WindowTypeOK
  <2>3. pos \in 1 .. (MaxPending + 1) /\ Len(pending) <= MaxPending
    <3>1. Len(pending) \in Nat /\ MaxPending \in Nat
      BY LenProperties, MetricsAssumption DEF Inv, Waiting, InOrder
    <3> QED
      BY <3>1 DEF Inv, Waiting
  <2>4. DOMAIN seq \subseteq Streams /\ DOMAIN seqFile \subseteq Streams
    BY DEF Inv, Typed, Given
  <2> QED
    BY <2>1, <2>2, <2>3, <2>4 DEF Inv, Typed, TypeOK
<1> QED
  BY <1>1, Invariance, PTL

(* No tick, publishing, overflow or failure loses or doubles a sample      *)
(* between the aggregator and the pending readings.                        *)
THEOREM ConservedTheorem == Spec => []SamplesConserved
<1>1. Inv => SamplesConserved
  BY DEF Inv
<1> QED
  BY <1>1, Invariance, PTL

(* The count, sum, min and max of a window or a reading agree.             *)
THEOREM WindowsTheorem == Spec => []WindowsAgree
<1>1. Inv => WindowsAgree
  <2> SUFFICES ASSUME Inv PROVE WindowsAgree
    OBVIOUS
  <2>1. DOMAIN pending = 1 .. Len(pending)
    BY LenProperties DEF Inv, Waiting, InOrder
  <2> QED
    BY <2>1 DEF Inv, Typed, Open, Waiting, InOrder, WindowsAgree
<1> QED
  BY <1>1, Invariance, PTL

(* The readings that wait are the newest of their stream, without a gap.   *)
THEOREM NewestTheorem == Spec => []PendingIsNewest
<1>1. Inv => PendingIsNewest
  <2> SUFFICES ASSUME Inv PROVE PendingIsNewest
    OBVIOUS
  <2>1. DOMAIN pending = 1 .. Len(pending)
    BY LenProperties DEF Inv, Waiting, InOrder
  <2> QED
    BY <2>1 DEF Inv, Waiting, InOrder, PendingIsNewest
<1> QED
  BY <1>1, Invariance, PTL

(* Numbers that are not marked dirty are on disk.                          *)
THEOREM SavedTheorem == Spec => []CleanMeansSaved
<1>1. Inv => CleanMeansSaved
  BY DEF Inv
<1> QED
  BY <1>1, Invariance, PTL

(* A number handed to the client is above the one its stream had before,   *)
(* in this process or in what the process could read of its file.          *)
THEOREM NumbersTheorem == Spec => NumbersGrow
<1> DEFINE Grow == Len(queue') > Len(queue) =>
                      LET r == Last(queue')
                      IN  r.seq > LastNumber(accepted, r.stream)
<1>1. ASSUME Inv, [Next]_vars, Len(queue') > Len(queue)
      PROVE  Last(queue').seq > LastNumber(accepted, Last(queue').stream)
  <2>1. queue \in Seq(Readings) /\ Len(queue) \in Nat
    BY <1>1, LenProperties DEF Inv, Typed
  <2>2. \/ PublishReading
        \/ queue' = queue
        \/ queue' = <<>>
        \/ queue # <<>> /\ queue' = Tail(queue)
    BY <1>1 DEF Next, Tick, PublishFails, Published, PublishedLeaving, PeriodicSave, Stop,
       Receive, Connect, Disconnect, Send, LoopStop, Crash, Start, StartUnread, StartFrom,
       TimePasses, vars, linkVars
  <2>3. Len(<<>>) = 0 /\ (queue # <<>> => Len(Tail(queue)) = Len(queue) - 1)
    BY <2>1, EmptySeq, HeadTailProperties
  <2>4. PublishReading
    <3>1. queue' # queue
      BY <1>1, <2>1
    <3>2. queue' # <<>>
      BY <1>1, <2>1, <2>3
    <3>3. ~(queue # <<>> /\ queue' = Tail(queue))
      BY <1>1, <2>1, <2>3
    <3> QED
      BY <2>2, <3>1, <3>2, <3>3
  <2> DEFINE r == pending[pos]
  <2>5. pos \in 1 .. Len(pending) /\ loopAlive /\ queue' = Append(queue, r)
    BY <1>1, <2>4 DEF PublishReading, Inv, Waiting
  <2>6. Len(pending) \in Nat /\ r \in Readings
    BY <1>1, <2>5, LenProperties, ElementOfSeq DEF Inv, Waiting, InOrder
  <2>7. LastNumber(accepted, r.stream) < r.seq
    BY <1>1, <2>5, <2>6 DEF Inv, Ahead
  <2>8. r.seq \in Nat /\ LastNumber(accepted, r.stream) \in Nat
    BY <1>1, <2>6, LastNumberType DEF Readings, Inv, Typed
  <2> HIDE DEF r
  <2>9. Last(queue') = r
    <3>1. Len(queue') = Len(queue) + 1 /\ queue'[Len(queue) + 1] = r
      BY <2>1, <2>5, <2>6, AppendProperties
    <3> QED
      BY <3>1 DEF Last
  <2> QED
    BY <2>7, <2>8, <2>9
<1>2. Inv /\ [Next]_vars => [Grow]_vars
  BY <1>1
<1>3. NumbersGrow <=> [][Grow]_vars
  BY PTL DEF NumbersGrow
<1> QED
  BY <1>2, <1>3, Invariance, PTL DEF Spec

=============================================================================
