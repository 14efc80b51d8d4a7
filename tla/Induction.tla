------------------------------- MODULE Induction -------------------------------
(***************************************************************************)
(* Induction over the naturals and over intervals, stated for a set (of    *)
(* the numbers that have a property) instead of for a property, and what   *)
(* it says of functions and folds that are defined step by step.           *)
(***************************************************************************)
EXTENDS Integers, SequencesExt, WellFoundedInduction, TLAPS

\* The least number that is not in S would have its predecessor in S.
LEMMA SetInduction ==
  ASSUME NEW S, 0 \in S, \A n \in Nat : n \in S => n + 1 \in S
  PROVE  Nat \subseteq S
<1> DEFINE R == {p \in Nat \X Nat : p[1] < p[2]}
           T == Nat \ S
<1>1. SUFFICES ASSUME T # {} PROVE FALSE
  OBVIOUS
<1>2. IsWellFoundedOn(R, Nat)
  BY NatLessThanWellFounded DEF OpToRel
<1>3. PICK x \in T : \A y \in T : ~(<<y, x>> \in R)
  BY <1>1, <1>2, WFMin
<1>4. x # 0 /\ x - 1 \in Nat
  OBVIOUS
<1>5. <<x - 1, x>> \in R
  BY <1>4
<1>6. x - 1 \in S
  BY <1>3, <1>4, <1>5
<1>7. (x - 1) + 1 \in S
  BY <1>4, <1>6
<1> QED
  BY <1>7

LEMMA IntervalInduction ==
  ASSUME NEW lo \in Int, NEW hi \in Int, NEW S,
         lo <= hi => lo \in S,
         \A n \in lo .. hi - 1 : n \in S => n + 1 \in S
  PROVE  lo .. hi \subseteq S
<1> DEFINE T == {n \in Nat : lo + n <= hi => lo + n \in S}
<1>1. 0 \in T
  OBVIOUS
<1>2. ASSUME NEW n \in Nat, n \in T
      PROVE  n + 1 \in T
  <2>1. SUFFICES ASSUME lo + (n + 1) <= hi PROVE lo + (n + 1) \in S
    OBVIOUS
  <2>2. lo + n \in lo .. hi - 1 /\ lo + n \in S
    BY <1>2, <2>1
  <2>3. (lo + n) + 1 \in S
    BY <2>2
  <2>4. (lo + n) + 1 = lo + (n + 1)
    OBVIOUS
  <2> QED
    BY <2>3, <2>4
<1> HIDE DEF T
<1>3. Nat \subseteq T
  BY <1>1, <1>2, SetInduction
<1>4. ASSUME NEW m \in lo .. hi
      PROVE  m \in S
  <2>1. m - lo \in Nat /\ lo + (m - lo) = m
    OBVIOUS
  <2>2. m - lo \in T
    BY <1>3, <2>1
  <2> QED
    BY <2>1, <2>2 DEF T
<1> QED
  BY <1>4

LEMMA LeastOf ==
  ASSUME NEW S, S \subseteq Nat, S # {}
  PROVE  \E x \in S : \A y \in S : x <= y
<1> DEFINE R == {p \in Nat \X Nat : p[1] < p[2]}
<1>1. IsWellFoundedOn(R, Nat)
  BY NatLessThanWellFounded DEF OpToRel
<1>2. PICK x \in S : \A y \in S : ~(<<y, x>> \in R)
  BY <1>1, WFMin
<1>3. ASSUME NEW y \in S
      PROVE  x <= y
  <2>1. x \in Nat /\ y \in Nat /\ ~(<<y, x>> \in R)
    BY <1>2
  <2> QED
    BY <2>1
<1> QED
  BY <1>3

\* Max of SequencesExt is the greatest element.
LEMMA GreatestOf ==
  ASSUME NEW n \in Nat, NEW S, S \subseteq 1 .. n, S # {}
  PROVE  Max(S) \in S /\ \A y \in S : y <= Max(S)
<1> DEFINE T == {n - x : x \in S}
<1>1. T \subseteq Nat /\ T # {}
  <2>1. \A x \in S : n - x \in Nat
    OBVIOUS
  <2>2. T # {}
    OBVIOUS
  <2> QED
    BY <2>1, <2>2
<1>2. PICK t \in T : \A u \in T : t <= u
  BY <1>1, LeastOf
<1>3. PICK x \in S : t = n - x
  OBVIOUS
<1>4. ASSUME NEW y \in S
      PROVE  y <= x
  <2>1. n - y \in T
    OBVIOUS
  <2>2. n - x <= n - y
    BY <1>2, <1>3, <2>1
  <2> QED
    BY <2>2
<1> HIDE DEF T
<1>5. \A y \in S : x >= y
  BY <1>4
<1> QED
  BY <1>3, <1>5 DEF Max

LEMMA Joined ==
  ASSUME NEW S, NEW front \in Seq(S), NEW after \in Seq(S)
  PROVE  LET new == front \o after
         IN /\ new \in Seq(S)
            /\ Len(new) = Len(front) + Len(after)
            /\ \A j \in 1 .. Len(front) : new[j] = front[j]
            /\ \A j \in Len(front) + 1 .. Len(front) + Len(after) :
                 new[j] = after[j - Len(front)]
OBVIOUS

LEMMA SameSequence ==
  ASSUME NEW S, NEW T, NEW a \in Seq(S), NEW b \in Seq(T), Len(a) = Len(b),
         \A i \in 1 .. Len(a) : a[i] = b[i]
  PROVE  a = b
<1>1. Len(a) \in Nat /\ DOMAIN a = 1 .. Len(a) /\ DOMAIN b = 1 .. Len(a)
  OBVIOUS
<1>2. a = [i \in 1 .. Len(a) |-> a[i]] /\ b = [i \in 1 .. Len(a) |-> b[i]]
  BY <1>1
<1> QED
  BY <1>2

(***************************************************************************)
(* A function over an interval that is given by its first value and by the *)
(* step from each value to the next exists, if no step leaves a set.       *)
(***************************************************************************)
IsStepwise(f, lo, hi, D, base, g) ==
  /\ f \in [lo .. hi -> D]
  /\ f[lo] = base
  /\ \A j \in lo + 1 .. hi : f[j] = g[j][f[j - 1]]

LEMMA StepwiseExists ==
  ASSUME NEW lo \in Int, NEW hi \in Int, lo <= hi, NEW D, NEW base \in D,
         NEW g, \A j \in lo + 1 .. hi : g[j] \in [D -> D]
  PROVE  \E f : IsStepwise(f, lo, hi, D, base, g)
<1> DEFINE S == {m \in lo .. hi : \E f : IsStepwise(f, lo, m, D, base, g)}
<1>1. lo \in S
  <2> DEFINE f == [j \in lo .. lo |-> base]
  <2>1. f \in [lo .. lo -> D] /\ f[lo] = base
    OBVIOUS
  <2> HIDE DEF f
  <2>2. \A j \in lo + 1 .. lo : f[j] = g[j][f[j - 1]]
    OBVIOUS
  <2>3. lo \in lo .. hi
    OBVIOUS
  <2>4. IsStepwise(f, lo, lo, D, base, g)
    BY <2>1, <2>2 DEF IsStepwise
  <2> QED
    BY <2>3, <2>4
<1>2. ASSUME NEW m \in lo .. hi - 1, m \in S
      PROVE  m + 1 \in S
  <2>0. PICK f : IsStepwise(f, lo, m, D, base, g)
    BY <1>2
  <2>1. /\ f \in [lo .. m -> D] /\ f[lo] = base
        /\ \A j \in lo + 1 .. m : f[j] = g[j][f[j - 1]]
    BY <2>0 DEF IsStepwise
  <2> DEFINE h == [j \in lo .. m + 1 |-> IF j = m + 1 THEN g[m + 1][f[m]] ELSE f[j]]
  <2>2. m + 1 \in lo + 1 .. hi /\ m \in lo .. m /\ m + 1 \in lo .. hi
    OBVIOUS
  <2>3. g[m + 1][f[m]] \in D
    BY <2>1, <2>2
  <2>4. h \in [lo .. m + 1 -> D]
    BY <2>1, <2>3
  <2>5. \A j \in lo .. m : h[j] = f[j]
    OBVIOUS
  <2>6. h[m + 1] = g[m + 1][f[m]]
    BY <2>2
  <2> HIDE DEF h
  <2>7. ASSUME NEW j \in lo + 1 .. m + 1
        PROVE  h[j] = g[j][h[j - 1]]
    <3>1. CASE j = m + 1
      BY <2>2, <2>5, <2>6, <3>1
    <3>2. CASE j # m + 1
      <4>1. j \in lo + 1 .. m /\ j \in lo .. m /\ j - 1 \in lo .. m
        BY <3>2
      <4> QED
        BY <2>1, <2>5, <4>1
    <3> QED
      BY <3>1, <3>2
  <2>8. h[lo] = base
    BY <2>1, <2>5
  <2>9. IsStepwise(h, lo, m + 1, D, base, g)
    BY <2>4, <2>7, <2>8 DEF IsStepwise
  <2> QED
    BY <2>2, <2>9
<1> HIDE DEF S
<1>3. lo .. hi \subseteq S
  BY <1>1, <1>2, IntervalInduction
<1>4. hi \in S
  BY <1>3
<1> QED
  BY <1>4 DEF S

LEMMA LeastIndex ==
  ASSUME NEW n \in Nat, NEW I, I \subseteq 1 .. n, I # {}
  PROVE  Min(I) \in I /\ \A i \in I : Min(I) <= i
<1>1. I \subseteq Nat
  OBVIOUS
<1>2. \E x \in I : \A y \in I : x <= y
  BY <1>1, LeastOf
<1> QED
  BY <1>2 DEF Min

(***************************************************************************)
(* Sequences without repetitions.                                          *)
(***************************************************************************)
Distinct(S) == {q \in Seq(S) : IsInjective(q)}

LEMMA DistinctAre ==
  ASSUME NEW S, NEW q \in Distinct(S)
  PROVE  /\ q \in Seq(S) /\ Len(q) \in Nat /\ DOMAIN q = 1 .. Len(q)
         /\ \A i \in 1 .. Len(q) : q[i] \in S
         /\ \A i, j \in 1 .. Len(q) : q[i] = q[j] => i = j
         /\ ToSet(q) = {q[i] : i \in 1 .. Len(q)} /\ ToSet(q) \subseteq S
BY DEF Distinct, IsInjective, ToSet

LEMMA WithoutElement ==
  ASSUME NEW S, NEW q \in Seq(S), NEW p \in 1 .. Len(q)
  PROVE  LET r == RemoveAt(q, p)
         IN /\ r \in Seq(S) /\ Len(r) = Len(q) - 1
            /\ \A i \in 1 .. p - 1 : r[i] = q[i]
            /\ \A i \in p .. Len(q) - 1 : r[i] = q[i + 1]
<1> DEFINE n == Len(q)
           before == SubSeq(q, 1, p - 1)
           after == SubSeq(q, p + 1, Len(q))
           r == RemoveAt(q, p)
<1>1. n \in Nat /\ p \in Nat /\ 1 <= p /\ p <= n
  OBVIOUS
<1>2. before \in Seq(S) /\ Len(before) = p - 1 /\ \A i \in 1 .. p - 1 : before[i] = q[i]
  OBVIOUS
<1>3. after \in Seq(S) /\ Len(after) = n - p /\ \A i \in 1 .. n - p : after[i] = q[p + i]
  OBVIOUS
<1>4. r = before \o after
  BY DEF RemoveAt
<1> HIDE DEF before, after, r, n
<1>5. /\ r \in Seq(S) /\ Len(r) = Len(before) + Len(after)
      /\ \A i \in 1 .. Len(before) : r[i] = before[i]
      /\ \A i \in Len(before) + 1 .. Len(before) + Len(after) : r[i] = after[i - Len(before)]
  BY <1>2, <1>3, <1>4, Joined
<1>6. /\ Len(r) = n - 1
      /\ \A i \in 1 .. p - 1 : r[i] = before[i]
      /\ \A i \in p .. n - 1 : r[i] = after[i - (p - 1)]
  BY <1>1, <1>2, <1>3, <1>5
<1>7. ASSUME NEW i \in p .. n - 1
      PROVE  r[i] = q[i + 1]
  <2>1. i - (p - 1) \in 1 .. n - p /\ p + (i - (p - 1)) = i + 1
    BY <1>1
  <2> QED
    BY <1>3, <1>6, <2>1
<1>8. \A i \in 1 .. p - 1 : r[i] = q[i]
  BY <1>2, <1>6
<1> QED
  BY <1>5, <1>6, <1>7, <1>8 DEF r, n

\* The element goes, those behind it move up.
LEMMA RemovedFirst ==
  ASSUME NEW S, NEW q \in Distinct(S), NEW p \in 1 .. Len(q)
  PROVE  LET r == RemoveFirst(q, q[p])
         IN /\ r \in Distinct(S) /\ Len(r) = Len(q) - 1
            /\ \A i \in 1 .. p - 1 : r[i] = q[i]
            /\ \A i \in p .. Len(q) - 1 : r[i] = q[i + 1]
            /\ ToSet(r) = ToSet(q) \ {q[p]}
<1> DEFINE n == Len(q)
           x == q[p]
           I == {i \in 1 .. Len(q) : q[i] = x}
           r == RemoveFirst(q, x)
<1>1. /\ q \in Seq(S) /\ n \in Nat /\ DOMAIN q = 1 .. n /\ p \in 1 .. n
      /\ \A i, j \in 1 .. n : q[i] = q[j] => i = j
      /\ ToSet(q) = {q[i] : i \in 1 .. n}
  BY DistinctAre
<1>2. p \in I /\ I \subseteq 1 .. n
  OBVIOUS
<1>3. Min(I) = p
  <2>1. I # {}
    BY <1>2
  <2> HIDE DEF I, n
  <2>2. Min(I) \in I
    BY <1>1, <1>2, <2>1, LeastIndex
  <2> QED
    BY <1>1, <2>2 DEF I, n
<1>4. r = RemoveAt(q, p)
  <2>1. \E i \in 1 .. Len(q) : q[i] = x
    OBVIOUS
  <2>2. r = RemoveAt(q, IF I # {} THEN Min(I) ELSE 0)
    BY <2>1 DEF RemoveFirst, SelectInSeq
  <2> QED
    BY <1>2, <1>3, <2>2
<1> HIDE DEF r, n
<1>5. /\ r \in Seq(S) /\ Len(r) = n - 1
      /\ \A i \in 1 .. p - 1 : r[i] = q[i]
      /\ \A i \in p .. n - 1 : r[i] = q[i + 1]
  BY <1>1, <1>4, WithoutElement DEF n
<1> DEFINE Was(i) == IF i < p THEN i ELSE i + 1
<1>6. \A i \in 1 .. n - 1 : Was(i) \in 1 .. n /\ Was(i) # p /\ r[i] = q[Was(i)]
  BY <1>1, <1>5
<1>7. \A i, j \in 1 .. n - 1 : Was(i) = Was(j) => i = j
  BY <1>1
<1>8. \A i \in 1 .. n : i # p => \E j \in 1 .. n - 1 : Was(j) = i
  <2> SUFFICES ASSUME NEW i \in 1 .. n, i # p PROVE \E j \in 1 .. n - 1 : Was(j) = i
    OBVIOUS
  <2>1. CASE i < p
    <3>1. i \in 1 .. n - 1 /\ Was(i) = i
      BY <1>1, <2>1
    <3> QED
      BY <3>1
  <2>2. CASE i > p
    <3>1. i - 1 \in 1 .. n - 1 /\ Was(i - 1) = i
      BY <1>1, <2>2
    <3> QED
      BY <3>1
  <2> QED
    BY <1>1, <2>1, <2>2
<1> HIDE DEF Was
<1>9. DOMAIN r = 1 .. n - 1
  BY <1>1, <1>5
<1>10. IsInjective(r)
  <2>1. \A i, j \in 1 .. n - 1 : r[i] = r[j] => i = j
    BY <1>1, <1>6, <1>7
  <2> QED
    BY <1>9, <2>1 DEF IsInjective
<1>11. ToSet(r) = ToSet(q) \ {x}
  <2>1. ToSet(r) = {r[i] : i \in 1 .. n - 1}
    BY <1>9 DEF ToSet
  <2>2. ASSUME NEW i \in 1 .. n - 1
        PROVE  r[i] \in ToSet(q) \ {x}
    BY <1>1, <1>6
  <2>3. ASSUME NEW i \in 1 .. n, q[i] # x
        PROVE  \E j \in 1 .. n - 1 : r[j] = q[i]
    BY <1>6, <1>8, <2>3
  <2> QED
    BY <1>1, <2>1, <2>2, <2>3
<1> QED
  BY <1>5, <1>10, <1>11 DEF Distinct, r, n

LEMMA NothingRemoved ==
  ASSUME NEW S, NEW q \in Distinct(S), NEW x, x \notin ToSet(q)
  PROVE  RemoveFirst(q, x) = q
<1>1. ~ \E i \in 1 .. Len(q) : q[i] = x
  BY DistinctAre
<1> QED
  BY <1>1 DEF RemoveFirst
===============================================================================
