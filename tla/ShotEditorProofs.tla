--------------------------- MODULE ShotEditorProofs ---------------------------
(***************************************************************************)
(* The sketch editor, for any objects and any length of the undo stack:    *)
(* undo and redo walk the exact drawings of the history as long as nothing *)
(* is thrown, only a deletion in the history can make them throw, and a    *)
(* drawing that does not count as modified is the saved one.               *)
(*                                                                         *)
(* First the drawing: what a move of an object changes, and what undoes    *)
(* it, and which batches of moves can be done and undone.  Then the stack: *)
(* `modified' compares the top of the undo stack with the one at the last  *)
(* save, and every entry of the stack leads from one recorded drawing to   *)
(* the next.                                                               *)
(***************************************************************************)
EXTENDS ShotEditor, Induction, FiniteSetTheorems

(***************************************************************************)
(* Lists of objects, told apart by what follows what.                      *)
(***************************************************************************)
Lists == Distinct(Objects)

Position(q, x) == SelectInSeq(q, LAMBDA y : y = x)

After(q, x) == LET i == Position(q, x) + 1 IN IF i \in DOMAIN q THEN q[i] ELSE Null

LEMMA NullIsNone == Null \notin Objects /\ Null \notin Containers /\ Image \in Containers
BY DrawingAssumption DEF Objects, Containers

LEMMA PositionIs ==
  ASSUME NEW S, NEW q \in Distinct(S), NEW p \in 1 .. Len(q)
  PROVE  Position(q, q[p]) = p
<1> DEFINE I == {i \in 1 .. Len(q) : q[i] = q[p]}
<1>1. Len(q) \in Nat /\ \A i, j \in 1 .. Len(q) : q[i] = q[j] => i = j
  BY DistinctAre
<1>2. p \in I /\ I \subseteq 1 .. Len(q)
  OBVIOUS
<1>3. Position(q, q[p]) = IF I # {} THEN Min(I) ELSE 0
  BY DEF Position, SelectInSeq
<1>4. I # {}
  BY <1>2
<1>5. \A i \in I : i = p
  BY <1>1
<1> HIDE DEF I
<1>6. Min(I) \in I
  BY <1>1, <1>2, <1>4, LeastIndex
<1> QED
  BY <1>3, <1>4, <1>5, <1>6

LEMMA AfterIs ==
  ASSUME NEW q \in Lists, NEW i \in 1 .. Len(q)
  PROVE  After(q, q[i]) = IF i < Len(q) THEN q[i + 1] ELSE Null
<1>1. Len(q) \in Nat /\ DOMAIN q = 1 .. Len(q) /\ Position(q, q[i]) = i
  BY DistinctAre, PositionIs DEF Lists
<1>2. After(q, q[i]) = IF i + 1 \in 1 .. Len(q) THEN q[i + 1] ELSE Null
  BY <1>1 DEF After
<1> QED
  BY <1>1, <1>2

LEMMA AfterRemoved ==
  ASSUME NEW q \in Lists, NEW o \in ToSet(q), NEW x \in ToSet(q), x # o
  PROVE  After(RemoveFirst(q, o), x) = IF After(q, x) = o THEN After(q, o) ELSE After(q, x)
<1> DEFINE n == Len(q)
           r == RemoveFirst(q, o)
<1>1. /\ n \in Nat /\ \A i \in 1 .. n : q[i] \in Objects
      /\ \A i, j \in 1 .. n : q[i] = q[j] => i = j
      /\ ToSet(q) = {q[i] : i \in 1 .. n}
  BY DistinctAre DEF Lists
<1>2. PICK p \in 1 .. n : q[p] = o
  BY <1>1
<1>3. PICK i \in 1 .. n : q[i] = x
  BY <1>1
<1>4. /\ r \in Lists /\ Len(r) = n - 1
      /\ \A j \in 1 .. p - 1 : r[j] = q[j]
      /\ \A j \in p .. n - 1 : r[j] = q[j + 1]
  <2>1. LET s == RemoveFirst(q, q[p])
        IN /\ s \in Lists /\ Len(s) = Len(q) - 1
           /\ \A j \in 1 .. p - 1 : s[j] = q[j]
           /\ \A j \in p .. Len(q) - 1 : s[j] = q[j + 1]
    BY RemovedFirst DEF Lists
  <2> QED
    BY <1>2, <2>1
<1>5. After(q, x) = (IF i < n THEN q[i + 1] ELSE Null) /\ After(q, o) = (IF p < n THEN q[p + 1] ELSE Null)
  BY <1>2, <1>3, AfterIs
<1>6. ASSUME NEW j \in 1 .. n - 1
      PROVE  After(r, r[j]) = IF j < n - 1 THEN r[j + 1] ELSE Null
  <2> HIDE DEF r, n
  <2>1. j \in 1 .. Len(r)
    BY <1>4
  <2> QED
    BY <1>4, <2>1, AfterIs
<1>7. o # Null
  BY <1>1, <1>2, NullIsNone
<1> HIDE DEF n, r
<1>8. CASE i < p
  <2>1. i \in 1 .. p - 1 /\ i \in 1 .. n - 1 /\ i < n
    BY <1>1, <1>8
  <2>2. r[i] = x /\ After(r, x) = IF i < n - 1 THEN r[i + 1] ELSE Null
    BY <1>3, <1>4, <1>6, <2>1
  <2>3. CASE i + 1 = p
    <3>1. i < n - 1 => i + 1 \in p .. n - 1 /\ p < n
      BY <1>1, <2>3
    <3>2. ~(i < n - 1) => ~(p < n)
      BY <1>1, <2>3
    <3>3. i < n - 1 => r[i + 1] = q[p + 1]
      BY <1>4, <2>3, <3>1
    <3> QED
      BY <1>2, <1>5, <2>1, <2>2, <2>3, <3>1, <3>2, <3>3 DEF r
  <2>4. CASE i + 1 # p
    <3>1. i < n - 1 /\ i + 1 \in 1 .. p - 1 /\ i + 1 \in 1 .. n
      BY <1>1, <1>8, <2>4
    <3>2. r[i + 1] = q[i + 1] /\ q[i + 1] # o
      BY <1>1, <1>2, <1>4, <2>4, <3>1
    <3> QED
      BY <1>5, <2>1, <2>2, <3>1, <3>2 DEF r
  <2> QED
    BY <2>3, <2>4
<1>9. CASE i > p
  <2>1. i - 1 \in p .. n - 1 /\ i - 1 \in 1 .. n - 1
    BY <1>1, <1>9
  <2>2. r[i - 1] = x /\ After(r, x) = IF i - 1 < n - 1 THEN r[i] ELSE Null
    BY <1>3, <1>4, <1>6, <2>1
  <2>3. i < n => i \in p .. n - 1 /\ i + 1 \in 1 .. n /\ i + 1 # p
    BY <1>1, <1>9
  <2>4. i < n => r[i] = q[i + 1] /\ q[i + 1] # o
    BY <1>1, <1>2, <1>4, <2>3
  <2>5. i < n <=> i - 1 < n - 1
    BY <1>1
  <2> QED
    BY <1>5, <1>7, <2>2, <2>4, <2>5 DEF r
<1> QED
  BY <1>1, <1>2, <1>3, <1>8, <1>9

LEMMA Inserted ==
  ASSUME NEW S, NEW q \in Distinct(S), NEW x \in S \ ToSet(q), NEW p \in 1 .. Len(q) + 1
  PROVE  LET r == InsertAt(q, p, x)
         IN /\ r \in Distinct(S) /\ Len(r) = Len(q) + 1
            /\ \A i \in 1 .. p - 1 : r[i] = q[i]
            /\ r[p] = x
            /\ \A i \in p + 1 .. Len(q) + 1 : r[i] = q[i - 1]
            /\ ToSet(r) = ToSet(q) \cup {x}
<1> DEFINE n == Len(q)
           before == SubSeq(q, 1, p - 1)
           after == SubSeq(q, p, Len(q))
           mid == before \o <<x>>
           r == InsertAt(q, p, x)
<1>1. /\ q \in Seq(S) /\ n \in Nat /\ DOMAIN q = 1 .. n /\ p \in 1 .. n + 1
      /\ \A i, j \in 1 .. n : q[i] = q[j] => i = j
      /\ \A i \in 1 .. n : q[i] \in S /\ q[i] # x
      /\ ToSet(q) = {q[i] : i \in 1 .. n}
  BY DistinctAre
<1>2. before \in Seq(S) /\ Len(before) = p - 1 /\ \A i \in 1 .. p - 1 : before[i] = q[i]
  BY <1>1
<1>3. after \in Seq(S) /\ Len(after) = n - (p - 1) /\ \A i \in 1 .. n - (p - 1) : after[i] = q[p - 1 + i]
  BY <1>1
<1>4. r = mid \o after
  BY DEF InsertAt
<1>5. <<x>> \in Seq(S) /\ Len(<<x>>) = 1 /\ <<x>>[1] = x
  OBVIOUS
<1> HIDE DEF before, after, r, n
<1>6. /\ mid \in Seq(S) /\ Len(mid) = p
      /\ \A i \in 1 .. p - 1 : mid[i] = q[i]
      /\ mid[p] = x
  <2>1. /\ mid \in Seq(S) /\ Len(mid) = Len(before) + Len(<<x>>)
        /\ \A i \in 1 .. Len(before) : mid[i] = before[i]
        /\ \A i \in Len(before) + 1 .. Len(before) + Len(<<x>>) : mid[i] = <<x>>[i - Len(before)]
    BY <1>2, <1>5, Joined
  <2> HIDE DEF mid
  <2>2. p \in Int /\ p \in p .. p /\ p - (p - 1) = 1 /\ (p - 1) + 1 = p
    BY <1>1
  <2>3. \A i \in p .. p : mid[i] = <<x>>[i - (p - 1)]
    BY <1>2, <1>5, <2>1, <2>2
  <2> QED
    BY <1>2, <1>5, <2>1, <2>2, <2>3
<1> HIDE DEF mid
<1>7. /\ r \in Seq(S) /\ Len(r) = Len(mid) + Len(after)
      /\ \A i \in 1 .. Len(mid) : r[i] = mid[i]
      /\ \A i \in Len(mid) + 1 .. Len(mid) + Len(after) : r[i] = after[i - Len(mid)]
  <2>1. mid \in Seq(S) /\ after \in Seq(S)
    BY <1>3, <1>6
  <2>2. /\ (mid \o after) \in Seq(S) /\ Len(mid \o after) = Len(mid) + Len(after)
        /\ \A i \in 1 .. Len(mid) : (mid \o after)[i] = mid[i]
        /\ \A i \in Len(mid) + 1 .. Len(mid) + Len(after) : (mid \o after)[i] = after[i - Len(mid)]
    BY <2>1, Joined
  <2> QED
    BY <1>4, <2>2
<1>8. /\ Len(r) = n + 1 /\ DOMAIN r = 1 .. n + 1
      /\ \A i \in 1 .. p - 1 : r[i] = q[i]
      /\ r[p] = x
      /\ \A i \in p + 1 .. n + 1 : r[i] = after[i - p]
  BY <1>1, <1>3, <1>6, <1>7
<1>9. ASSUME NEW i \in p + 1 .. n + 1
      PROVE  r[i] = q[i - 1]
  <2>1. i - p \in 1 .. n - (p - 1) /\ p - 1 + (i - p) = i - 1
    BY <1>1
  <2> QED
    BY <1>3, <1>8, <2>1
<1> DEFINE Was(i) == IF i < p THEN i ELSE i - 1
<1>10. \A i \in 1 .. n + 1 : i # p => Was(i) \in 1 .. n /\ r[i] = q[Was(i)]
  <2> SUFFICES ASSUME NEW i \in 1 .. n + 1, i # p PROVE Was(i) \in 1 .. n /\ r[i] = q[Was(i)]
    OBVIOUS
  <2>1. CASE i < p
    BY <1>1, <1>8, <2>1
  <2>2. CASE i > p
    <3>1. i \in p + 1 .. n + 1 /\ i - 1 \in 1 .. n
      BY <1>1, <2>2
    <3> QED
      BY <1>1, <1>9, <2>2, <3>1
  <2> QED
    BY <1>1, <2>1, <2>2
<1>11. \A i, j \in 1 .. n + 1 : i # p /\ j # p /\ Was(i) = Was(j) => i = j
  BY <1>1
<1>12. \A j \in 1 .. n : \E i \in 1 .. n + 1 : i # p /\ Was(i) = j
  <2> SUFFICES ASSUME NEW j \in 1 .. n PROVE \E i \in 1 .. n + 1 : i # p /\ Was(i) = j
    OBVIOUS
  <2>1. CASE j < p
    <3>1. j \in 1 .. n + 1 /\ j # p /\ Was(j) = j
      BY <1>1, <2>1
    <3> QED
      BY <3>1
  <2>2. CASE j >= p
    <3>1. j + 1 \in 1 .. n + 1 /\ j + 1 # p /\ Was(j + 1) = j
      BY <1>1, <2>2
    <3> QED
      BY <3>1
  <2> QED
    BY <1>1, <2>1, <2>2
<1> HIDE DEF Was
<1>13. IsInjective(r)
  <2>1. ASSUME NEW i \in 1 .. n + 1, NEW j \in 1 .. n + 1, r[i] = r[j]
        PROVE  i = j
    BY <1>1, <1>8, <1>10, <1>11, <2>1
  <2> QED
    BY <1>8, <2>1 DEF IsInjective
<1>14. ToSet(r) = ToSet(q) \cup {x}
  <2>1. ToSet(r) = {r[i] : i \in 1 .. n + 1}
    BY <1>8 DEF ToSet
  <2>2. p \in 1 .. n + 1
    BY <1>1
  <2>3. ASSUME NEW i \in 1 .. n + 1
        PROVE  r[i] \in ToSet(q) \cup {x}
    BY <1>1, <1>8, <1>10
  <2>4. ASSUME NEW j \in 1 .. n
        PROVE  q[j] \in ToSet(r)
    BY <1>10, <1>12, <2>1
  <2> QED
    BY <1>1, <1>8, <2>1, <2>2, <2>3, <2>4
<1> QED
  BY <1>7, <1>8, <1>9, <1>13, <1>14 DEF Distinct, r, n

\* An object that is put in the p-th place goes before what was there.
LEMMA AfterInserted ==
  ASSUME NEW q \in Lists, NEW o \in Objects \ ToSet(q), NEW p \in 1 .. Len(q) + 1,
         NEW b, b = IF p <= Len(q) THEN q[p] ELSE Null
  PROVE  /\ After(InsertAt(q, p, o), o) = b
         /\ \A x \in ToSet(q) :
              After(InsertAt(q, p, o), x) = IF After(q, x) = b THEN o ELSE After(q, x)
<1> DEFINE n == Len(q)
           r == InsertAt(q, p, o)
<1>1. /\ n \in Nat /\ \A i \in 1 .. n : q[i] \in Objects /\ q[i] # Null
      /\ \A i, j \in 1 .. n : q[i] = q[j] => i = j
      /\ ToSet(q) = {q[i] : i \in 1 .. n}
  BY DistinctAre, NullIsNone DEF Lists
<1>2. /\ r \in Lists /\ Len(r) = n + 1
      /\ \A i \in 1 .. p - 1 : r[i] = q[i]
      /\ r[p] = o
      /\ \A i \in p + 1 .. n + 1 : r[i] = q[i - 1]
  BY Inserted DEF Lists
<1>3. ASSUME NEW i \in 1 .. n + 1
      PROVE  After(r, r[i]) = IF i < n + 1 THEN r[i + 1] ELSE Null
  <2> HIDE DEF r, n
  <2>1. i \in 1 .. Len(r)
    BY <1>2
  <2> QED
    BY <1>2, <2>1, AfterIs
<1>4. \A i \in 1 .. n : After(q, q[i]) = IF i < n THEN q[i + 1] ELSE Null
  BY AfterIs
<1> HIDE DEF n, r
<1>5. After(r, o) = b
  <2>1. p \in 1 .. n + 1 /\ After(r, o) = IF p < n + 1 THEN r[p + 1] ELSE Null
    BY <1>2, <1>3 DEF n
  <2>2. p < n + 1 => p + 1 \in p + 1 .. n + 1 /\ (p + 1) - 1 = p
    BY <1>1, <2>1
  <2>3. p < n + 1 <=> p <= n
    BY <1>1, <2>1
  <2>4. p < n + 1 => r[p + 1] = q[p]
    BY <1>2, <2>2
  <2> QED
    BY <2>1, <2>3, <2>4 DEF n
<1>6. ASSUME NEW x \in ToSet(q)
      PROVE  After(r, x) = IF After(q, x) = b THEN o ELSE After(q, x)
  <2>1. PICK i \in 1 .. n : q[i] = x
    BY <1>1
  <2>2. After(q, x) = IF i < n THEN q[i + 1] ELSE Null
    BY <1>4, <2>1
  <2>3. p \in 1 .. n + 1
    BY DEF n
  <2>4. After(q, x) = b <=> i + 1 = p
    <3>1. i < n => i + 1 \in 1 .. n
      BY <1>1
    <3>2. p <= n => p \in 1 .. n
      BY <1>1, <2>3
    <3>3. ~(i < n) => i = n
      BY <1>1
    <3>4. ~(p <= n) => p = n + 1
      BY <1>1, <2>3
    <3>5. CASE i < n /\ p <= n
      BY <1>1, <2>2, <3>1, <3>2, <3>5 DEF n
    <3>6. CASE i < n /\ ~(p <= n)
      <4>1. b = Null /\ After(q, x) = q[i + 1] /\ q[i + 1] # Null
        BY <1>1, <2>2, <3>1, <3>6 DEF n
      <4>2. i + 1 # p
        BY <1>1, <3>4, <3>6
      <4> QED
        BY <4>1, <4>2
    <3>7. CASE ~(i < n) /\ p <= n
      <4>1. b = q[p] /\ After(q, x) = Null /\ q[p] # Null
        BY <1>1, <2>2, <3>2, <3>7 DEF n
      <4>2. i + 1 # p
        BY <1>1, <3>3, <3>7
      <4> QED
        BY <4>1, <4>2
    <3>8. CASE ~(i < n) /\ ~(p <= n)
      BY <2>2, <3>3, <3>4, <3>8 DEF n
    <3> QED
      BY <3>5, <3>6, <3>7, <3>8
  <2>5. CASE i < p
    <3>1. i \in 1 .. p - 1 /\ i \in 1 .. n + 1 /\ i < n + 1
      BY <1>1, <2>3, <2>5
    <3>2. r[i] = x /\ After(r, x) = r[i + 1]
      BY <1>2, <1>3, <2>1, <3>1
    <3>3. CASE i + 1 = p
      BY <1>2, <2>4, <3>2, <3>3
    <3>4. CASE i + 1 # p
      <4>1. i + 1 \in 1 .. p - 1 /\ i < n
        BY <1>1, <2>3, <2>5, <3>4
      <4>2. r[i + 1] = q[i + 1]
        BY <1>2, <4>1
      <4> QED
        BY <2>2, <2>4, <3>2, <3>4, <4>1, <4>2
    <3> QED
      BY <3>3, <3>4
  <2>6. CASE i >= p
    <3>1. i + 1 \in p + 1 .. n + 1 /\ i + 1 \in 1 .. n + 1 /\ (i + 1) - 1 = i /\ i + 1 # p
      BY <1>1, <2>3, <2>6
    <3>2. r[i + 1] = x /\ After(r, x) = IF i + 1 < n + 1 THEN r[(i + 1) + 1] ELSE Null
      BY <1>2, <1>3, <2>1, <3>1
    <3>3. i + 1 < n + 1 <=> i < n
      BY <1>1
    <3>4. i < n => (i + 1) + 1 \in p + 1 .. n + 1 /\ ((i + 1) + 1) - 1 = i + 1
      BY <1>1, <2>3, <2>6
    <3>5. i < n => r[(i + 1) + 1] = q[i + 1]
      BY <1>2, <3>4
    <3> QED
      BY <2>2, <2>4, <3>1, <3>2, <3>3, <3>5
  <2> QED
    BY <1>1, <2>3, <2>5, <2>6
<1> QED
  BY <1>5, <1>6 DEF r

\* A list is determined by what is in it and what follows what: from the end on.
LEMMA SameAfter ==
  ASSUME NEW q \in Lists, NEW r \in Lists, ToSet(q) = ToSet(r),
         \A x \in ToSet(q) : After(q, x) = After(r, x)
  PROVE  q = r
<1> DEFINE n == Len(q)
           m == Len(r)
           least == IF n <= m THEN n ELSE m
           Same == {k \in Int : k < least => q[n - k] = r[m - k]}
<1>1. /\ n \in Nat /\ \A i \in 1 .. n : q[i] \in Objects /\ q[i] # Null /\ q[i] \in ToSet(q)
      /\ \A i, j \in 1 .. n : q[i] = q[j] => i = j
      /\ \A x \in ToSet(q) : \E i \in 1 .. n : q[i] = x
  BY DistinctAre, NullIsNone DEF Lists
<1>2. /\ m \in Nat /\ \A i \in 1 .. m : r[i] \in Objects /\ r[i] # Null /\ r[i] \in ToSet(q)
      /\ \A i, j \in 1 .. m : r[i] = r[j] => i = j
      /\ \A x \in ToSet(q) : \E i \in 1 .. m : r[i] = x
  BY DistinctAre, NullIsNone DEF Lists
<1>3. \A i \in 1 .. n : After(q, q[i]) = IF i < n THEN q[i + 1] ELSE Null
  BY AfterIs
<1>4. \A i \in 1 .. m : After(r, r[i]) = IF i < m THEN r[i + 1] ELSE Null
  BY AfterIs
<1> HIDE DEF n, m
<1>5. least \in Nat /\ least <= n /\ least <= m /\ (least = n \/ least = m)
  BY <1>1, <1>2
<1> HIDE DEF least
\* The element that is followed by the same as r[i] is r[i].
<1>6. ASSUME NEW i \in 1 .. n, NEW j \in 1 .. m,
             (IF i < n THEN q[i + 1] ELSE Null) = (IF j < m THEN r[j + 1] ELSE Null)
      PROVE  q[i] = r[j]
  <2>1. After(q, q[i]) = After(r, r[j])
    BY <1>3, <1>4, <1>6
  <2>2. q[i] \in ToSet(q)
    BY <1>1
  <2>3. PICK l \in 1 .. m : r[l] = q[i]
    BY <1>2, <2>2
  <2>4. (IF l < m THEN r[l + 1] ELSE Null) = IF j < m THEN r[j + 1] ELSE Null
    BY <1>4, <2>1, <2>2, <2>3
  <2>5. l < m => l + 1 \in 1 .. m
    BY <1>2
  <2>6. j < m => j + 1 \in 1 .. m
    BY <1>2
  <2>7. CASE l < m
    BY <1>2, <2>3, <2>4, <2>5, <2>6, <2>7
  <2>8. CASE ~(l < m)
    BY <1>2, <2>3, <2>4, <2>5, <2>6, <2>8
  <2> QED
    BY <2>7, <2>8
<1>7. 0 <= least - 1 => 0 \in Same
  <2> SUFFICES ASSUME 0 < least PROVE q[n - 0] = r[m - 0]
    BY <1>5
  <2>1. n \in 1 .. n /\ m \in 1 .. m
    BY <1>1, <1>2, <1>5
  <2>2. q[n] = r[m]
    BY <1>1, <1>2, <1>6, <2>1
  <2> QED
    BY <1>1, <1>2, <2>2
<1>8. ASSUME NEW k \in 0 .. (least - 1) - 1, k \in Same
      PROVE  k + 1 \in Same
  <2>1. /\ n - (k + 1) \in 1 .. n /\ n - (k + 1) < n /\ (n - (k + 1)) + 1 = n - k
        /\ m - (k + 1) \in 1 .. m /\ m - (k + 1) < m /\ (m - (k + 1)) + 1 = m - k
    BY <1>1, <1>2, <1>5
  <2>2. k < least
    BY <1>5
  <2>3. q[n - k] = r[m - k]
    BY <1>8, <2>2
  <2> HIDE DEF Same
  <2>4. q[n - (k + 1)] = r[m - (k + 1)]
    BY <1>6, <2>1, <2>3
  <2> QED
    BY <2>4 DEF Same
<1> HIDE DEF Same
<1>9. 0 .. least - 1 \subseteq Same
  <2>1. 0 \in Int /\ least - 1 \in Int
    BY <1>5
  <2> QED
    BY <1>7, <1>8, <2>1, IntervalInduction
<1>10. \A k \in 0 .. least - 1 : q[n - k] = r[m - k]
  BY <1>5, <1>9 DEF Same
<1>11. n = m
  <2>1. CASE n < m
    <3>1. least = n /\ m - n \in 1 .. m /\ (m - n) + 1 \in 1 .. m
      BY <1>1, <1>2, <1>5, <2>1
    <3>2. PICK i \in 1 .. n : q[i] = r[m - n]
      BY <1>1, <1>2, <3>1
    <3>3. n - i \in 0 .. least - 1 /\ n - (n - i) = i /\ m - (n - i) \in 1 .. m /\ m - (n - i) # m - n
      BY <1>1, <1>2, <2>1, <3>1
    <3>4. q[i] = r[m - (n - i)]
      BY <1>10, <3>3
    <3> QED
      BY <1>2, <3>1, <3>2, <3>3, <3>4
  <2>2. CASE m < n
    <3>1. least = m /\ n - m \in 1 .. n
      BY <1>1, <1>2, <1>5, <2>2
    <3>2. PICK i \in 1 .. m : r[i] = q[n - m]
      BY <1>1, <1>2, <3>1
    <3>3. m - i \in 0 .. least - 1 /\ m - (m - i) = i /\ n - (m - i) \in 1 .. n /\ n - (m - i) # n - m
      BY <1>1, <1>2, <2>2, <3>1
    <3>4. r[i] = q[n - (m - i)]
      BY <1>10, <3>3
    <3> QED
      BY <1>1, <3>1, <3>2, <3>3, <3>4
  <2> QED
    BY <1>1, <1>2, <2>1, <2>2
<1>12. \A i \in 1 .. n : q[i] = r[i]
  <2> SUFFICES ASSUME NEW i \in 1 .. n PROVE q[i] = r[i]
    OBVIOUS
  <2>1. n - i \in 0 .. least - 1 /\ n - (n - i) = i /\ m - (n - i) = i
    BY <1>1, <1>5, <1>11
  <2> QED
    BY <1>10, <2>1
<1> QED
  <2>1. q \in Seq(Objects) /\ r \in Seq(Objects) /\ Len(q) = Len(r) /\ \A i \in 1 .. Len(q) : q[i] = r[i]
    BY <1>11, <1>12, DistinctAre DEF Lists, n, m
  <2> QED
    BY <2>1, SameSequence
-----------------------------------------------------------------------------
(***************************************************************************)
(* Drawings, told apart by the places of their objects.                    *)
(***************************************************************************)
Drawings ==
  {k \in [Containers -> Lists] :
    \A c, d \in Containers : c # d => Children(k, c) \cap Children(k, d) = {}}

LEMMA ParentIs ==
  ASSUME NEW k \in Drawings, NEW x \in Objects
  PROVE  /\ ParentNode(k, x) \in Containers \cup {Null}
         /\ \A c \in Containers : x \in Children(k, c) <=> ParentNode(k, x) = c
<1>1. \A c, d \in Containers : x \in Children(k, c) /\ x \in Children(k, d) => c = d
  BY DEF Drawings
<1>2. CASE \E c \in Containers : x \in Children(k, c)
  <2>1. ParentNode(k, x) = CHOOSE c \in Containers : x \in Children(k, c)
    BY <1>2 DEF ParentNode
  <2>2. ParentNode(k, x) \in Containers /\ x \in Children(k, ParentNode(k, x))
    BY <1>2, <2>1
  <2> QED
    BY <1>1, <2>2
<1>3. CASE ~ \E c \in Containers : x \in Children(k, c)
  <2>1. ParentNode(k, x) = Null
    BY <1>3 DEF ParentNode
  <2> QED
    BY <1>3, <2>1, NullIsNone
<1> QED
  BY <1>2, <1>3

LEMMA ChildIs ==
  ASSUME NEW k \in Drawings, NEW c \in Containers
  PROVE  /\ k[c] \in Lists /\ Len(k[c]) \in Nat /\ DOMAIN k[c] = 1 .. Len(k[c])
         /\ \A i \in 1 .. Len(k[c]) : k[c][i] \in Objects /\ ParentNode(k, k[c][i]) = c
         /\ \A i, j \in 1 .. Len(k[c]) : k[c][i] = k[c][j] => i = j
         /\ Children(k, c) = {x \in Objects : ParentNode(k, x) = c}
         /\ \A x \in Objects : ParentNode(k, x) = c => \E i \in 1 .. Len(k[c]) : k[c][i] = x
<1>1. k[c] \in Lists
  BY DEF Drawings
<1>2. /\ Len(k[c]) \in Nat /\ DOMAIN k[c] = 1 .. Len(k[c])
      /\ \A i \in 1 .. Len(k[c]) : k[c][i] \in Objects
      /\ \A i, j \in 1 .. Len(k[c]) : k[c][i] = k[c][j] => i = j
      /\ Children(k, c) = {k[c][i] : i \in 1 .. Len(k[c])}
  BY <1>1, DistinctAre DEF Lists, Children
<1>3. \A x \in Objects : x \in Children(k, c) <=> ParentNode(k, x) = c
  BY ParentIs
<1> QED
  BY <1>1, <1>2, <1>3

LEMMA SiblingIs ==
  ASSUME NEW k \in Drawings, NEW c \in Containers, NEW i \in 1 .. Len(k[c]), NEW n \in Int
  PROVE  Sibling(k, k[c][i], n) = IF i + n \in 1 .. Len(k[c]) THEN k[c][i + n] ELSE Null
<1>1. /\ k[c] \in Distinct(Objects) /\ DOMAIN k[c] = 1 .. Len(k[c])
      /\ ParentNode(k, k[c][i]) = c /\ c # Null
  BY ChildIs, NullIsNone DEF Lists
<1>2. Position(k[c], k[c][i]) = i
  BY <1>1, PositionIs
<1>3. Sibling(k, k[c][i], n) =
        LET j == Position(k[c], k[c][i]) + n
        IN IF c # Null /\ j \in DOMAIN k[c] THEN k[c][j] ELSE Null
  BY <1>1 DEF Sibling, Position
<1> QED
  BY <1>1, <1>2, <1>3

LEMMA OrphanHasNone ==
  ASSUME NEW k \in Drawings, NEW x \in Objects, ParentNode(k, x) = Null, NEW n \in Int
  PROVE  Sibling(k, x, n) = Null
BY DEF Sibling

LEMMA NextSiblingIs ==
  ASSUME NEW k \in Drawings, NEW c \in Containers, NEW x \in Children(k, c)
  PROVE  NextSibling(k, x) = After(k[c], x)
<1>1. PICK i \in 1 .. Len(k[c]) : k[c][i] = x
  BY ChildIs
<1>2. k[c] \in Lists /\ Len(k[c]) \in Nat
  BY ChildIs
<1>3. After(k[c], x) = IF i < Len(k[c]) THEN k[c][i + 1] ELSE Null
  BY <1>1, <1>2, AfterIs
<1>4. NextSibling(k, x) = IF i + 1 \in 1 .. Len(k[c]) THEN k[c][i + 1] ELSE Null
  BY <1>1, SiblingIs DEF NextSibling
<1>5. i + 1 \in 1 .. Len(k[c]) <=> i < Len(k[c])
  BY <1>2
<1> QED
  BY <1>3, <1>4, <1>5

\* The children of a container form a chain.
LEMMA Chained ==
  ASSUME NEW k \in Drawings, NEW x \in Objects
  PROVE  /\ PlaceOf(k, x) \in Places
         /\ NextSibling(k, x) \in Objects \cup {Null}
         /\ NextSibling(k, x) # x
         /\ ParentNode(k, x) = Null => NextSibling(k, x) = Null
         /\ NextSibling(k, x) # Null => ParentNode(k, NextSibling(k, x)) = ParentNode(k, x)
         /\ \A y \in Objects :
              /\ ParentNode(k, x) # Null /\ ParentNode(k, x) = ParentNode(k, y)
              /\ NextSibling(k, x) = NextSibling(k, y)
              => x = y
<1>1. ParentNode(k, x) \in Containers \cup {Null}
  BY ParentIs
<1>2. CASE ParentNode(k, x) = Null
  <2>1. NextSibling(k, x) = Null
    BY <1>2, OrphanHasNone DEF NextSibling
  <2> QED
    BY <1>1, <1>2, <2>1, NullIsNone DEF PlaceOf, Places
<1>3. ASSUME NEW c \in Containers, ParentNode(k, x) = c
      PROVE  /\ NextSibling(k, x) \in Objects \cup {Null}
             /\ NextSibling(k, x) # x
             /\ NextSibling(k, x) # Null => ParentNode(k, NextSibling(k, x)) = c
             /\ \A y \in Objects : c = ParentNode(k, y) /\ NextSibling(k, x) = NextSibling(k, y) => x = y
  <2> DEFINE n == Len(k[c])
  <2>1. PICK i \in 1 .. n : k[c][i] = x
    BY <1>3, ChildIs
  <2>2. /\ n \in Nat /\ \A j \in 1 .. n : k[c][j] \in Objects /\ k[c][j] # Null /\ ParentNode(k, k[c][j]) = c
        /\ \A j, l \in 1 .. n : k[c][j] = k[c][l] => j = l
    BY ChildIs, NullIsNone
  <2>3. \A j \in 1 .. n : NextSibling(k, k[c][j]) = IF j + 1 \in 1 .. n THEN k[c][j + 1] ELSE Null
    BY SiblingIs DEF NextSibling
  <2> HIDE DEF n
  <2>4. NextSibling(k, x) \in Objects \cup {Null} /\ NextSibling(k, x) # x
    BY <2>1, <2>2, <2>3
  <2>5. NextSibling(k, x) # Null => ParentNode(k, NextSibling(k, x)) = c
    BY <2>1, <2>2, <2>3
  <2>6. ASSUME NEW y \in Objects, c = ParentNode(k, y), NextSibling(k, x) = NextSibling(k, y)
        PROVE  x = y
    <3>1. PICK j \in 1 .. n : k[c][j] = y
      BY <2>6, ChildIs DEF n
    <3>2. CASE i + 1 \in 1 .. n /\ j + 1 \in 1 .. n
      <4>1. i + 1 = j + 1
        BY <2>1, <2>2, <2>3, <2>6, <3>1, <3>2
      <4> QED
        BY <2>1, <2>2, <3>1, <4>1
    <3>3. CASE i + 1 \notin 1 .. n /\ j + 1 \notin 1 .. n
      <4>1. i = n /\ j = n
        BY <2>2, <3>3
      <4> QED
        BY <2>1, <3>1, <4>1
    <3>4. CASE i + 1 \in 1 .. n /\ j + 1 \notin 1 .. n
      BY <2>1, <2>2, <2>3, <2>6, <3>1, <3>4
    <3>5. CASE i + 1 \notin 1 .. n /\ j + 1 \in 1 .. n
      BY <2>1, <2>2, <2>3, <2>6, <3>1, <3>5
    <3> QED
      BY <3>2, <3>3, <3>4, <3>5
  <2> QED
    BY <2>4, <2>5, <2>6
<1>4. CASE ParentNode(k, x) \in Containers
  <2>1. NextSibling(k, x) \in Objects \cup {Null}
    BY <1>3, <1>4
  <2>2. PlaceOf(k, x) \in Places
    BY <1>1, <2>1 DEF PlaceOf, Places
  <2> QED
    BY <1>3, <1>4, <2>1, <2>2, NullIsNone
<1> QED
  BY <1>1, <1>2, <1>4

LEMMA PreviousIs ==
  ASSUME NEW k \in Drawings, NEW x \in Objects
  PROVE  LET y == PreviousSibling(k, x)
         IN /\ y \in Objects \cup {Null}
            /\ y # Null => NextSibling(k, y) = x /\ ParentNode(k, y) = ParentNode(k, x)
            /\ \A z \in Objects : NextSibling(k, z) = x => y = z
<1>1. CASE ParentNode(k, x) = Null
  <2>1. PreviousSibling(k, x) = Null
    BY <1>1, OrphanHasNone DEF PreviousSibling
  <2>2. \A z \in Objects : NextSibling(k, z) # x
    BY <1>1, Chained, NullIsNone
  <2> QED
    BY <2>1, <2>2
<1>2. CASE ParentNode(k, x) \in Containers
  <2> DEFINE c == ParentNode(k, x)
             n == Len(k[c])
  <2>1. PICK i \in 1 .. n : k[c][i] = x
    BY <1>2, ChildIs
  <2>2. /\ n \in Nat /\ \A j \in 1 .. n : k[c][j] \in Objects /\ k[c][j] # Null /\ ParentNode(k, k[c][j]) = c
        /\ \A j, l \in 1 .. n : k[c][j] = k[c][l] => j = l
    BY <1>2, ChildIs, NullIsNone
  <2>3. \A j \in 1 .. n : NextSibling(k, k[c][j]) = IF j + 1 \in 1 .. n THEN k[c][j + 1] ELSE Null
    BY <1>2, SiblingIs DEF NextSibling
  <2>4. PreviousSibling(k, x) = IF i + (-1) \in 1 .. n THEN k[c][i + (-1)] ELSE Null
    BY <1>2, <2>1, SiblingIs DEF PreviousSibling
  <2>5. ASSUME NEW z \in Objects, NextSibling(k, z) = x
        PROVE  PreviousSibling(k, x) = z
    <3>1. ParentNode(k, z) = c
      BY <2>5, Chained, NullIsNone
    <3>2. PICK j \in 1 .. n : k[c][j] = z
      BY <1>2, <3>1, ChildIs
    <3> HIDE DEF n
    <3>3. j + 1 \in 1 .. n /\ k[c][j + 1] = x
      BY <2>2, <2>3, <2>5, <3>2, NullIsNone
    <3>4. j + 1 = i
      BY <2>1, <2>2, <3>3
    <3>5. i + (-1) = j
      BY <2>2, <3>4
    <3> QED
      BY <2>4, <3>2, <3>5
  <2> HIDE DEF n
  <2>6. ASSUME i + (-1) \in 1 .. n
        PROVE  NextSibling(k, PreviousSibling(k, x)) = x
    <3>1. (i + (-1)) + 1 = i
      BY <2>2
    <3> QED
      BY <2>1, <2>3, <2>4, <2>6, <3>1
  <2>7. PreviousSibling(k, x) # Null => i + (-1) \in 1 .. n
    BY <2>4
  <2> QED
    BY <2>2, <2>4, <2>5, <2>6, <2>7
<1> QED
  BY <1>1, <1>2, ParentIs

LEMMA SecondIs ==
  ASSUME NEW k \in Drawings, NEW x \in Objects
  PROVE  /\ Sibling(k, x, 2) =
              IF NextSibling(k, x) = Null THEN Null ELSE NextSibling(k, NextSibling(k, x))
         /\ Sibling(k, x, 2) # x
<1>1. CASE ParentNode(k, x) = Null
  BY <1>1, OrphanHasNone, NullIsNone DEF NextSibling
<1>2. CASE ParentNode(k, x) \in Containers
  <2> DEFINE c == ParentNode(k, x)
             n == Len(k[c])
  <2>1. PICK i \in 1 .. n : k[c][i] = x
    BY <1>2, ChildIs
  <2>2. /\ n \in Nat /\ \A j \in 1 .. n : k[c][j] # Null
        /\ \A j, l \in 1 .. n : k[c][j] = k[c][l] => j = l
    BY <1>2, ChildIs, NullIsNone
  <2>3. \A j \in 1 .. n : NextSibling(k, k[c][j]) = IF j + 1 \in 1 .. n THEN k[c][j + 1] ELSE Null
    BY <1>2, SiblingIs DEF NextSibling
  <2>4. Sibling(k, x, 2) = IF i + 2 \in 1 .. n THEN k[c][i + 2] ELSE Null
    BY <1>2, <2>1, SiblingIs
  <2> HIDE DEF n
  <2>5. (i + 1) + 1 = i + 2 /\ (i + 2 \in 1 .. n => i + 1 \in 1 .. n)
    BY <2>2
  <2>6. Sibling(k, x, 2) # x
    <3>1. i + 2 # i
      BY <2>2
    <3> QED
      BY <2>1, <2>2, <2>4, <3>1, NullIsNone
  <2>7. CASE i + 1 \in 1 .. n
    <3>1. NextSibling(k, x) = k[c][i + 1] /\ NextSibling(k, x) # Null
      BY <2>1, <2>2, <2>3, <2>7
    <3>2. NextSibling(k, k[c][i + 1]) = IF i + 2 \in 1 .. n THEN k[c][i + 2] ELSE Null
      BY <2>3, <2>5, <2>7
    <3> QED
      BY <2>4, <2>6, <3>1, <3>2
  <2>8. CASE i + 1 \notin 1 .. n
    BY <2>1, <2>3, <2>4, <2>5, <2>6, <2>8
  <2> QED
    BY <2>7, <2>8
<1> QED
  BY <1>1, <1>2, ParentIs

LEMMA HeadIs ==
  ASSUME NEW k \in Drawings, NEW x \in Objects, ParentNode(k, x) # Null
  PROVE  LET h == Head(k[ParentNode(k, x)])
         IN /\ h \in Objects /\ ParentNode(k, h) = ParentNode(k, x)
            /\ \A y \in Objects : NextSibling(k, y) # h
<1> DEFINE c == ParentNode(k, x)
           n == Len(k[c])
           h == Head(k[c])
<1>1. c \in Containers
  BY ParentIs
<1>2. PICK i \in 1 .. n : k[c][i] = x
  BY <1>1, ChildIs
<1>3. /\ n \in Nat /\ \A j \in 1 .. n : k[c][j] \in Objects /\ k[c][j] # Null /\ ParentNode(k, k[c][j]) = c
      /\ \A j, l \in 1 .. n : k[c][j] = k[c][l] => j = l
  BY <1>1, ChildIs, NullIsNone
<1>4. \A j \in 1 .. n : NextSibling(k, k[c][j]) = IF j + 1 \in 1 .. n THEN k[c][j + 1] ELSE Null
  BY <1>1, SiblingIs DEF NextSibling
<1>5. 1 \in 1 .. n /\ h = k[c][1]
  <2>1. k[c] \in Seq(Objects) /\ k[c] # <<>>
    BY <1>1, <1>2, ChildIs DEF Lists, Distinct
  <2> QED
    BY <1>2, <1>3, <2>1
<1>6. ASSUME NEW y \in Objects, NextSibling(k, y) = h
      PROVE  FALSE
  <2>1. ParentNode(k, y) = c
    BY <1>3, <1>5, <1>6, Chained, NullIsNone
  <2>2. PICK j \in 1 .. n : k[c][j] = y
    BY <1>1, <2>1, ChildIs
  <2> HIDE DEF n, c, h
  <2>3. j + 1 \in 1 .. n /\ k[c][j + 1] = k[c][1]
    BY <1>3, <1>4, <1>5, <1>6, <2>2
  <2>4. j + 1 = 1
    BY <1>3, <1>5, <2>3
  <2> QED
    BY <2>4, <1>3
<1> QED
  BY <1>3, <1>5, <1>6

LEMMA SamePlaces ==
  ASSUME NEW k \in Drawings, NEW l \in Drawings,
         \A x \in Objects : /\ ParentNode(k, x) = ParentNode(l, x)
                            /\ NextSibling(k, x) = NextSibling(l, x)
  PROVE  k = l
<1>1. ASSUME NEW c \in Containers
      PROVE  k[c] = l[c]
  <2>1. ToSet(k[c]) = Children(k, c) /\ ToSet(l[c]) = Children(l, c)
    BY DEF Children
  <2>2. Children(k, c) = Children(l, c) /\ Children(k, c) \subseteq Objects
    <3>1. Children(k, c) = {x \in Objects : ParentNode(k, x) = c}
      BY ChildIs
    <3>2. Children(l, c) = {x \in Objects : ParentNode(l, x) = c}
      BY ChildIs
    <3> QED
      BY <3>1, <3>2
  <2>3. \A x \in Children(k, c) : After(k[c], x) = After(l[c], x)
    BY <2>2, NextSiblingIs
  <2>4. k[c] \in Lists /\ l[c] \in Lists
    BY ChildIs
  <2> QED
    BY <2>1, <2>2, <2>3, <2>4, SameAfter
<1>2. k = [c \in Containers |-> k[c]] /\ l = [c \in Containers |-> l[c]]
  BY DEF Drawings
<1> QED
  BY <1>1, <1>2

LEMMA DetachedPlaces ==
  ASSUME NEW k \in Drawings, NEW o \in Objects
  PROVE  LET r == Detached(k, o)
         IN /\ r \in Drawings
            /\ ParentNode(r, o) = Null
            /\ \A x \in Objects : x # o =>
                 /\ ParentNode(r, x) = ParentNode(k, x)
                 /\ NextSibling(r, x) =
                      IF NextSibling(k, x) = o THEN NextSibling(k, o) ELSE NextSibling(k, x)
<1> DEFINE r == Detached(k, o)
<1>1. r = [c \in Containers |-> RemoveFirst(k[c], o)]
  BY DEF Detached
<1> HIDE DEF r
<1>2. ASSUME NEW c \in Containers
      PROVE  r[c] \in Lists /\ ToSet(r[c]) = ToSet(k[c]) \ {o}
  <2>1. k[c] \in Lists
    BY ChildIs
  <2>2. CASE o \in ToSet(k[c])
    <3>1. PICK p \in 1 .. Len(k[c]) : k[c][p] = o
      BY <2>1, <2>2, DistinctAre DEF Lists
    <3>2. /\ RemoveFirst(k[c], k[c][p]) \in Lists
          /\ ToSet(RemoveFirst(k[c], k[c][p])) = ToSet(k[c]) \ {k[c][p]}
      BY <2>1, <3>1, RemovedFirst DEF Lists
    <3> QED
      BY <1>1, <3>1, <3>2
  <2>3. CASE o \notin ToSet(k[c])
    <3>1. RemoveFirst(k[c], o) = k[c]
      BY <2>1, <2>3, NothingRemoved DEF Lists
    <3> QED
      BY <1>1, <2>1, <2>3, <3>1
  <2> QED
    BY <2>2, <2>3
<1>3. \A c \in Containers : Children(r, c) = Children(k, c) \ {o}
  BY <1>2 DEF Children
<1>4. r \in Drawings
  <2>1. r \in [Containers -> Lists]
    BY <1>1, <1>2
  <2>2. \A c, d \in Containers : c # d => Children(k, c) \cap Children(k, d) = {}
    BY DEF Drawings
  <2> QED
    BY <1>3, <2>1, <2>2 DEF Drawings
<1>5. ParentNode(r, o) = Null
  BY <1>3, <1>4, ParentIs
<1>6. ASSUME NEW x \in Objects, x # o
      PROVE  ParentNode(r, x) = ParentNode(k, x)
  <2>1. \A c \in Containers : x \in Children(r, c) <=> x \in Children(k, c)
    BY <1>3, <1>6
  <2>2. /\ ParentNode(r, x) \in Containers \cup {Null}
        /\ \A c \in Containers : x \in Children(r, c) <=> ParentNode(r, x) = c
    BY <1>4, ParentIs
  <2>3. /\ ParentNode(k, x) \in Containers \cup {Null}
        /\ \A c \in Containers : x \in Children(k, c) <=> ParentNode(k, x) = c
    BY ParentIs
  <2> QED
    BY <2>1, <2>2, <2>3
<1>7. ASSUME NEW x \in Objects, x # o
      PROVE  NextSibling(r, x) = IF NextSibling(k, x) = o THEN NextSibling(k, o) ELSE NextSibling(k, x)
  <2>1. CASE ParentNode(k, x) = Null
    <3>1. NextSibling(r, x) = Null /\ NextSibling(k, x) = Null
      BY <1>4, <1>6, <1>7, <2>1, Chained
    <3> QED
      BY <3>1, NullIsNone
  <2>2. ASSUME NEW c \in Containers, ParentNode(k, x) = c
        PROVE  NextSibling(r, x) = IF NextSibling(k, x) = o THEN NextSibling(k, o) ELSE NextSibling(k, x)
    <3>1. x \in Children(k, c) /\ x \in Children(r, c)
      BY <1>3, <1>7, <2>2, ParentIs
    <3>2. NextSibling(k, x) = After(k[c], x) /\ NextSibling(r, x) = After(r[c], x)
      BY <1>4, <3>1, NextSiblingIs
    <3>3. k[c] \in Lists
      BY ChildIs
    <3>4. CASE o \in Children(k, c)
      <4>1. NextSibling(k, o) = After(k[c], o)
        BY <3>4, NextSiblingIs
      <4>2. After(RemoveFirst(k[c], o), x) = IF After(k[c], x) = o THEN After(k[c], o) ELSE After(k[c], x)
        BY <1>7, <3>1, <3>3, <3>4, AfterRemoved DEF Children
      <4> QED
        BY <1>1, <3>2, <4>1, <4>2
    <3>5. CASE o \notin Children(k, c)
      <4>1. RemoveFirst(k[c], o) = k[c]
        BY <3>3, <3>5, NothingRemoved DEF Lists, Children
      <4>2. NextSibling(k, x) # o
        BY <2>2, <3>5, ParentIs, Chained, NullIsNone
      <4> QED
        BY <1>1, <3>2, <4>1, <4>2
    <3> QED
      BY <3>4, <3>5
  <2> QED
    BY <2>1, <2>2, ParentIs
<1> QED
  BY <1>4, <1>5, <1>6, <1>7 DEF r

LEMMA MovedAway ==
  ASSUME NEW k \in Drawings, NEW o \in Objects, NEW p \in Places, p.parent = Null
  PROVE  Moved(k, o, p) = Detached(k, o)
BY DEF Moved

Fits(k, o, p) == p \in Places /\ CanInsert(k, p) /\ p.before # o

LEMMA MovedPlaces ==
  ASSUME NEW k \in Drawings, NEW o \in Objects, NEW p, Fits(k, o, p)
  PROVE  LET m == Moved(k, o, p)
         IN /\ m \in Drawings
            /\ ParentNode(m, o) = p.parent /\ NextSibling(m, o) = p.before
            /\ \A x \in Objects : x # o =>
                 /\ ParentNode(m, x) = ParentNode(k, x)
                 /\ LET y == IF NextSibling(k, x) = o THEN NextSibling(k, o) ELSE NextSibling(k, x)
                    IN NextSibling(m, x) =
                         IF ParentNode(k, x) = p.parent /\ y = p.before THEN o ELSE y
<1> DEFINE r == Detached(k, o)
           q == r[p.parent]
           at == IF p.before = Null THEN Len(q) + 1 ELSE Position(q, p.before)
           new == InsertAt(q, at, o)
           m == Moved(k, o, p)
<1>1. /\ r \in Drawings /\ ParentNode(r, o) = Null
      /\ \A x \in Objects : x # o =>
           /\ ParentNode(r, x) = ParentNode(k, x)
           /\ NextSibling(r, x) =
                IF NextSibling(k, x) = o THEN NextSibling(k, o) ELSE NextSibling(k, x)
  BY DetachedPlaces
<1>2. p.parent \in Containers /\ p.before \in Objects \cup {Null} /\ p.before # o
  BY NullIsNone DEF Fits, CanInsert, Places
<1>3. m = [r EXCEPT ![p.parent] = new]
  <2>1. p.parent # Null
    BY <1>2, NullIsNone
  <2> QED
    BY <2>1 DEF Moved, Position
<1> HIDE DEF r, m
<1>4. /\ q \in Lists /\ Len(q) \in Nat
      /\ \A x \in Objects : x \in ToSet(q) <=> ParentNode(r, x) = p.parent
      /\ o \notin ToSet(q)
  BY <1>1, <1>2, ChildIs, ParentIs, NullIsNone DEF Children
<1>5. p.before # Null => p.before \in ToSet(q)
  <2> SUFFICES ASSUME p.before # Null PROVE p.before \in ToSet(q)
    OBVIOUS
  <2>1. p.before \in Children(k, p.parent)
    BY DEF Fits, CanInsert
  <2>2. ParentNode(k, p.before) = p.parent
    BY <1>2, <2>1, ParentIs
  <2> QED
    BY <1>1, <1>2, <1>4, <2>2
<1>6. at \in 1 .. Len(q) + 1 /\ p.before = IF at <= Len(q) THEN q[at] ELSE Null
  <2>1. CASE p.before = Null
    BY <1>4, <2>1
  <2>2. CASE p.before # Null
    <3>1. PICK i \in 1 .. Len(q) : q[i] = p.before
      BY <1>4, <1>5, <2>2, DistinctAre DEF Lists
    <3>2. at = i
      BY <1>4, <2>2, <3>1, PositionIs DEF Lists
    <3> QED
      BY <1>4, <3>1, <3>2
  <2> QED
    BY <2>1, <2>2
<1> HIDE DEF at
<1>7. new \in Lists /\ ToSet(new) = ToSet(q) \cup {o}
  BY <1>4, <1>6, Inserted DEF Lists
<1>8. /\ After(new, o) = p.before
      /\ \A x \in ToSet(q) : After(new, x) = IF After(q, x) = p.before THEN o ELSE After(q, x)
  BY <1>4, <1>6, AfterInserted
<1> HIDE DEF new
<1>9. /\ m \in [Containers -> Lists] /\ m[p.parent] = new
      /\ \A c \in Containers : c # p.parent => m[c] = r[c]
  BY <1>1, <1>2, <1>3, <1>7 DEF Drawings
<1>10. /\ Children(m, p.parent) = Children(r, p.parent) \cup {o}
       /\ \A c \in Containers : c # p.parent => Children(m, c) = Children(r, c)
  BY <1>7, <1>9 DEF Children
<1>11. m \in Drawings
  <2>1. \A c, d \in Containers : c # d => Children(r, c) \cap Children(r, d) = {}
    BY <1>1 DEF Drawings
  <2>2. \A c \in Containers : o \notin Children(r, c)
    BY <1>1, ParentIs, NullIsNone
  <2>3. \A c, d \in Containers : c # d => Children(m, c) \cap Children(m, d) = {}
    BY <1>2, <1>10, <2>1, <2>2
  <2> QED
    BY <1>9, <2>3 DEF Drawings
<1>12. ParentNode(m, o) = p.parent /\ NextSibling(m, o) = p.before
  <2>1. o \in Children(m, p.parent)
    BY <1>10
  <2>2. NextSibling(m, o) = After(m[p.parent], o)
    BY <1>2, <1>11, <2>1, NextSiblingIs
  <2> QED
    BY <1>2, <1>8, <1>9, <1>11, <2>1, <2>2, ParentIs
<1>13. ASSUME NEW x \in Objects, x # o
       PROVE  /\ ParentNode(m, x) = ParentNode(r, x)
              /\ NextSibling(m, x) =
                   IF ParentNode(r, x) = p.parent /\ NextSibling(r, x) = p.before THEN o ELSE NextSibling(r, x)
  <2>1. \A c \in Containers : x \in Children(m, c) <=> x \in Children(r, c)
    BY <1>2, <1>10, <1>13
  <2>2. /\ ParentNode(m, x) \in Containers \cup {Null}
        /\ \A c \in Containers : x \in Children(m, c) <=> ParentNode(m, x) = c
    BY <1>11, ParentIs
  <2>3. /\ ParentNode(r, x) \in Containers \cup {Null}
        /\ \A c \in Containers : x \in Children(r, c) <=> ParentNode(r, x) = c
    BY <1>1, ParentIs
  <2>4. ParentNode(m, x) = ParentNode(r, x)
    BY <2>1, <2>2, <2>3
  <2>5. CASE ParentNode(r, x) = Null
    <3>1. NextSibling(m, x) = Null /\ NextSibling(r, x) = Null
      BY <1>1, <1>11, <2>4, <2>5, Chained
    <3> QED
      BY <1>2, <2>4, <2>5, <3>1, NullIsNone
  <2>6. CASE ParentNode(r, x) = p.parent
    <3>1. x \in Children(r, p.parent) /\ x \in Children(m, p.parent)
      BY <1>2, <2>1, <2>3, <2>6
    <3>2. NextSibling(m, x) = After(new, x) /\ NextSibling(r, x) = After(q, x) /\ x \in ToSet(q)
      BY <1>1, <1>2, <1>9, <1>11, <3>1, NextSiblingIs DEF Children
    <3> QED
      BY <1>8, <2>4, <2>6, <3>2
  <2>7. ASSUME NEW c \in Containers, ParentNode(r, x) = c, c # p.parent
        PROVE  NextSibling(m, x) = NextSibling(r, x)
    <3>1. x \in Children(r, c) /\ x \in Children(m, c)
      BY <2>1, <2>3, <2>7
    <3> QED
      BY <1>1, <1>9, <1>11, <2>7, <3>1, NextSiblingIs
  <2> QED
    BY <2>3, <2>4, <2>5, <2>6, <2>7
<1> QED
  BY <1>1, <1>11, <1>12, <1>13 DEF m

\* A move that does not throw: the node may go to the place, or away.
Goes(k, o, p) == p \in Places /\ p.before # o /\ (p = Nowhere \/ CanInsert(k, p))

LEMMA MovedIs ==
  ASSUME NEW k \in Drawings, NEW o \in Objects, NEW p, Goes(k, o, p)
  PROVE  LET m == Moved(k, o, p)
         IN /\ m \in Drawings
            /\ ParentNode(m, o) = p.parent /\ NextSibling(m, o) = p.before
            /\ \A x \in Objects : x # o =>
                 /\ ParentNode(m, x) = ParentNode(k, x)
                 /\ LET y == IF NextSibling(k, x) = o THEN NextSibling(k, o) ELSE NextSibling(k, x)
                    IN NextSibling(m, x) =
                         IF p.parent # Null /\ ParentNode(k, x) = p.parent /\ y = p.before
                         THEN o ELSE y
<1>1. CASE p = Nowhere
  <2>1. Moved(k, o, p) = Detached(k, o) /\ p.parent = Null /\ p.before = Null
    BY <1>1, MovedAway DEF Goes, Nowhere
  <2>2. Detached(k, o) \in Drawings /\ ParentNode(Detached(k, o), o) = Null
    BY DetachedPlaces
  <2>3. NextSibling(Detached(k, o), o) = Null
    BY <2>2, Chained
  <2> QED
    BY <2>1, <2>2, <2>3, DetachedPlaces
<1>2. CASE CanInsert(k, p)
  <2>1. Fits(k, o, p) /\ p.parent # Null
    BY <1>2 DEF Fits, Goes, CanInsert
  <2> QED
    BY <2>1, MovedPlaces
<1> QED
  BY <1>1, <1>2 DEF Goes

\* A node that moved can move back to where it was, and nothing remains of the move.
LEMMA MovedBack ==
  ASSUME NEW k \in Drawings, NEW o \in Objects, NEW p, Goes(k, o, p)
  PROVE  LET m == Moved(k, o, p)
         IN /\ Goes(m, o, PlaceOf(k, o))
            /\ Moved(m, o, PlaceOf(k, o)) = k
<1> DEFINE m == Moved(k, o, p)
           b == PlaceOf(k, o)
           l == Moved(m, o, b)
           y(x) == IF NextSibling(k, x) = o THEN NextSibling(k, o) ELSE NextSibling(k, x)
           z(x) == IF NextSibling(m, x) = o THEN NextSibling(m, o) ELSE NextSibling(m, x)
<1>1. /\ m \in Drawings
      /\ ParentNode(m, o) = p.parent /\ NextSibling(m, o) = p.before
      /\ \A x \in Objects : x # o =>
           /\ ParentNode(m, x) = ParentNode(k, x)
           /\ NextSibling(m, x) =
                IF p.parent # Null /\ ParentNode(k, x) = p.parent /\ y(x) = p.before
                THEN o ELSE y(x)
  BY MovedIs
<1>2. b.parent = ParentNode(k, o) /\ b.before = NextSibling(k, o) /\ b \in Places
  BY Chained DEF PlaceOf
<1> HIDE DEF m, b
<1>3. Goes(m, o, b)
  <2>1. b.before # o
    BY <1>2, Chained
  <2>2. CASE ParentNode(k, o) = Null
    <3>1. NextSibling(k, o) = Null
      BY <2>2, Chained
    <3>2. b = Nowhere
      BY <2>2, <3>1 DEF b, PlaceOf, Nowhere
    <3> QED
      BY <1>2, <2>1, <3>2 DEF Goes
  <2>3. CASE ParentNode(k, o) # Null
    <3>1. CASE NextSibling(k, o) = Null
      BY <1>2, <2>1, <2>3, <3>1 DEF Goes, CanInsert
    <3>2. CASE NextSibling(k, o) # Null
      <4>1. /\ b.before \in Objects /\ b.before # o
            /\ ParentNode(k, b.before) = b.parent /\ b.parent \in Containers
        BY <1>2, <2>3, <3>2, Chained, ParentIs
      <4>2. ParentNode(m, b.before) = b.parent
        BY <1>1, <4>1
      <4>3. b.before \in Children(m, b.parent)
        BY <1>1, <4>1, <4>2, ParentIs
      <4> QED
        BY <1>2, <2>1, <2>3, <4>3 DEF Goes, CanInsert
    <3> QED
      BY <3>1, <3>2
  <2> QED
    BY <2>2, <2>3
<1>4. /\ l \in Drawings
      /\ ParentNode(l, o) = b.parent /\ NextSibling(l, o) = b.before
      /\ \A x \in Objects : x # o =>
           /\ ParentNode(l, x) = ParentNode(m, x)
           /\ NextSibling(l, x) =
                IF b.parent # Null /\ ParentNode(m, x) = b.parent /\ z(x) = b.before
                THEN o ELSE z(x)
  BY <1>1, <1>3, MovedIs
<1> HIDE DEF l
<1>5. ASSUME NEW x \in Objects, x # o
      PROVE  z(x) = y(x)
  <2>1. y(x) # o
    BY Chained
  <2> QED
    BY <1>1, <1>5, <2>1
<1>6. ASSUME NEW x \in Objects, x # o
      PROVE  ParentNode(l, x) = ParentNode(k, x) /\ NextSibling(l, x) = NextSibling(k, x)
  <2>1. ParentNode(l, x) = ParentNode(k, x)
    BY <1>1, <1>4, <1>6
  <2>2. NextSibling(l, x) =
          IF ParentNode(k, o) # Null /\ ParentNode(k, x) = ParentNode(k, o) /\ y(x) = NextSibling(k, o)
          THEN o ELSE y(x)
    BY <1>1, <1>2, <1>4, <1>5, <1>6
  <2>3. CASE NextSibling(k, x) = o
    <3>1. ParentNode(k, o) = ParentNode(k, x) /\ ParentNode(k, x) # Null
      BY <2>3, Chained, NullIsNone
    <3> QED
      BY <2>1, <2>2, <2>3, <3>1
  <2>4. CASE NextSibling(k, x) # o
    BY <1>6, <2>1, <2>2, <2>4, Chained
  <2> QED
    BY <2>3, <2>4
<1>7. \A x \in Objects : ParentNode(l, x) = ParentNode(k, x) /\ NextSibling(l, x) = NextSibling(k, x)
  BY <1>2, <1>4, <1>6
<1>8. l = k
  BY <1>4, <1>7, SamePlaces
<1> QED
  BY <1>3, <1>8 DEF l, m, b

-----------------------------------------------------------------------------
(***************************************************************************)
(* Steps.                                                                  *)
(***************************************************************************)
GoodSteps ==
  {s \in [op : {"insert", "delete", "lower", "bottom", "raise", "top"},
          node : Objects, to : Places, back : Places] :
    /\ s.to.before # s.node /\ s.back.before # s.node
    /\ s.op = "delete" => s.to = Nowhere}

LEMMA NowhereIs ==
  /\ Nowhere \in Places /\ Nowhere.parent = Null /\ Nowhere.before = Null
  /\ \A o \in Objects : Nowhere.before # o
  /\ \A k, o : Goes(k, o, Nowhere) <=> Nowhere.before # o
BY NullIsNone DEF Nowhere, Places, Goes

LEMMA AmongIs ==
  ASSUME NEW k \in Drawings, NEW o \in Objects, ParentNode(k, o) # Null,
         NEW b \in Objects \cup {Null}, b # o,
         b # Null => ParentNode(k, b) = ParentNode(k, o)
  PROVE  Goes(k, o, [parent |-> ParentNode(k, o), before |-> b])
<1>1. ParentNode(k, o) \in Containers
  BY ParentIs
<1>2. b \in Children(k, ParentNode(k, o)) \cup {Null}
  BY <1>1, ParentIs
<1> QED
  BY <1>1, <1>2 DEF Goes, Places, CanInsert

LEMMA DoGoes ==
  ASSUME NEW k \in Drawings, NEW s \in GoodSteps, CanDo(k, s)
  PROVE  Goes(k, s.node, DoPlace(k, s))
<1> DEFINE o == s.node
           P == ParentNode(k, o)
<1>1. o \in Objects /\ s.to \in Places /\ s.to.before # o
  BY DEF GoodSteps
<1>2. CASE s.op = "insert"
  <2>1. CanInsert(k, s.to) /\ DoPlace(k, s) = s.to
    BY <1>2 DEF CanDo, DoPlace
  <2> QED
    BY <1>1, <2>1 DEF Goes
<1>3. CASE s.op = "delete"
  <2>1. DoPlace(k, s) = Nowhere
    BY <1>3 DEF DoPlace, GoodSteps
  <2> QED
    BY <1>1, <2>1, NowhereIs
<1>4. PreviousSibling(k, o) # Null => P # Null
  BY <1>1, PreviousIs, Chained
<1>5. CASE s.op = "lower"
  <2> DEFINE b == PreviousSibling(k, o)
  <2>1. b # Null /\ DoPlace(k, s) = [parent |-> P, before |-> b]
    BY <1>5 DEF CanDo, DoPlace
  <2>2. b \in Objects /\ NextSibling(k, b) = o /\ ParentNode(k, b) = P
    BY <1>1, <2>1, PreviousIs
  <2>3. b # o
    BY <1>1, <2>2, Chained
  <2>4. P # Null
    BY <1>4, <2>1
  <2> HIDE DEF o, P, b
  <2> QED
    BY <1>1, <2>1, <2>2, <2>3, <2>4, AmongIs DEF o, P
<1>6. CASE s.op = "bottom"
  <2> DEFINE b == Head(k[P])
  <2>1. PreviousSibling(k, o) # Null /\ DoPlace(k, s) = [parent |-> P, before |-> b]
    BY <1>6 DEF CanDo, DoPlace
  <2>2. b \in Objects /\ ParentNode(k, b) = P /\ \A y \in Objects : NextSibling(k, y) # b
    BY <1>1, <1>4, <2>1, HeadIs
  <2>3. b # o
    BY <1>1, <2>1, <2>2, PreviousIs
  <2>4. P # Null
    BY <1>4, <2>1
  <2> HIDE DEF o, P, b
  <2> QED
    BY <1>1, <2>1, <2>2, <2>3, <2>4, AmongIs DEF o, P
<1>7. NextSibling(k, o) # Null => P # Null
  BY <1>1, Chained
<1>8. CASE s.op = "raise"
  <2> DEFINE b == Sibling(k, o, 2)
  <2>1. NextSibling(k, o) # Null /\ DoPlace(k, s) = [parent |-> P, before |-> b]
    BY <1>8 DEF CanDo, DoPlace
  <2>2. b # o /\ b = NextSibling(k, NextSibling(k, o))
    BY <1>1, <2>1, SecondIs
  <2>3. NextSibling(k, o) \in Objects /\ ParentNode(k, NextSibling(k, o)) = P
    BY <1>1, <2>1, Chained
  <2>4. b \in Objects \cup {Null} /\ (b # Null => ParentNode(k, b) = P)
    BY <2>2, <2>3, Chained
  <2>5. P # Null
    BY <1>7, <2>1
  <2> HIDE DEF o, P, b
  <2> QED
    BY <1>1, <2>1, <2>2, <2>4, <2>5, AmongIs DEF o, P
<1>9. CASE s.op = "top"
  <2>1. NextSibling(k, o) # Null /\ DoPlace(k, s) = [parent |-> P, before |-> Null]
    BY <1>9 DEF CanDo, DoPlace
  <2> QED
    BY <1>1, <1>7, <2>1, AmongIs, NullIsNone
<1> QED
  BY <1>2, <1>3, <1>5, <1>6, <1>8, <1>9 DEF GoodSteps

LEMMA UndoGoes ==
  ASSUME NEW k \in Drawings, NEW s \in GoodSteps, CanUndoStep(k, s)
  PROVE  Goes(k, s.node, UndoPlace(k, s))
<1> DEFINE o == s.node
           P == ParentNode(k, o)
<1>1. o \in Objects /\ s.back \in Places /\ s.back.before # o
  BY DEF GoodSteps
<1>2. CASE s.op \in {"insert", "delete"}
  <2>1. UndoPlace(k, s) = s.back
    BY <1>2 DEF UndoPlace
  <2>2. s.back = Nowhere \/ CanInsert(k, s.back)
    BY <1>2, <2>1 DEF CanUndoStep
  <2> QED
    BY <1>1, <2>1, <2>2 DEF Goes
<1>3. CASE s.op \in {"bottom", "top"}
  <2> DEFINE p == UndoPlace(k, s)
  <2>1. p = [parent |-> P, before |-> s.back.before] /\ CanInsert(k, p)
    BY <1>3 DEF UndoPlace, CanUndoStep
  <2>2. p \in Places
    BY <1>1, <2>1, ParentIs DEF Places
  <2>3. p.before # o
    BY <1>1, <2>1
  <2> QED
    BY <2>1, <2>2, <2>3 DEF Goes
<1>4. CASE s.op = "lower"
  <2> DEFINE b == Sibling(k, o, 2)
  <2>1. NextSibling(k, o) # Null /\ UndoPlace(k, s) = [parent |-> P, before |-> b]
    BY <1>4 DEF CanUndoStep, UndoPlace
  <2>2. b # o /\ b = NextSibling(k, NextSibling(k, o))
    BY <1>1, <2>1, SecondIs
  <2>3. NextSibling(k, o) \in Objects /\ ParentNode(k, NextSibling(k, o)) = P
    BY <1>1, <2>1, Chained
  <2>4. b \in Objects \cup {Null} /\ (b # Null => ParentNode(k, b) = P)
    BY <2>2, <2>3, Chained
  <2>5. P # Null
    BY <1>1, <2>1, Chained
  <2> HIDE DEF o, P, b
  <2> QED
    BY <1>1, <2>1, <2>2, <2>4, <2>5, AmongIs DEF o, P
<1>5. CASE s.op = "raise"
  <2> DEFINE b == PreviousSibling(k, o)
  <2>1. b # Null /\ UndoPlace(k, s) = [parent |-> P, before |-> b]
    BY <1>5 DEF CanUndoStep, UndoPlace
  <2>2. b \in Objects /\ NextSibling(k, b) = o /\ ParentNode(k, b) = P
    BY <1>1, <2>1, PreviousIs
  <2>3. b # o /\ P # Null
    BY <1>1, <2>2, Chained, NullIsNone
  <2> HIDE DEF o, P, b
  <2> QED
    BY <1>1, <2>1, <2>2, <2>3, AmongIs DEF o, P
<1> QED
  BY <1>2, <1>3, <1>4, <1>5 DEF GoodSteps

LEMMA RememberingIs ==
  ASSUME NEW k \in Drawings, NEW s \in GoodSteps
  PROVE  LET t == Remembering(k, s)
         IN /\ t \in GoodSteps /\ t.op = s.op /\ t.node = s.node /\ t.to = s.to
            /\ s.op \in {"insert", "bottom", "top"} => t.back = PlaceOf(k, s.node)
            /\ s.op \notin {"insert", "bottom", "top"} => t = s
<1> DEFINE b == PlaceOf(k, s.node)
<1>1. b \in Places /\ b.before # s.node
  <2>1. b \in Places /\ NextSibling(k, s.node) # s.node
    BY Chained DEF GoodSteps
  <2> QED
    BY <2>1 DEF PlaceOf
<1> HIDE DEF b
<1>2. LET t == [s EXCEPT !.back = b]
      IN t \in GoodSteps /\ t.op = s.op /\ t.node = s.node /\ t.to = s.to /\ t.back = b
  BY <1>1 DEF GoodSteps
<1> QED
  BY <1>2 DEF Remembering, b

\* A step that has been done can be undone, exactly; a deletion if its node was where
\* the step remembers it.
LEMMA StepUndone ==
  ASSUME NEW k \in Drawings, NEW s \in GoodSteps, CanDo(k, s),
         s.op = "delete" => s.back = PlaceOf(k, s.node)
  PROVE  LET m == Moved(k, s.node, DoPlace(k, s))
             t == Remembering(k, s)
         IN CanUndoStep(m, t) /\ Moved(m, t.node, UndoPlace(m, t)) = k
<1> DEFINE o == s.node
           p == DoPlace(k, s)
           b == PlaceOf(k, o)
           m == Moved(k, o, p)
           t == Remembering(k, s)
<1>1. /\ o \in Objects /\ Goes(k, o, p)
      /\ s.op \in {"insert", "delete", "lower", "bottom", "raise", "top"}
  BY DoGoes DEF GoodSteps
<1>2. /\ t.op = s.op /\ t.node = o /\ t.to = s.to
      /\ s.op \in {"insert", "bottom", "top", "delete"} => t.back = b
  BY RememberingIs
<1>3. Goes(m, o, b) /\ Moved(m, o, b) = k
  BY <1>1, MovedBack
<1>4. /\ m \in Drawings
      /\ ParentNode(m, o) = p.parent /\ NextSibling(m, o) = p.before
      /\ \A x \in Objects : x # o =>
           /\ ParentNode(m, x) = ParentNode(k, x)
           /\ LET y == IF NextSibling(k, x) = o THEN NextSibling(k, o) ELSE NextSibling(k, x)
              IN NextSibling(m, x) =
                   IF p.parent # Null /\ ParentNode(k, x) = p.parent /\ y = p.before
                   THEN o ELSE y
  BY <1>1, MovedIs
<1>5. b.parent = ParentNode(k, o) /\ b.before = NextSibling(k, o)
      /\ b = [parent |-> ParentNode(k, o), before |-> NextSibling(k, o)]
  BY DEF PlaceOf
<1> SUFFICES CanUndoStep(m, t) /\ UndoPlace(m, t) = b
  BY <1>2, <1>3
<1>6. CASE s.op = "insert"
  <2>1. UndoPlace(m, t) = b /\ p = s.to
    BY <1>2, <1>6 DEF UndoPlace, DoPlace
  <2>2. b = Nowhere \/ CanInsert(m, b)
    BY <1>3 DEF Goes
  <2> QED
    BY <1>2, <1>4, <1>6, <2>1, <2>2 DEF CanUndoStep
<1>7. CASE s.op = "delete"
  <2>1. UndoPlace(m, t) = b
    BY <1>2, <1>7 DEF UndoPlace
  <2>2. b.parent # Null
    BY <1>5, <1>7 DEF CanDo
  <2>3. CanInsert(m, b)
    BY <1>3, <2>2, NowhereIs DEF Goes
  <2> QED
    BY <1>2, <1>7, <2>1, <2>3 DEF CanUndoStep
<1>8. /\ PreviousSibling(k, o) # Null => ParentNode(k, o) # Null
      /\ NextSibling(k, o) # Null => ParentNode(k, o) # Null
  BY <1>1, PreviousIs, Chained
<1>9. CASE s.op \in {"bottom", "top"}
  <2>1. p.parent = ParentNode(k, o)
    BY <1>9 DEF DoPlace
  <2>2. UndoPlace(m, t) = b
    BY <1>2, <1>4, <1>5, <1>9, <2>1 DEF UndoPlace
  <2>3. b.parent # Null
    BY <1>5, <1>8, <1>9 DEF CanDo
  <2>4. CanInsert(m, b)
    BY <1>3, <2>3, NowhereIs DEF Goes
  <2> QED
    BY <1>2, <1>9, <2>2, <2>4 DEF CanUndoStep
<1>10. CASE s.op = "lower"
  <2> DEFINE v == PreviousSibling(k, o)
  <2>1. v # Null /\ p.parent = ParentNode(k, o) /\ p.before = v
    BY <1>10 DEF CanDo, DoPlace
  <2>2. v \in Objects /\ NextSibling(k, v) = o
    BY <1>1, <2>1, PreviousIs
  <2>3. v # o /\ NextSibling(k, o) # v
    <3>1. v # o
      BY <1>1, <2>2, Chained
    <3>2. Sibling(k, v, 2) = NextSibling(k, o) /\ Sibling(k, v, 2) # v
      BY <1>1, <2>2, SecondIs, NullIsNone
    <3> QED
      BY <3>1, <3>2
  <2> HIDE DEF v
  <2>4. NextSibling(m, v) = NextSibling(k, o)
    BY <1>4, <2>1, <2>2, <2>3
  <2>5. NextSibling(m, o) = v
    BY <1>4, <2>1
  <2>6. Sibling(m, o, 2) = NextSibling(k, o)
    BY <1>1, <1>4, <2>1, <2>4, <2>5, SecondIs
  <2>7. UndoPlace(m, t) = b
    BY <1>2, <1>4, <1>5, <1>10, <2>1, <2>6 DEF UndoPlace
  <2> QED
    BY <1>2, <1>10, <2>1, <2>5, <2>7 DEF CanUndoStep
<1>11. CASE s.op = "raise"
  <2> DEFINE v == NextSibling(k, o)
  <2>1. v # Null /\ p.parent = ParentNode(k, o) /\ p.before = Sibling(k, o, 2)
    BY <1>11 DEF CanDo, DoPlace
  <2>2. /\ v \in Objects /\ v # o /\ ParentNode(k, v) = ParentNode(k, o)
        /\ Sibling(k, o, 2) = NextSibling(k, v) /\ Sibling(k, o, 2) # o
    BY <1>1, <2>1, Chained, SecondIs
  <2>3. ParentNode(k, o) # Null
    BY <1>8, <2>1
  <2> HIDE DEF v
  <2>4. NextSibling(m, v) = o
    BY <1>4, <2>1, <2>2, <2>3
  <2>5. PreviousSibling(m, o) = v
    BY <1>1, <1>4, <2>2, <2>4, PreviousIs
  <2>6. UndoPlace(m, t) = b
    BY <1>2, <1>4, <1>5, <1>11, <2>1, <2>5 DEF UndoPlace, v
  <2> QED
    BY <1>2, <1>11, <2>1, <2>5, <2>6 DEF CanUndoStep
<1> QED
  BY <1>1, <1>6, <1>7, <1>9, <1>10, <1>11

-----------------------------------------------------------------------------
(***************************************************************************)
(* Batches.  A walk is the drawings a batch goes through: h[i] after i     *)
(* steps; a way back is the drawings it is undone through.                 *)
(***************************************************************************)
Progress == [ok : BOOLEAN, kids : Drawings, steps : Seq(GoodSteps)]

IsDone(f, k, steps) ==
  /\ f \in [0 .. Len(steps) -> Progress]
  /\ f[0] = [ok |-> TRUE, kids |-> k, steps |-> <<>>]
  /\ \A i \in 1 .. Len(steps) : f[i] = DoStep(f[i - 1], steps[i])

LEMMA DoStepIs ==
  ASSUME NEW d \in Progress, NEW s \in GoodSteps
  PROVE  /\ DoStep(d, s) \in Progress
         /\ d.ok /\ CanDo(d.kids, s) =>
              /\ DoStep(d, s).ok
              /\ DoStep(d, s).kids = Moved(d.kids, s.node, DoPlace(d.kids, s))
              /\ DoStep(d, s).steps = Append(d.steps, Remembering(d.kids, s))
         /\ ~(d.ok /\ CanDo(d.kids, s)) =>
              ~DoStep(d, s).ok /\ DoStep(d, s).kids = d.kids
<1>1. d.kids \in Drawings /\ d.steps \in Seq(GoodSteps) /\ s.node \in Objects
  BY DEF Progress, GoodSteps
<1>2. CASE d.ok /\ CanDo(d.kids, s)
  <2> DEFINE m == Moved(d.kids, s.node, DoPlace(d.kids, s))
             rem == Append(d.steps, Remembering(d.kids, s))
  <2>1. Goes(d.kids, s.node, DoPlace(d.kids, s))
    BY <1>1, <1>2, DoGoes
  <2>2. m \in Drawings
    BY <1>1, <2>1, MovedIs
  <2>3. Remembering(d.kids, s) \in GoodSteps
    BY <1>1, RememberingIs
  <2>4. rem \in Seq(GoodSteps)
    BY <1>1, <2>3
  <2>5. DoStep(d, s) = [ok |-> TRUE, kids |-> m, steps |-> rem]
    BY <1>2 DEF DoStep
  <2> HIDE DEF m, rem
  <2>6. DoStep(d, s) \in Progress
    BY <2>2, <2>4, <2>5 DEF Progress
  <2> QED
    BY <1>2, <2>5, <2>6 DEF m, rem
<1>3. CASE ~(d.ok /\ CanDo(d.kids, s))
  <2>1. DoStep(d, s) = [d EXCEPT !.ok = FALSE]
    BY <1>3 DEF DoStep
  <2> QED
    BY <1>3, <2>1 DEF Progress
<1> QED
  BY <1>2, <1>3

LEMMA DoneExists ==
  ASSUME NEW k \in Drawings, NEW steps \in Seq(GoodSteps)
  PROVE  \E f : IsDone(f, k, steps) /\ DoAll(k, steps) = f[Len(steps)]
<1> DEFINE n == Len(steps)
           base == [ok |-> TRUE, kids |-> k, steps |-> <<>>]
           IsUp(f) == f = [i \in 0 .. n |-> IF i = 0 THEN base ELSE DoStep(f[i - 1], steps[i])]
           up == CHOOSE f : IsUp(f)
<1>1. DoAll(k, steps) = up[n]
  BY DEF DoAll
<1>2. n \in Nat /\ \A i \in 1 .. n : steps[i] \in GoodSteps
  OBVIOUS
<1>3. base \in Progress
  BY DEF Progress
<1> HIDE DEF base, n
<1>4. \E f : IsUp(f) /\ f \in [0 .. n -> Progress]
  <2> DEFINE step(s) == [d \in Progress |-> DoStep(d, s)]
             g == [i \in 1 .. n |-> step(steps[i])]
  <2>1. \A i \in 0 + 1 .. n : g[i] \in [Progress -> Progress]
    <3> SUFFICES ASSUME NEW i \in 1 .. n PROVE step(steps[i]) \in [Progress -> Progress]
      OBVIOUS
    <3>1. steps[i] \in GoodSteps
      BY <1>2
    <3>2. \A d \in Progress : DoStep(d, steps[i]) \in Progress
      BY <3>1, DoStepIs
    <3> QED
      BY <3>2
  <2>2. \A i \in 1 .. n, d \in Progress : g[i][d] = DoStep(d, steps[i])
    OBVIOUS
  <2> HIDE DEF g
  <2>3. PICK f : IsStepwise(f, 0, n, Progress, base, g)
    <3>1. 0 \in Int /\ n \in Int /\ 0 <= n
      BY <1>2
    <3> QED
      BY <1>3, <2>1, <3>1, StepwiseExists
  <2>4. /\ f \in [0 .. n -> Progress] /\ f[0] = base
        /\ \A i \in 0 + 1 .. n : f[i] = g[i][f[i - 1]]
    BY <2>3 DEF IsStepwise
  <2>5. ASSUME NEW i \in 0 .. n
        PROVE  f[i] = IF i = 0 THEN base ELSE DoStep(f[i - 1], steps[i])
    <3>1. CASE i = 0
      BY <2>4, <3>1
    <3>2. CASE i # 0
      <4>1. i \in 1 .. n /\ i \in 0 + 1 .. n /\ i - 1 \in 0 .. n
        BY <1>2, <3>2
      <4> QED
        BY <2>2, <2>4, <3>2, <4>1
    <3> QED
      BY <3>1, <3>2
  <2>6. f = [i \in 0 .. n |-> f[i]]
    BY <2>4
  <2>7. IsUp(f)
    BY <2>5, <2>6
  <2> QED
    BY <2>4, <2>7
<1>5. IsUp(up)
  <2> HIDE DEF IsUp
  <2> QED
    BY <1>4
<1>6. up[0] = base /\ \A i \in 1 .. n : up[i] = DoStep(up[i - 1], steps[i])
  <2> HIDE DEF up
  <2>1. 0 \in 0 .. n /\ \A i \in 1 .. n : i \in 0 .. n /\ i # 0
    BY <1>2
  <2> QED
    BY <1>5, <2>1
<1>7. DOMAIN up = 0 .. n /\ up = [i \in 0 .. n |-> up[i]]
  <2> HIDE DEF up
  <2> QED
    BY <1>5
<1> HIDE DEF IsUp, up
<1>8. 0 .. n \subseteq {i \in 0 .. n : up[i] \in Progress}
  <2> DEFINE S == {i \in 0 .. n : up[i] \in Progress}
  <2>1. 0 \in S
    BY <1>2, <1>3, <1>6
  <2>2. ASSUME NEW i \in 0 .. n - 1, i \in S
        PROVE  i + 1 \in S
    <3>1. i + 1 \in 1 .. n /\ (i + 1) - 1 = i /\ i + 1 \in 0 .. n
      BY <1>2
    <3>2. up[i + 1] = DoStep(up[i], steps[i + 1]) /\ steps[i + 1] \in GoodSteps
      BY <1>2, <1>6, <3>1
    <3> QED
      BY <2>2, <3>1, <3>2, DoStepIs
  <2> HIDE DEF S
  <2>3. 0 \in Int /\ n \in Int
    BY <1>2
  <2>4. 0 .. n \subseteq S
    BY <2>1, <2>2, <2>3, IntervalInduction
  <2> QED
    BY <2>4 DEF S
<1>9. up \in [0 .. n -> Progress]
  BY <1>7, <1>8
<1> QED
  BY <1>1, <1>6, <1>9 DEF IsDone, n, base

WalksTo(h, k, steps, m) ==
  /\ h \in [0 .. m -> Drawings] /\ h[0] = k
  /\ \A i \in 1 .. m :
       /\ CanDo(h[i - 1], steps[i])
       /\ h[i] = Moved(h[i - 1], steps[i].node, DoPlace(h[i - 1], steps[i]))

\* A walk that never gets stuck reaches the end.
LEMMA WalkExists ==
  ASSUME NEW k \in Drawings, NEW steps \in Seq(GoodSteps),
         \A m \in 0 .. Len(steps) - 1 : \A h : WalksTo(h, k, steps, m) => CanDo(h[m], steps[m + 1])
  PROVE  \E h : WalksTo(h, k, steps, Len(steps))
<1> DEFINE n == Len(steps)
           S == {m \in 0 .. n : \E h : WalksTo(h, k, steps, m)}
<1>1. n \in Nat /\ \A i \in 1 .. n : steps[i] \in GoodSteps
  OBVIOUS
<1> HIDE DEF n
<1>2. 0 \in S
  <2>1. WalksTo([i \in 0 .. 0 |-> k], k, steps, 0)
    BY DEF WalksTo
  <2> QED
    BY <1>1, <2>1
<1>3. ASSUME NEW m \in 0 .. n - 1, m \in S
      PROVE  m + 1 \in S
  <2>1. PICK h : WalksTo(h, k, steps, m)
    BY <1>3
  <2> DEFINE s == steps[m + 1]
             l == Moved(h[m], s.node, DoPlace(h[m], s))
             g == [i \in 0 .. m + 1 |-> IF i = m + 1 THEN l ELSE h[i]]
  <2>2. m \in Nat /\ m + 1 \in 1 .. n /\ m + 1 \in 0 .. n
    BY <1>1
  <2>3. s \in GoodSteps /\ h[m] \in Drawings /\ CanDo(h[m], s)
    BY <1>1, <2>1, <2>2 DEF WalksTo, n
  <2>4. l \in Drawings
    <3>1. Goes(h[m], s.node, DoPlace(h[m], s)) /\ s.node \in Objects
      BY <2>3, DoGoes DEF GoodSteps
    <3> QED
      BY <2>3, <3>1, MovedIs
  <2>5. g[m + 1] = l /\ \A i \in 0 .. m : g[i] = h[i]
    BY <2>2
  <2>6. g \in [0 .. m + 1 -> Drawings]
    BY <2>1, <2>2, <2>4 DEF WalksTo
  <2>7. l = Moved(h[m], steps[m + 1].node, DoPlace(h[m], steps[m + 1]))
    OBVIOUS
  <2> HIDE DEF g, l
  <2>8. ASSUME NEW i \in 1 .. m + 1
        PROVE  /\ CanDo(g[i - 1], steps[i])
               /\ g[i] = Moved(g[i - 1], steps[i].node, DoPlace(g[i - 1], steps[i]))
    <3>1. CASE i = m + 1
      <4>1. i - 1 = m /\ m \in 0 .. m
        BY <2>2, <3>1
      <4>2. g[i - 1] = h[m] /\ g[i] = l
        BY <2>5, <3>1, <4>1
      <4> QED
        BY <2>3, <2>7, <3>1, <4>2
    <3>2. CASE i # m + 1
      <4>1. i \in 1 .. m /\ i - 1 \in 0 .. m /\ i \in 0 .. m
        BY <2>2, <3>2
      <4>2. g[i - 1] = h[i - 1] /\ g[i] = h[i]
        BY <2>5, <4>1
      <4> QED
        BY <2>1, <4>1, <4>2 DEF WalksTo
    <3> QED
      BY <3>1, <3>2
  <2>9. g[0] = k
    <3>1. 0 \in 0 .. m
      BY <2>2
    <3> QED
      BY <2>1, <2>5, <3>1 DEF WalksTo
  <2>10. WalksTo(g, k, steps, m + 1)
    BY <2>6, <2>8, <2>9 DEF WalksTo
  <2> QED
    BY <2>2, <2>10
<1> HIDE DEF S
<1>4. 0 \in Int /\ n \in Int
  BY <1>1
<1>5. 0 .. n \subseteq S
  BY <1>2, <1>3, <1>4, IntervalInduction
<1>6. n \in S
  BY <1>1, <1>5
<1> QED
  BY <1>6 DEF S, n

LEMMA WalkUntouched ==
  ASSUME NEW k \in Drawings, NEW steps \in Seq(GoodSteps), NEW m \in 0 .. Len(steps),
         NEW h, WalksTo(h, k, steps, m),
         NEW x \in Objects, \A i \in 1 .. m : steps[i].node # x
  PROVE  \A i \in 0 .. m : ParentNode(h[i], x) = ParentNode(k, x)
<1> DEFINE S == {i \in 0 .. m : ParentNode(h[i], x) = ParentNode(k, x)}
<1>1. m \in Nat /\ m \in Int /\ 0 \in Int /\ \A i \in 1 .. m : steps[i] \in GoodSteps
  OBVIOUS
<1>2. 0 \in S
  BY <1>1 DEF WalksTo
<1>3. ASSUME NEW i \in 0 .. m - 1, i \in S
      PROVE  i + 1 \in S
  <2>1. i + 1 \in 1 .. m /\ i + 1 \in 0 .. m /\ (i + 1) - 1 = i
    BY <1>1
  <2> DEFINE s == steps[i + 1]
  <2>2. /\ s \in GoodSteps /\ h[i] \in Drawings /\ CanDo(h[i], s)
        /\ h[i + 1] = Moved(h[i], s.node, DoPlace(h[i], s))
    BY <1>1, <2>1 DEF WalksTo
  <2>3. s.node \in Objects /\ s.node # x
    BY <2>1, <2>2 DEF GoodSteps
  <2> HIDE DEF s
  <2>4. Goes(h[i], s.node, DoPlace(h[i], s))
    BY <2>2, DoGoes
  <2>5. ParentNode(h[i + 1], x) = ParentNode(h[i], x)
    BY <2>2, <2>3, <2>4, MovedIs
  <2> QED
    BY <1>3, <2>1, <2>5
<1> HIDE DEF S
<1>4. 0 .. m \subseteq S
  BY <1>1, <1>2, <1>3, IntervalInduction
<1> QED
  BY <1>4 DEF S

\* Doing a batch is walking, and remembering at each step.
LEMMA WalkIsDone ==
  ASSUME NEW k \in Drawings, NEW steps \in Seq(GoodSteps),
         NEW h, WalksTo(h, k, steps, Len(steps))
  PROVE  LET d == DoAll(k, steps)
         IN /\ d \in Progress /\ d.ok /\ d.kids = h[Len(steps)]
            /\ Len(d.steps) = Len(steps)
            /\ \A i \in 1 .. Len(steps) : d.steps[i] = Remembering(h[i - 1], steps[i])
<1> DEFINE n == Len(steps)
<1>1. n \in Nat /\ n \in Int /\ 0 \in Int /\ \A i \in 1 .. n : steps[i] \in GoodSteps
  OBVIOUS
<1>2. PICK f : IsDone(f, k, steps) /\ DoAll(k, steps) = f[n]
  BY DoneExists
<1>3. /\ f \in [0 .. n -> Progress]
      /\ f[0] = [ok |-> TRUE, kids |-> k, steps |-> << >>]
      /\ \A i \in 1 .. n : f[i] = DoStep(f[i - 1], steps[i])
  BY <1>2 DEF IsDone
<1> DEFINE Good(i) == /\ f[i].ok /\ f[i].kids = h[i] /\ Len(f[i].steps) = i
                      /\ \A j \in 1 .. i : f[i].steps[j] = Remembering(h[j - 1], steps[j])
           S == {i \in 0 .. n : Good(i)}
<1>4. h[0] = k /\ h \in [0 .. n -> Drawings]
  BY DEF WalksTo
<1>5. 0 \in S
  BY <1>1, <1>3, <1>4
<1>6. ASSUME NEW i \in 0 .. n - 1, i \in S
      PROVE  i + 1 \in S
  <2>1. i + 1 \in 1 .. n /\ i + 1 \in 0 .. n /\ (i + 1) - 1 = i /\ i \in Nat /\ i \in 0 .. n
    BY <1>1
  <2> DEFINE s == steps[i + 1]
             d == f[i]
             e == f[i + 1]
  <2>2. s \in GoodSteps /\ d \in Progress /\ e = DoStep(d, s)
    BY <1>1, <1>3, <2>1
  <2>3. CanDo(h[i], s) /\ h[i + 1] = Moved(h[i], s.node, DoPlace(h[i], s))
    BY <2>1 DEF WalksTo
  <2>4. d.ok /\ d.kids = h[i] /\ Len(d.steps) = i /\ d.steps \in Seq(GoodSteps)
    BY <1>6, <2>2 DEF Progress
  <2>5. \A j \in 1 .. i : d.steps[j] = Remembering(h[j - 1], steps[j])
    BY <1>6
  <2> HIDE DEF d, s
  <2>6. e.ok /\ e.kids = h[i + 1] /\ e.steps = Append(d.steps, Remembering(h[i], s))
    BY <2>2, <2>3, <2>4, DoStepIs
  <2>7. /\ Len(e.steps) = i + 1 /\ e.steps[i + 1] = Remembering(h[i], s)
        /\ \A j \in 1 .. i : e.steps[j] = d.steps[j]
    BY <2>1, <2>4, <2>6
  <2>8. ASSUME NEW j \in 1 .. i + 1
        PROVE  e.steps[j] = Remembering(h[j - 1], steps[j])
    <3>1. CASE j = i + 1
      BY <2>1, <2>7, <3>1 DEF s
    <3>2. CASE j # i + 1
      <4>1. j \in 1 .. i
        BY <2>1, <3>2
      <4> QED
        BY <2>5, <2>7, <4>1
    <3> QED
      BY <3>1, <3>2
  <2> QED
    BY <2>1, <2>6, <2>7, <2>8
<1> HIDE DEF S
<1>7. 0 .. n \subseteq S
  BY <1>1, <1>5, <1>6, IntervalInduction
<1>8. n \in S /\ n \in 0 .. n
  BY <1>1, <1>7
<1>9. Good(n)
  BY <1>8 DEF S
<1>10. f[n] \in Progress
  BY <1>3, <1>8
<1> QED
  BY <1>2, <1>9, <1>10

\* Whatever a batch does, it leaves the other objects where they are.
LEMMA DoneUntouched ==
  ASSUME NEW k \in Drawings, NEW steps \in Seq(GoodSteps)
  PROVE  LET d == DoAll(k, steps)
         IN /\ d \in Progress
            /\ \A j \in 1 .. Len(d.steps) : \E i \in 1 .. Len(steps) : d.steps[j].node = steps[i].node
            /\ \A x \in Objects :
                 (\A i \in 1 .. Len(steps) : steps[i].node # x)
                 => ParentNode(d.kids, x) = ParentNode(k, x)
<1> DEFINE n == Len(steps)
           Node(y) == \E i \in 1 .. n : y = steps[i].node
<1>1. n \in Nat /\ n \in Int /\ 0 \in Int /\ \A i \in 1 .. n : steps[i] \in GoodSteps
  OBVIOUS
<1>2. PICK f : IsDone(f, k, steps) /\ DoAll(k, steps) = f[n]
  BY DoneExists
<1>3. /\ f \in [0 .. n -> Progress]
      /\ f[0] = [ok |-> TRUE, kids |-> k, steps |-> << >>]
      /\ \A i \in 1 .. n : f[i] = DoStep(f[i - 1], steps[i])
  BY <1>2 DEF IsDone
<1> DEFINE Good(i) == /\ f[i].ok => \A j \in 1 .. Len(f[i].steps) : Node(f[i].steps[j].node)
                      /\ ~f[i].ok => \A j \in 1 .. Len(f[i].steps) : Node(f[i].steps[j].node)
                      /\ \A x \in Objects : ~Node(x) => ParentNode(f[i].kids, x) = ParentNode(k, x)
           S == {i \in 0 .. n : Good(i)}
<1>4. 0 \in S
  BY <1>1, <1>3
<1>5. ASSUME NEW i \in 0 .. n - 1, i \in S
      PROVE  i + 1 \in S
  <2>1. i + 1 \in 1 .. n /\ i + 1 \in 0 .. n /\ (i + 1) - 1 = i /\ i \in 0 .. n
    BY <1>1
  <2> DEFINE s == steps[i + 1]
             d == f[i]
             e == f[i + 1]
  <2>2. s \in GoodSteps /\ d \in Progress /\ e = DoStep(d, s) /\ Node(s.node) /\ s.node \in Objects
    BY <1>1, <1>3, <2>1 DEF GoodSteps
  <2>3. /\ \A j \in 1 .. Len(d.steps) : Node(d.steps[j].node)
        /\ \A x \in Objects : ~Node(x) => ParentNode(d.kids, x) = ParentNode(k, x)
        /\ d.kids \in Drawings /\ d.steps \in Seq(GoodSteps)
    BY <1>5, <2>2 DEF Progress
  <2> HIDE DEF Node, s, d
  <2>4. CASE d.ok /\ CanDo(d.kids, s)
    <3> DEFINE t == Remembering(d.kids, s)
    <3>1. e.kids = Moved(d.kids, s.node, DoPlace(d.kids, s)) /\ e.steps = Append(d.steps, t)
      BY <2>2, <2>4, DoStepIs
    <3>2. t \in GoodSteps /\ t.node = s.node
      BY <2>2, <2>3, RememberingIs
    <3>3. Goes(d.kids, s.node, DoPlace(d.kids, s))
      BY <2>2, <2>3, <2>4, DoGoes
    <3> HIDE DEF t, e
    <3>4. \A x \in Objects : x # s.node => ParentNode(e.kids, x) = ParentNode(d.kids, x)
      BY <2>2, <2>3, <3>1, <3>3, MovedIs
    <3>5. \A j \in 1 .. Len(e.steps) : Node(e.steps[j].node)
      <4>1. Len(e.steps) = Len(d.steps) + 1 /\ Len(d.steps) \in Nat
        BY <2>3, <3>1
      <4>2. \A j \in 1 .. Len(d.steps) + 1 : e.steps[j] = IF j = Len(d.steps) + 1 THEN t ELSE d.steps[j]
        BY <2>3, <3>1
      <4>3. \A j \in 1 .. Len(d.steps) + 1 : j = Len(d.steps) + 1 \/ j \in 1 .. Len(d.steps)
        BY <4>1
      <4> QED
        BY <2>2, <2>3, <3>2, <4>1, <4>2, <4>3
    <3>6. \A x \in Objects : ~Node(x) => ParentNode(e.kids, x) = ParentNode(k, x)
      BY <2>2, <2>3, <3>4
    <3> QED
      BY <2>1, <3>5, <3>6 DEF e
  <2>5. CASE ~(d.ok /\ CanDo(d.kids, s))
    <3>1. e.kids = d.kids
      BY <2>2, <2>5, DoStepIs
    <3>2. e = [d EXCEPT !.ok = FALSE]
      BY <2>2, <2>5 DEF DoStep
    <3>3. e.steps = d.steps
      BY <2>2, <3>2 DEF Progress
    <3> QED
      BY <2>1, <2>3, <3>1, <3>3
  <2> QED
    BY <2>4, <2>5
<1> HIDE DEF S
<1>6. 0 .. n \subseteq S
  BY <1>1, <1>4, <1>5, IntervalInduction
<1>7. n \in S /\ n \in 0 .. n
  BY <1>1, <1>6
<1>8. Good(n) /\ f[n] \in Progress
  BY <1>3, <1>7 DEF S
<1> QED
  BY <1>2, <1>8

\* What a batch has remembered does not change when it is done again from the same
\* drawing.
LEMMA Redone ==
  ASSUME NEW k \in Drawings, NEW steps \in Seq(GoodSteps),
         NEW h, WalksTo(h, k, steps, Len(steps))
  PROVE  DoAll(k, DoAll(k, steps).steps) = DoAll(k, steps)
<1> DEFINE n == Len(steps)
           d == DoAll(k, steps)
           rem == d.steps
           e == DoAll(k, rem)
<1>1. n \in Nat /\ \A i \in 1 .. n : steps[i] \in GoodSteps
  OBVIOUS
<1>2. /\ d \in Progress /\ d.ok /\ d.kids = h[n] /\ Len(rem) = n
      /\ \A i \in 1 .. n : rem[i] = Remembering(h[i - 1], steps[i])
  BY WalkIsDone
<1>3. rem \in Seq(GoodSteps)
  BY <1>2 DEF Progress
<1> HIDE DEF d
<1>4. ASSUME NEW i \in 1 .. n
      PROVE  /\ CanDo(h[i - 1], rem[i])
             /\ h[i] = Moved(h[i - 1], rem[i].node, DoPlace(h[i - 1], rem[i]))
             /\ Remembering(h[i - 1], rem[i]) = rem[i]
  <2> DEFINE l == h[i - 1]
             s == steps[i]
             t == rem[i]
  <2>1. /\ l \in Drawings /\ CanDo(l, s) /\ h[i] = Moved(l, s.node, DoPlace(l, s))
        /\ t = Remembering(l, s) /\ s \in GoodSteps
    <3>1. i - 1 \in 0 .. n
      BY <1>1
    <3> QED
      BY <1>1, <1>2, <3>1 DEF WalksTo
  <2>2. /\ t \in GoodSteps /\ t.op = s.op /\ t.node = s.node /\ t.to = s.to
        /\ s.op \in {"insert", "bottom", "top"} => t.back = PlaceOf(l, s.node)
        /\ s.op \notin {"insert", "bottom", "top"} => t = s
    BY <2>1, RememberingIs
  <2> HIDE DEF l, s, t
  <2>3. CASE s.op \in {"insert", "bottom", "top"}
    <3>1. CanDo(l, t)
      BY <2>1, <2>2, <2>3 DEF CanDo
    <3>2. DoPlace(l, t) = DoPlace(l, s)
      BY <2>2, <2>3 DEF DoPlace
    <3>3. Remembering(l, t) = t
      <4>1. Remembering(l, t) = [t EXCEPT !.back = t.back]
        BY <2>2, <2>3 DEF Remembering
      <4> QED
        BY <2>2, <4>1 DEF GoodSteps
    <3> QED
      BY <2>1, <2>2, <3>1, <3>2, <3>3 DEF l, t
  <2>4. CASE s.op \notin {"insert", "bottom", "top"}
    BY <2>1, <2>2, <2>4 DEF l, t
  <2> QED
    BY <2>3, <2>4
<1>5. WalksTo(h, k, rem, Len(rem))
  BY <1>2, <1>4 DEF WalksTo
<1> HIDE DEF rem
<1>6. /\ e \in Progress /\ e.ok /\ e.kids = h[Len(rem)] /\ Len(e.steps) = Len(rem)
      /\ \A i \in 1 .. Len(rem) : e.steps[i] = Remembering(h[i - 1], rem[i])
  BY <1>3, <1>5, WalkIsDone
<1> HIDE DEF e
<1>7. e.steps = rem
  <2>1. e.steps \in Seq(GoodSteps)
    BY <1>6 DEF Progress
  <2>2. \A i \in 1 .. Len(e.steps) : e.steps[i] = rem[i]
    BY <1>2, <1>4, <1>6
  <2> QED
    BY <1>3, <1>6, <2>1, <2>2, SameSequence
<1>8. e = d
  BY <1>2, <1>6, <1>7 DEF Progress, rem
<1> QED
  BY <1>8 DEF e, d, rem

Regress == [ok : BOOLEAN, kids : Drawings]

\* f[i] is what the undo has come to when the steps after the i-th are undone.
IsUndone(f, k, steps) ==
  /\ f \in [0 .. Len(steps) -> Regress]
  /\ f[Len(steps)] = [ok |-> TRUE, kids |-> k]
  /\ \A i \in 1 .. Len(steps) : f[i - 1] = UndoStep(f[i], steps[i])

LEMMA UndoStepIs ==
  ASSUME NEW d \in Regress, NEW s \in GoodSteps
  PROVE  /\ UndoStep(d, s) \in Regress
         /\ d.ok /\ CanUndoStep(d.kids, s) =>
              /\ UndoStep(d, s).ok
              /\ UndoStep(d, s).kids = Moved(d.kids, s.node, UndoPlace(d.kids, s))
         /\ ~(d.ok /\ CanUndoStep(d.kids, s)) =>
              ~UndoStep(d, s).ok /\ UndoStep(d, s).kids = d.kids
         /\ \A x \in Objects : x # s.node => ParentNode(UndoStep(d, s).kids, x) = ParentNode(d.kids, x)
<1>1. d.kids \in Drawings /\ s.node \in Objects
  BY DEF Regress, GoodSteps
<1>2. CASE d.ok /\ CanUndoStep(d.kids, s)
  <2> DEFINE m == Moved(d.kids, s.node, UndoPlace(d.kids, s))
  <2>1. Goes(d.kids, s.node, UndoPlace(d.kids, s))
    BY <1>1, <1>2, UndoGoes
  <2>2. m \in Drawings /\ \A x \in Objects : x # s.node => ParentNode(m, x) = ParentNode(d.kids, x)
    BY <1>1, <2>1, MovedIs
  <2>3. UndoStep(d, s) = [ok |-> TRUE, kids |-> m]
    BY <1>2 DEF UndoStep
  <2> HIDE DEF m
  <2>4. UndoStep(d, s) \in Regress
    BY <2>2, <2>3 DEF Regress
  <2> QED
    BY <1>2, <2>2, <2>3, <2>4 DEF m
<1>3. CASE ~(d.ok /\ CanUndoStep(d.kids, s))
  <2>1. UndoStep(d, s) = [d EXCEPT !.ok = FALSE]
    BY <1>3 DEF UndoStep
  <2> QED
    BY <1>3, <2>1 DEF Regress
<1> QED
  BY <1>2, <1>3

LEMMA Reversed ==
  ASSUME NEW S, NEW q \in Seq(S)
  PROVE  \A i \in 1 .. Len(q) : Reverse(q)[i] = q[Len(q) - i + 1]
BY DEF Reverse

LEMMA UndoneExists ==
  ASSUME NEW k \in Drawings, NEW steps \in Seq(GoodSteps)
  PROVE  \E f : IsUndone(f, k, steps) /\ UndoAll(k, steps) = f[0]
<1> DEFINE n == Len(steps)
           base == [ok |-> TRUE, kids |-> k]
           back == Reverse(steps)
           IsUp(f) == f = [i \in 0 .. n |-> IF i = 0 THEN base ELSE UndoStep(f[i - 1], back[i])]
           up == CHOOSE f : IsUp(f)
<1>1. UndoAll(k, steps) = up[n]
  BY DEF UndoAll
<1>2. n \in Nat /\ \A i \in 1 .. n : steps[i] \in GoodSteps
  OBVIOUS
<1>3. base \in Regress
  BY DEF Regress
<1>4. \A i \in 1 .. n : n - i + 1 \in 1 .. n /\ back[i] = steps[n - i + 1] /\ back[i] \in GoodSteps
  <2> SUFFICES ASSUME NEW i \in 1 .. n
               PROVE  n - i + 1 \in 1 .. n /\ back[i] = steps[n - i + 1] /\ back[i] \in GoodSteps
    OBVIOUS
  <2>1. back[i] = steps[n - i + 1]
    BY Reversed
  <2>2. n - i + 1 \in 1 .. n
    BY <1>2
  <2> HIDE DEF back, n
  <2> QED
    BY <1>2, <2>1, <2>2
<1> HIDE DEF base, n, back
<1>5. \E f : IsUp(f) /\ f \in [0 .. n -> Regress]
  <2> DEFINE step(s) == [d \in Regress |-> UndoStep(d, s)]
             g == [i \in 1 .. n |-> step(back[i])]
  <2>1. \A i \in 0 + 1 .. n : g[i] \in [Regress -> Regress]
    <3> SUFFICES ASSUME NEW i \in 1 .. n PROVE step(back[i]) \in [Regress -> Regress]
      OBVIOUS
    <3>1. back[i] \in GoodSteps
      BY <1>4
    <3>2. \A d \in Regress : UndoStep(d, back[i]) \in Regress
      BY <3>1, UndoStepIs
    <3> QED
      BY <3>2
  <2>2. \A i \in 1 .. n, d \in Regress : g[i][d] = UndoStep(d, back[i])
    OBVIOUS
  <2> HIDE DEF g
  <2>3. PICK f : IsStepwise(f, 0, n, Regress, base, g)
    <3>1. 0 \in Int /\ n \in Int /\ 0 <= n
      BY <1>2
    <3> QED
      BY <1>3, <2>1, <3>1, StepwiseExists
  <2>4. /\ f \in [0 .. n -> Regress] /\ f[0] = base
        /\ \A i \in 0 + 1 .. n : f[i] = g[i][f[i - 1]]
    BY <2>3 DEF IsStepwise
  <2>5. ASSUME NEW i \in 0 .. n
        PROVE  f[i] = IF i = 0 THEN base ELSE UndoStep(f[i - 1], back[i])
    <3>1. CASE i = 0
      BY <2>4, <3>1
    <3>2. CASE i # 0
      <4>1. i \in 1 .. n /\ i \in 0 + 1 .. n /\ i - 1 \in 0 .. n
        BY <1>2, <3>2
      <4> QED
        BY <2>2, <2>4, <3>2, <4>1
    <3> QED
      BY <3>1, <3>2
  <2>6. f = [i \in 0 .. n |-> f[i]]
    BY <2>4
  <2>7. IsUp(f)
    BY <2>5, <2>6
  <2> QED
    BY <2>4, <2>7
<1>6. IsUp(up)
  <2> HIDE DEF IsUp
  <2> QED
    BY <1>5
<1>7. up[0] = base /\ \A i \in 1 .. n : up[i] = UndoStep(up[i - 1], back[i])
  <2> HIDE DEF up
  <2>1. 0 \in 0 .. n /\ \A i \in 1 .. n : i \in 0 .. n /\ i # 0
    BY <1>2
  <2> QED
    BY <1>6, <2>1
<1> HIDE DEF IsUp, up
<1> DEFINE S == {i \in 0 .. n : up[i] \in Regress}
<1>8. 0 .. n \subseteq S
  <2>1. 0 \in S
    BY <1>2, <1>3, <1>7
  <2>2. ASSUME NEW i \in 0 .. n - 1, i \in S
        PROVE  i + 1 \in S
    <3>1. i + 1 \in 1 .. n /\ (i + 1) - 1 = i /\ i + 1 \in 0 .. n
      BY <1>2
    <3>2. up[i + 1] = UndoStep(up[i], back[i + 1]) /\ back[i + 1] \in GoodSteps
      BY <1>4, <1>7, <3>1
    <3> QED
      BY <2>2, <3>1, <3>2, UndoStepIs
  <2> HIDE DEF S
  <2>3. 0 \in Int /\ n \in Int
    BY <1>2
  <2> QED
    BY <2>1, <2>2, <2>3, IntervalInduction
<1> DEFINE f == [i \in 0 .. n |-> up[n - i]]
<1>9. f \in [0 .. n -> Regress]
  <2>1. \A i \in 0 .. n : n - i \in 0 .. n
    BY <1>2
  <2> QED
    BY <1>8, <2>1
<1>10. f[n] = base /\ f[0] = up[n]
  <2>1. n \in 0 .. n /\ 0 \in 0 .. n /\ n - n = 0 /\ n - 0 = n
    BY <1>2
  <2> QED
    BY <1>7, <2>1
<1>11. ASSUME NEW i \in 1 .. n
       PROVE  f[i - 1] = UndoStep(f[i], steps[i])
  <2> DEFINE j == n - i + 1
  <2>1. i - 1 \in 0 .. n /\ i \in 0 .. n /\ j \in 1 .. n /\ n - (i - 1) = j /\ n - i = j - 1 /\ n - j + 1 = i
    BY <1>2
  <2>2. f[i - 1] = up[j] /\ f[i] = up[j - 1]
    BY <2>1
  <2> HIDE DEF f, j
  <2> QED
    BY <1>4, <1>7, <2>1, <2>2
<1> HIDE DEF f
<1>12. IsUndone(f, k, steps)
  BY <1>9, <1>10, <1>11 DEF IsUndone, n, base
<1>13. UndoAll(k, steps) = f[0]
  BY <1>1, <1>10
<1> QED
  BY <1>12, <1>13

\* A way back: at each drawing of it the last step not yet undone can be undone and
\* leads to the drawing before.
WalksBack(h, steps) ==
  /\ h \in [0 .. Len(steps) -> Drawings]
  /\ \A i \in 1 .. Len(steps) :
       /\ CanUndoStep(h[i], steps[i])
       /\ h[i - 1] = Moved(h[i], steps[i].node, UndoPlace(h[i], steps[i]))

LEMMA WalkedBack ==
  ASSUME NEW steps \in Seq(GoodSteps), NEW h, WalksBack(h, steps)
  PROVE  UndoAll(h[Len(steps)], steps) = [ok |-> TRUE, kids |-> h[0]]
<1> DEFINE n == Len(steps)
<1>1. n \in Nat /\ n \in Int /\ 0 \in Int /\ \A i \in 1 .. n : steps[i] \in GoodSteps
  OBVIOUS
<1>2. h[n] \in Drawings
  BY <1>1 DEF WalksBack
<1>3. PICK f : IsUndone(f, h[n], steps) /\ UndoAll(h[n], steps) = f[0]
  BY <1>2, UndoneExists
<1>4. /\ f \in [0 .. n -> Regress]
      /\ f[n] = [ok |-> TRUE, kids |-> h[n]]
      /\ \A i \in 1 .. n : f[i - 1] = UndoStep(f[i], steps[i])
  BY <1>3 DEF IsUndone
<1> DEFINE S == {m \in 0 .. n : f[n - m].ok /\ f[n - m].kids = h[n - m]}
<1>5. 0 \in S
  BY <1>1, <1>4
<1>6. ASSUME NEW m \in 0 .. n - 1, m \in S
      PROVE  m + 1 \in S
  <2> DEFINE i == n - m
  <2>1. i \in 1 .. n /\ i \in 0 .. n /\ n - (m + 1) = i - 1 /\ m + 1 \in 0 .. n
    BY <1>1
  <2>2. f[i].ok /\ f[i].kids = h[i]
    BY <1>6
  <2> HIDE DEF i
  <2>3. f[i] \in Regress /\ steps[i] \in GoodSteps /\ f[i - 1] = UndoStep(f[i], steps[i])
    BY <1>1, <1>4, <2>1
  <2>4. CanUndoStep(h[i], steps[i]) /\ h[i - 1] = Moved(h[i], steps[i].node, UndoPlace(h[i], steps[i]))
    BY <2>1 DEF WalksBack
  <2>5. f[i - 1].ok /\ f[i - 1].kids = h[i - 1]
    BY <2>2, <2>3, <2>4, UndoStepIs
  <2> QED
    BY <2>1, <2>5
<1> HIDE DEF S
<1>7. 0 .. n \subseteq S
  BY <1>1, <1>5, <1>6, IntervalInduction
<1>8. n \in S /\ n - n = 0 /\ 0 \in 0 .. n
  BY <1>1, <1>7
<1>9. f[0].ok /\ f[0].kids = h[0] /\ f[0] \in Regress
  BY <1>4, <1>8 DEF S
<1> QED
  BY <1>3, <1>9 DEF Regress

LEMMA UndoneUntouched ==
  ASSUME NEW k \in Drawings, NEW steps \in Seq(GoodSteps)
  PROVE  LET u == UndoAll(k, steps)
         IN /\ u \in Regress
            /\ \A x \in Objects :
                 (\A i \in 1 .. Len(steps) : steps[i].node # x)
                 => ParentNode(u.kids, x) = ParentNode(k, x)
<1> DEFINE n == Len(steps)
           Node(y) == \E i \in 1 .. n : y = steps[i].node
<1>1. n \in Nat /\ n \in Int /\ 0 \in Int /\ \A i \in 1 .. n : steps[i] \in GoodSteps
  OBVIOUS
<1>2. PICK f : IsUndone(f, k, steps) /\ UndoAll(k, steps) = f[0]
  BY UndoneExists
<1>3. /\ f \in [0 .. n -> Regress]
      /\ f[n] = [ok |-> TRUE, kids |-> k]
      /\ \A i \in 1 .. n : f[i - 1] = UndoStep(f[i], steps[i])
  BY <1>2 DEF IsUndone
<1> DEFINE Good(l) == \A x \in Objects : ~Node(x) => ParentNode(l, x) = ParentNode(k, x)
           S == {m \in 0 .. n : Good(f[n - m].kids)}
<1>4. 0 \in S
  BY <1>1, <1>3
<1>5. ASSUME NEW m \in 0 .. n - 1, m \in S
      PROVE  m + 1 \in S
  <2> DEFINE i == n - m
  <2>1. i \in 1 .. n /\ i \in 0 .. n /\ n - (m + 1) = i - 1 /\ m + 1 \in 0 .. n
    BY <1>1
  <2>2. Good(f[i].kids)
    BY <1>5
  <2> HIDE DEF i
  <2>3. f[i] \in Regress /\ steps[i] \in GoodSteps /\ f[i - 1] = UndoStep(f[i], steps[i])
    BY <1>1, <1>3, <2>1
  <2>4. Node(steps[i].node)
    BY <2>1
  <2> DEFINE d == f[i]
             e == f[i - 1]
             s == steps[i]
  <2>5. \A x \in Objects : x # s.node => ParentNode(e.kids, x) = ParentNode(d.kids, x)
    <3>1. d \in Regress /\ s \in GoodSteps /\ e = UndoStep(d, s)
      BY <2>3
    <3> HIDE DEF d, e, s
    <3> QED
      BY <3>1, UndoStepIs
  <2> HIDE DEF Node
  <2>6. Good(f[i - 1].kids)
    BY <2>2, <2>4, <2>5
  <2> QED
    BY <2>1, <2>6
<1> HIDE DEF S
<1>6. 0 .. n \subseteq S
  BY <1>1, <1>4, <1>5, IntervalInduction
<1>7. n \in S /\ n - n = 0 /\ 0 \in 0 .. n
  BY <1>1, <1>6
<1>8. Good(f[0].kids) /\ f[0] \in Regress
  BY <1>3, <1>7 DEF S
<1> QED
  BY <1>2, <1>8

-----------------------------------------------------------------------------
(***************************************************************************)
(* An undo that can never succeed again: a deletion remembers to go before *)
(* y, which an earlier step of its batch deleted and only that step brings *)
(* back.                                                                   *)
(***************************************************************************)
IsStuck(steps, y) ==
  /\ y \in Objects
  /\ \E i, j \in 1 .. Len(steps) :
       /\ i < j /\ steps[i].node = y
       /\ steps[j].op = "delete" /\ steps[j].back.before = y
       /\ \A l \in j .. Len(steps) : steps[l].node # y

LEMMA StuckStays ==
  ASSUME NEW k \in Drawings, NEW steps \in Seq(GoodSteps), NEW y, IsStuck(steps, y),
         ParentNode(k, y) = Null
  PROVE  ~UndoAll(k, steps).ok /\ ParentNode(UndoAll(k, steps).kids, y) = Null
<1> DEFINE n == Len(steps)
<1>1. n \in Nat /\ n \in Int /\ 0 \in Int /\ \A i \in 1 .. n : steps[i] \in GoodSteps
  OBVIOUS
<1>2. PICK j \in 1 .. n : /\ steps[j].op = "delete" /\ steps[j].back.before = y
                          /\ \A l \in j .. n : steps[l].node # y
  BY DEF IsStuck
<1>3. y \in Objects /\ y # Null
  BY NullIsNone DEF IsStuck
<1>4. PICK f : IsUndone(f, k, steps) /\ UndoAll(k, steps) = f[0]
  BY UndoneExists
<1>5. /\ f \in [0 .. n -> Regress]
      /\ f[n] = [ok |-> TRUE, kids |-> k]
      /\ \A i \in 1 .. n : f[i - 1] = UndoStep(f[i], steps[i])
  BY <1>4 DEF IsUndone
<1> DEFINE Good(i) == ParentNode(f[i].kids, y) = Null /\ (i < j => ~f[i].ok)
           S == {m \in 0 .. n : Good(n - m)}
<1>6. 0 \in S
  <2>1. n - 0 = n /\ ~(n < j) /\ 0 \in 0 .. n
    BY <1>1
  <2> QED
    BY <1>5, <2>1
<1>7. ASSUME NEW m \in 0 .. n - 1, m \in S
      PROVE  m + 1 \in S
  <2> DEFINE i == n - m
  <2>1. i \in 1 .. n /\ i \in 0 .. n /\ n - (m + 1) = i - 1 /\ m + 1 \in 0 .. n
    BY <1>1
  <2>2. Good(i)
    BY <1>7
  <2> HIDE DEF i
  <2>3. f[i] \in Regress /\ steps[i] \in GoodSteps /\ f[i - 1] = UndoStep(f[i], steps[i])
    BY <1>1, <1>5, <2>1
  <2>4. CASE i < j
    <3>1. ~f[i - 1].ok /\ f[i - 1].kids = f[i].kids
      BY <2>2, <2>3, <2>4, UndoStepIs
    <3> QED
      BY <2>1, <2>2, <3>1
  <2>5. CASE i = j
    <3>1. UndoPlace(f[i].kids, steps[i]) = steps[i].back
      BY <1>2, <2>5 DEF UndoPlace
    <3>2. f[i].kids \in Drawings /\ steps[i].back.parent \in Containers \cup {Null}
      BY <2>3 DEF Regress, GoodSteps, Places
    <3>3. ~CanInsert(f[i].kids, steps[i].back)
      BY <1>2, <1>3, <2>2, <2>5, <3>2, NullIsNone, ParentIs DEF CanInsert
    <3>4. ~CanUndoStep(f[i].kids, steps[i])
      BY <1>2, <2>5, <3>1, <3>3 DEF CanUndoStep
    <3>5. ~f[i - 1].ok /\ f[i - 1].kids = f[i].kids
      BY <2>3, <3>4, UndoStepIs
    <3> QED
      BY <2>1, <2>2, <3>5
  <2>6. CASE i > j
    <3>1. i \in j .. n /\ ~(i - 1 < j)
      BY <1>1, <2>1, <2>6
    <3> DEFINE d == f[i]
               e == f[i - 1]
               s == steps[i]
    <3>2. ParentNode(e.kids, y) = ParentNode(d.kids, y)
      <4>1. d \in Regress /\ s \in GoodSteps /\ e = UndoStep(d, s) /\ s.node # y
        BY <1>2, <2>3, <3>1
      <4> HIDE DEF d, e, s
      <4> QED
        BY <1>3, <4>1, UndoStepIs
    <3> QED
      BY <2>1, <2>2, <3>1, <3>2
  <2> QED
    BY <1>1, <2>1, <2>4, <2>5, <2>6
<1> HIDE DEF S
<1>8. 0 .. n \subseteq S
  BY <1>1, <1>6, <1>7, IntervalInduction
<1>9. n \in S /\ n - n = 0 /\ 0 < j
  BY <1>1, <1>8
<1>10. Good(0)
  BY <1>9 DEF S
<1> QED
  BY <1>4, <1>9, <1>10

(***************************************************************************)
(* A transaction from k to l as the stack keeps it: redoing it changes     *)
(* nothing of it, and undoing it leads back or is stuck for good.          *)
(***************************************************************************)
Redoes(k, steps, l) == DoAll(k, steps) = [ok |-> TRUE, kids |-> l, steps |-> steps]

Undoes(l, steps, k) ==
  \/ UndoAll(l, steps) = [ok |-> TRUE, kids |-> k]
  \/ \E y : IsStuck(steps, y) /\ ParentNode(l, y) = Null

LeadsTo(k, steps, l) ==
  steps \in Seq(GoodSteps) /\ l \in Drawings /\ Redoes(k, steps, l) /\ Undoes(l, steps, k)

LEMMA WalkRecorded ==
  ASSUME NEW k \in Drawings, NEW steps \in Seq(GoodSteps),
         NEW h, WalksTo(h, k, steps, Len(steps))
  PROVE  LET d == DoAll(k, steps)
         IN /\ d.ok /\ d.steps \in Seq(GoodSteps) /\ d.kids = h[Len(steps)] /\ d.kids \in Drawings
            /\ Len(d.steps) = Len(steps)
            /\ \A i \in 1 .. Len(steps) : d.steps[i] = Remembering(h[i - 1], steps[i])
            /\ Redoes(k, d.steps, d.kids)
<1> DEFINE d == DoAll(k, steps)
<1>1. /\ d \in Progress /\ d.ok /\ d.kids = h[Len(steps)] /\ Len(d.steps) = Len(steps)
      /\ \A i \in 1 .. Len(steps) : d.steps[i] = Remembering(h[i - 1], steps[i])
  BY WalkIsDone
<1>2. DoAll(k, d.steps) = d
  BY Redone
<1> HIDE DEF d
<1>3. d = [ok |-> TRUE, kids |-> d.kids, steps |-> d.steps] /\ d.kids \in Drawings /\ d.steps \in Seq(GoodSteps)
  BY <1>1 DEF Progress
<1>4. Redoes(k, d.steps, d.kids)
  BY <1>2, <1>3 DEF Redoes
<1> QED
  BY <1>1, <1>3, <1>4 DEF d

\* Each deletion was constructed for the drawing it is done in.
LEMMA ExactlyUndone ==
  ASSUME NEW k \in Drawings, NEW steps \in Seq(GoodSteps),
         NEW h, WalksTo(h, k, steps, Len(steps)),
         \A i \in 1 .. Len(steps) :
           steps[i].op = "delete" => steps[i].back = PlaceOf(h[i - 1], steps[i].node)
  PROVE  LET d == DoAll(k, steps) IN d.ok /\ LeadsTo(k, d.steps, d.kids)
<1> DEFINE n == Len(steps)
           d == DoAll(k, steps)
           rem == d.steps
<1>1. /\ d.ok /\ rem \in Seq(GoodSteps) /\ d.kids = h[n] /\ d.kids \in Drawings /\ Len(rem) = n
      /\ \A i \in 1 .. n : rem[i] = Remembering(h[i - 1], steps[i])
      /\ Redoes(k, rem, d.kids)
  BY WalkRecorded
<1>2. n \in Nat /\ \A i \in 1 .. n : i - 1 \in 0 .. n /\ steps[i] \in GoodSteps
  OBVIOUS
<1> HIDE DEF d, n
<1>3. /\ h \in [0 .. n -> Drawings] /\ h[0] = k
      /\ \A i \in 1 .. n : CanDo(h[i - 1], steps[i])
      /\ \A i \in 1 .. n : h[i] = Moved(h[i - 1], steps[i].node, DoPlace(h[i - 1], steps[i]))
  BY DEF WalksTo, n
<1>4. ASSUME NEW i \in 1 .. n
      PROVE  /\ CanUndoStep(h[i], rem[i])
             /\ h[i - 1] = Moved(h[i], rem[i].node, UndoPlace(h[i], rem[i]))
  <2> DEFINE l == h[i - 1]
             m == h[i]
             s == steps[i]
             t == rem[i]
  <2>1. l \in Drawings /\ s \in GoodSteps /\ CanDo(l, s) /\ (s.op = "delete" => s.back = PlaceOf(l, s.node))
    BY <1>2, <1>3 DEF n
  <2>2. m = Moved(l, s.node, DoPlace(l, s)) /\ t = Remembering(l, s)
    BY <1>1, <1>3
  <2> HIDE DEF l, m, s, t
  <2>3. CanUndoStep(m, t) /\ Moved(m, t.node, UndoPlace(m, t)) = l
    BY <2>1, <2>2, StepUndone
  <2> QED
    BY <2>3 DEF l, m, t
<1> HIDE DEF rem
<1>5. WalksBack(h, rem)
  BY <1>1, <1>3, <1>4 DEF WalksBack
<1>6. UndoAll(h[Len(rem)], rem) = [ok |-> TRUE, kids |-> h[0]]
  BY <1>1, <1>5, WalkedBack
<1>7. Undoes(d.kids, rem, k)
  BY <1>1, <1>3, <1>6 DEF Undoes
<1> QED
  BY <1>1, <1>7 DEF LeadsTo, d, rem

(***************************************************************************)
(* What the commands construct.                                            *)
(***************************************************************************)
LEMMA GoodInsertion ==
  ASSUME NEW o \in Objects, NEW p \in Places, p.before # o
  PROVE  LET s == Insertion(o, p)
         IN s \in GoodSteps /\ s.op = "insert" /\ s.node = o /\ s.to = p
BY NowhereIs DEF Insertion, GoodSteps

LEMMA AtEnd ==
  ASSUME NEW c \in Containers
  PROVE  /\ End(c) \in Places /\ End(c).parent = c /\ End(c).before = Null
         /\ \A o \in Objects : End(c).before # o
         /\ \A k \in Drawings : CanInsert(k, End(c))
BY NullIsNone DEF End, Places, CanInsert

\* Insertions each of which can be done whatever the others do.
LEMMA InsertionsLead ==
  ASSUME NEW k \in Drawings, NEW steps \in Seq(GoodSteps),
         \A i \in 1 .. Len(steps) : steps[i].op = "insert",
         \A m \in 0 .. Len(steps) - 1 : \A h : WalksTo(h, k, steps, m) => CanInsert(h[m], steps[m + 1].to)
  PROVE  LET d == DoAll(k, steps) IN d.ok /\ LeadsTo(k, d.steps, d.kids)
<1>1. ASSUME NEW m \in 0 .. Len(steps) - 1, NEW h, WalksTo(h, k, steps, m)
      PROVE  CanDo(h[m], steps[m + 1])
  <2>1. m + 1 \in 1 .. Len(steps)
    OBVIOUS
  <2>2. steps[m + 1].op = "insert" /\ CanInsert(h[m], steps[m + 1].to)
    BY <1>1, <2>1
  <2> QED
    BY <2>2 DEF CanDo
<1>2. PICK h : WalksTo(h, k, steps, Len(steps))
  BY <1>1, WalkExists
<1>3. \A i \in 1 .. Len(steps) : steps[i].op # "delete"
  OBVIOUS
<1> QED
  BY <1>2, <1>3, ExactlyUndone

LEMMA ShiftLeads ==
  ASSUME NEW k \in Drawings, NEW o \in Objects, NEW op,
         \/ op \in {"lower", "bottom"} /\ PreviousSibling(k, o) # Null
         \/ op \in {"raise", "top"} /\ NextSibling(k, o) # Null
  PROVE  /\ << Shift(op, o) >> \in Seq(GoodSteps)
         /\ LET d == DoAll(k, << Shift(op, o) >>) IN d.ok /\ LeadsTo(k, d.steps, d.kids)
<1> DEFINE s == Shift(op, o)
           steps == << s >>
<1>1. s \in GoodSteps /\ CanDo(k, s) /\ s.op = op /\ s.op # "delete"
  <2>1. s = [op |-> op, node |-> o, to |-> Nowhere, back |-> Nowhere]
    BY DEF Shift
  <2>2. s \in GoodSteps
    BY <2>1, NowhereIs DEF GoodSteps
  <2> QED
    BY <2>1, <2>2 DEF CanDo
<1> HIDE DEF s
<1>2. steps \in Seq(GoodSteps) /\ Len(steps) = 1 /\ steps[1] = s
  BY <1>1
<1> HIDE DEF steps
<1>3. ASSUME NEW m \in 0 .. Len(steps) - 1, NEW h, WalksTo(h, k, steps, m)
      PROVE  CanDo(h[m], steps[m + 1])
  <2>1. m = 0 /\ m + 1 = 1
    BY <1>2
  <2>2. h[0] = k
    BY <1>3 DEF WalksTo
  <2> QED
    BY <1>1, <1>2, <2>1, <2>2
<1>4. PICK h : WalksTo(h, k, steps, Len(steps))
  BY <1>2, <1>3, WalkExists
<1>5. \A i \in 1 .. Len(steps) : steps[i].op # "delete"
  <2>1. \A i \in 1 .. 1 : i = 1
    OBVIOUS
  <2> QED
    BY <1>1, <1>2, <2>1
<1>6. LET d == DoAll(k, steps) IN d.ok /\ LeadsTo(k, d.steps, d.kids)
  BY <1>2, <1>4, <1>5, ExactlyUndone
<1> QED
  BY <1>2, <1>6 DEF steps, s

Deletions(k, os) == [i \in DOMAIN os |-> Deletion(k, os[i])]

LEMMA DeletionsAre ==
  ASSUME NEW k \in Drawings, NEW os \in Lists
  PROVE  LET steps == Deletions(k, os)
         IN /\ steps \in Seq(GoodSteps) /\ Len(steps) = Len(os)
            /\ \A i \in 1 .. Len(os) :
                 /\ steps[i].op = "delete" /\ steps[i].node = os[i] /\ steps[i].to = Nowhere
                 /\ steps[i].back = PlaceOf(k, os[i])
<1> DEFINE n == Len(os)
           steps == Deletions(k, os)
<1>1. n \in Nat /\ DOMAIN os = 1 .. n /\ \A i \in 1 .. n : os[i] \in Objects
  BY DistinctAre DEF Lists
<1> HIDE DEF n
<1>2. steps = [i \in 1 .. n |-> Deletion(k, os[i])]
  BY <1>1 DEF Deletions
<1>3. ASSUME NEW o \in Objects
      PROVE  LET s == Deletion(k, o)
             IN s \in GoodSteps /\ s.op = "delete" /\ s.node = o /\ s.to = Nowhere /\ s.back = PlaceOf(k, o)
  <2> DEFINE s == Deletion(k, o)
             b == PlaceOf(k, o)
  <2>1. b \in Places /\ b.before # o
    BY Chained DEF PlaceOf
  <2>2. s = [op |-> "delete", node |-> o, to |-> Nowhere, back |-> b]
    BY DEF Deletion
  <2> HIDE DEF s, b
  <2> QED
    BY <2>1, <2>2, NowhereIs DEF GoodSteps, s, b
<1>4. \A i \in 1 .. n : steps[i] = Deletion(k, os[i])
  BY <1>2
<1>5. \A i \in 1 .. n : steps[i] \in GoodSteps
  BY <1>1, <1>3, <1>4
<1>6. steps \in Seq(GoodSteps) /\ Len(steps) = n
  BY <1>1, <1>2, <1>5
<1> HIDE DEF steps
<1> QED
  BY <1>1, <1>3, <1>4, <1>6 DEF steps, n

\* Deleting several objects can be undone, or one of them was deleted before the one
\* below it and the undo is stuck there.
LEMMA DeletionsLead ==
  ASSUME NEW k \in Drawings, NEW os \in Lists,
         \A i \in 1 .. Len(os) : ParentNode(k, os[i]) # Null
  PROVE  LET d == DoAll(k, Deletions(k, os)) IN d.ok /\ LeadsTo(k, d.steps, d.kids)
<1> DEFINE n == Len(os)
           steps == Deletions(k, os)
           d == DoAll(k, steps)
<1>1. /\ n \in Nat /\ n \in Int /\ 0 \in Int /\ \A i \in 1 .. n : os[i] \in Objects
      /\ \A i, j \in 1 .. n : os[i] = os[j] => i = j
  BY DistinctAre DEF Lists
<1>2. /\ steps \in Seq(GoodSteps) /\ Len(steps) = n
      /\ \A i \in 1 .. n :
           /\ steps[i].op = "delete" /\ steps[i].node = os[i] /\ steps[i].to = Nowhere
           /\ steps[i].back = PlaceOf(k, os[i])
  BY DeletionsAre
<1>3. \A i \in 1 .. n : ParentNode(k, os[i]) # Null
  OBVIOUS
<1> HIDE DEF n, steps, d
<1>4. ASSUME NEW m \in 0 .. Len(steps) - 1, NEW h, WalksTo(h, k, steps, m)
      PROVE  CanDo(h[m], steps[m + 1])
  <2>1. m + 1 \in 1 .. n /\ m \in 0 .. Len(steps) /\ m \in 0 .. m
    BY <1>1, <1>2
  <2>2. os[m + 1] \in Objects /\ \A i \in 1 .. m : steps[i].node # os[m + 1]
    <3>1. \A i \in 1 .. m : i \in 1 .. n /\ i # m + 1
      BY <1>1, <2>1
    <3> QED
      BY <1>1, <1>2, <2>1, <3>1
  <2>3. ParentNode(h[m], os[m + 1]) = ParentNode(k, os[m + 1])
    BY <1>2, <1>4, <2>1, <2>2, WalkUntouched
  <2>4. steps[m + 1].back.parent = ParentNode(k, os[m + 1])
    <3>1. steps[m + 1].back = PlaceOf(k, os[m + 1])
      BY <1>2, <2>1
    <3> QED
      BY <3>1 DEF PlaceOf
  <2> QED
    BY <1>2, <1>3, <2>1, <2>3, <2>4 DEF CanDo
<1>5. PICK h : WalksTo(h, k, steps, n)
  BY <1>2, <1>4, WalkExists
<1>6. h \in [0 .. n -> Drawings] /\ h[0] = k
  BY <1>5 DEF WalksTo
\* Step i takes os[i] away.
<1>7. ASSUME NEW i \in 0 .. n - 1
      PROVE  /\ ParentNode(h[i + 1], os[i + 1]) = Null
             /\ \A x \in Objects : x # os[i + 1] =>
                  /\ ParentNode(h[i + 1], x) = ParentNode(h[i], x)
                  /\ NextSibling(h[i], x) # os[i + 1] => NextSibling(h[i + 1], x) = NextSibling(h[i], x)
  <2> DEFINE l == h[i]
             s == steps[i + 1]
             o == os[i + 1]
  <2>1. i + 1 \in 1 .. n /\ (i + 1) - 1 = i /\ i \in 0 .. n
    BY <1>1
  <2>2. h[i + 1] = Moved(l, s.node, DoPlace(l, s)) /\ CanDo(l, s) /\ l \in Drawings
    BY <1>5, <1>6, <2>1 DEF WalksTo
  <2>3. s.node = o /\ DoPlace(l, s) = Nowhere /\ o \in Objects
    BY <1>1, <1>2, <2>1 DEF DoPlace
  <2>4. h[i + 1] = Moved(l, o, Nowhere)
    BY <2>2, <2>3
  <2> HIDE DEF l, s, o
  <2>5. Goes(l, o, Nowhere)
    BY <2>3, NowhereIs
  <2>6. LET m == Moved(l, o, Nowhere)
        IN /\ ParentNode(m, o) = Null
           /\ \A x \in Objects : x # o =>
                /\ ParentNode(m, x) = ParentNode(l, x)
                /\ NextSibling(l, x) # o => NextSibling(m, x) = NextSibling(l, x)
    BY <2>2, <2>3, <2>5, MovedIs, NowhereIs
  <2> QED
    BY <2>4, <2>6 DEF l, o
<1> DEFINE Good(m) ==
             /\ \A i \in 1 .. m : ParentNode(h[m], os[i]) = Null
             /\ \A x \in Objects :
                  (\A i \in 1 .. m : os[i] # x /\ os[i] # NextSibling(k, x))
                  => /\ ParentNode(h[m], x) = ParentNode(k, x)
                     /\ NextSibling(h[m], x) = NextSibling(k, x)
           S == {m \in 0 .. n : Good(m)}
<1>8. 0 \in S
  BY <1>1, <1>6
<1>9. ASSUME NEW m \in 0 .. n - 1, m \in S
      PROVE  m + 1 \in S
  <2>1. Good(m)
    BY <1>9
  <2>2. m + 1 \in 0 .. n /\ m + 1 \in 1 .. n /\ m + 1 \in 1 .. m + 1
    BY <1>1
  <2>3. \A i \in 1 .. m : i \in 1 .. n /\ i \in 1 .. m + 1 /\ i # m + 1
    BY <1>1
  <2>4. \A i \in 1 .. m + 1 : i = m + 1 \/ i \in 1 .. m
    BY <1>1
  <2>5. /\ ParentNode(h[m + 1], os[m + 1]) = Null
        /\ \A x \in Objects : x # os[m + 1] =>
             /\ ParentNode(h[m + 1], x) = ParentNode(h[m], x)
             /\ NextSibling(h[m], x) # os[m + 1] => NextSibling(h[m + 1], x) = NextSibling(h[m], x)
    BY <1>7
  <2>6. \A i \in 1 .. m + 1 : ParentNode(h[m + 1], os[i]) = Null
    BY <1>1, <2>1, <2>2, <2>3, <2>4, <2>5
  <2>7. ASSUME NEW x \in Objects, \A i \in 1 .. m + 1 : os[i] # x /\ os[i] # NextSibling(k, x)
        PROVE  /\ ParentNode(h[m + 1], x) = ParentNode(k, x)
               /\ NextSibling(h[m + 1], x) = NextSibling(k, x)
    BY <2>1, <2>2, <2>3, <2>5, <2>7
  <2> QED
    BY <2>2, <2>6, <2>7
<1> HIDE DEF S
<1>10. 0 .. n \subseteq S
  BY <1>1, <1>8, <1>9, IntervalInduction
<1>11. \A m \in 0 .. n : Good(m)
  BY <1>10 DEF S
<1> HIDE DEF Good
<1>12. CASE \E i, j \in 1 .. n : i < j /\ NextSibling(k, os[j]) = os[i]
  <2>1. PICK i \in 1 .. n, j \in 1 .. n : i < j /\ NextSibling(k, os[j]) = os[i]
    BY <1>12
  <2>2. /\ d.ok /\ d.steps \in Seq(GoodSteps) /\ d.kids = h[n] /\ d.kids \in Drawings
        /\ Len(d.steps) = n /\ Redoes(k, d.steps, d.kids)
        /\ \A a \in 1 .. n : d.steps[a] = Remembering(h[a - 1], steps[a])
    BY <1>2, <1>5, WalkRecorded DEF d
  <2>3. \A a \in 1 .. n : d.steps[a] = steps[a]
    BY <1>2, <2>2 DEF Remembering
  <2>4. n \in 0 .. n /\ \A l \in j .. n : l \in 1 .. n /\ l # i
    BY <1>1, <2>1
  <2>5. ParentNode(d.kids, os[i]) = Null
    BY <1>11, <2>2, <2>4 DEF Good
  <2>6. d.steps[i].node = os[i] /\ d.steps[j].op = "delete"
    BY <1>2, <2>3
  <2>7. d.steps[j].back.before = os[i]
    <3>1. d.steps[j].back = PlaceOf(k, os[j])
      BY <1>2, <2>3
    <3> QED
      BY <2>1, <3>1 DEF PlaceOf
  <2>8. \A l \in j .. n : d.steps[l].node # os[i]
    BY <1>1, <1>2, <2>3, <2>4
  <2>9. IsStuck(d.steps, os[i])
    BY <1>1, <2>1, <2>2, <2>6, <2>7, <2>8 DEF IsStuck
  <2>10. Undoes(d.kids, d.steps, k)
    BY <2>5, <2>9 DEF Undoes
  <2> QED
    BY <2>2, <2>10 DEF LeadsTo, d, steps
<1>13. CASE \A i, j \in 1 .. n : i < j => NextSibling(k, os[j]) # os[i]
  <2>1. ASSUME NEW i \in 1 .. n
        PROVE  steps[i].back = PlaceOf(h[i - 1], steps[i].node)
    <3>1. i - 1 \in 0 .. n /\ \A a \in 1 .. i - 1 : a \in 1 .. n /\ a < i /\ a # i
      BY <1>1
    <3>2. \A a \in 1 .. i - 1 : os[a] # os[i] /\ os[a] # NextSibling(k, os[i])
      BY <1>1, <1>13, <3>1
    <3>3. /\ ParentNode(h[i - 1], os[i]) = ParentNode(k, os[i])
          /\ NextSibling(h[i - 1], os[i]) = NextSibling(k, os[i])
      BY <1>1, <1>11, <3>1, <3>2 DEF Good
    <3> QED
      BY <1>2, <3>3 DEF PlaceOf
  <2> QED
    BY <1>2, <1>5, <2>1, ExactlyUndone DEF steps
<1> QED
  BY <1>12, <1>13

-----------------------------------------------------------------------------
(* Moves that follow one another.                                          *)

LEMMA MovedInPlace ==
  ASSUME NEW k \in Drawings, NEW o \in Objects, ParentNode(k, o) # Null
  PROVE  Goes(k, o, PlaceOf(k, o)) /\ Moved(k, o, PlaceOf(k, o)) = k
<1> DEFINE b == PlaceOf(k, o)
           m == Moved(k, o, b)
<1>1. b.parent = ParentNode(k, o) /\ b.before = NextSibling(k, o)
      /\ b = [parent |-> ParentNode(k, o), before |-> NextSibling(k, o)]
  BY DEF PlaceOf
<1>2. /\ NextSibling(k, o) \in Objects \cup {Null} /\ NextSibling(k, o) # o
      /\ NextSibling(k, o) # Null => ParentNode(k, NextSibling(k, o)) = ParentNode(k, o)
  BY Chained
<1>3. Goes(k, o, b)
  BY <1>1, <1>2, AmongIs
<1> HIDE DEF b
<1>4. /\ m \in Drawings
      /\ ParentNode(m, o) = b.parent /\ NextSibling(m, o) = b.before
      /\ \A x \in Objects : x # o =>
           /\ ParentNode(m, x) = ParentNode(k, x)
           /\ LET y == IF NextSibling(k, x) = o THEN NextSibling(k, o) ELSE NextSibling(k, x)
              IN NextSibling(m, x) =
                   IF b.parent # Null /\ ParentNode(k, x) = b.parent /\ y = b.before
                   THEN o ELSE y
  BY <1>3, MovedIs
<1> HIDE DEF m
<1>5. ASSUME NEW x \in Objects, x # o
      PROVE  NextSibling(m, x) = NextSibling(k, x)
  <2>1. NextSibling(k, x) = o => ParentNode(k, x) = ParentNode(k, o)
    BY Chained, NullIsNone
  <2>2. ParentNode(k, x) = ParentNode(k, o) => NextSibling(k, x) # NextSibling(k, o)
    BY <1>5, Chained
  <2> QED
    BY <1>1, <1>4, <1>5, <2>1, <2>2
<1>6. \A x \in Objects : ParentNode(m, x) = ParentNode(k, x) /\ NextSibling(m, x) = NextSibling(k, x)
  BY <1>1, <1>4, <1>5
<1>7. m = k
  BY <1>4, <1>6, SamePlaces
<1> QED
  BY <1>3, <1>7 DEF m, b

LEMMA MovedTwice ==
  ASSUME NEW k \in Drawings, NEW o \in Objects, NEW p, p.parent # Null, Goes(k, o, p)
  PROVE  /\ Goes(Moved(k, o, Nowhere), o, p)
         /\ Moved(Moved(k, o, Nowhere), o, p) = Moved(k, o, p)
<1> DEFINE l == Moved(k, o, Nowhere)
           m == Moved(k, o, p)
           r == Moved(l, o, p)
<1>1. Goes(k, o, Nowhere)
  BY NowhereIs
<1>2. /\ l \in Drawings
      /\ ParentNode(l, o) = Null /\ NextSibling(l, o) = Null
      /\ \A x \in Objects : x # o =>
           /\ ParentNode(l, x) = ParentNode(k, x)
           /\ NextSibling(l, x) = IF NextSibling(k, x) = o THEN NextSibling(k, o) ELSE NextSibling(k, x)
  BY <1>1, MovedIs, NowhereIs
<1>3. /\ m \in Drawings
      /\ ParentNode(m, o) = p.parent /\ NextSibling(m, o) = p.before
      /\ \A x \in Objects : x # o =>
           /\ ParentNode(m, x) = ParentNode(k, x)
           /\ LET y == IF NextSibling(k, x) = o THEN NextSibling(k, o) ELSE NextSibling(k, x)
              IN NextSibling(m, x) =
                   IF p.parent # Null /\ ParentNode(k, x) = p.parent /\ y = p.before
                   THEN o ELSE y
  BY MovedIs
<1> HIDE DEF l, m
<1>4. p \in Places /\ p.before # o /\ p.parent \in Containers /\ CanInsert(k, p)
  BY NowhereIs DEF Goes, CanInsert, Places
<1>5. Goes(l, o, p)
  <2>1. p.before # Null => p.before \in Objects /\ ParentNode(k, p.before) = p.parent
    BY <1>4, ParentIs DEF CanInsert, Places
  <2>2. p.before # Null => ParentNode(l, p.before) = p.parent
    BY <1>2, <1>4, <2>1
  <2>3. CanInsert(l, p)
    BY <1>2, <1>4, <2>1, <2>2, ParentIs DEF CanInsert
  <2> QED
    BY <1>4, <2>3 DEF Goes
<1>6. /\ r \in Drawings
      /\ ParentNode(r, o) = p.parent /\ NextSibling(r, o) = p.before
      /\ \A x \in Objects : x # o =>
           /\ ParentNode(r, x) = ParentNode(l, x)
           /\ LET y == IF NextSibling(l, x) = o THEN NextSibling(l, o) ELSE NextSibling(l, x)
              IN NextSibling(r, x) =
                   IF p.parent # Null /\ ParentNode(l, x) = p.parent /\ y = p.before
                   THEN o ELSE y
  BY <1>2, <1>5, MovedIs
<1> HIDE DEF r
<1>7. NextSibling(k, o) # o
  BY Chained
<1>8. \A x \in Objects : ParentNode(r, x) = ParentNode(m, x) /\ NextSibling(r, x) = NextSibling(m, x)
  BY <1>2, <1>3, <1>6, <1>7, NullIsNone
<1>9. r = m
  BY <1>3, <1>6, <1>8, SamePlaces
<1> QED
  BY <1>5, <1>9 DEF r, m, l

\* Moves to different parents commute.
LEMMA MovesCommute ==
  ASSUME NEW k \in Drawings, NEW o \in Objects, NEW p, Goes(k, o, p),
         NEW x \in Objects, NEW q, Goes(k, x, q),
         x # o, p.before # x, q.before # o, p.parent # q.parent, p.parent # Null, q.parent # Null
  PROVE  /\ Goes(Moved(k, o, p), x, q)
         /\ Moved(Moved(k, o, p), x, q) = Moved(Moved(k, x, q), o, p)
<1> DEFINE l == Moved(k, o, p)
           m == Moved(k, x, q)
           lx == Moved(l, x, q)
           mo == Moved(m, o, p)
<1>1. /\ l \in Drawings
      /\ ParentNode(l, o) = p.parent /\ NextSibling(l, o) = p.before
      /\ \A z \in Objects : z # o =>
           /\ ParentNode(l, z) = ParentNode(k, z)
           /\ LET y == IF NextSibling(k, z) = o THEN NextSibling(k, o) ELSE NextSibling(k, z)
              IN NextSibling(l, z) =
                   IF p.parent # Null /\ ParentNode(k, z) = p.parent /\ y = p.before
                   THEN o ELSE y
  BY MovedIs
<1>2. /\ m \in Drawings
      /\ ParentNode(m, x) = q.parent /\ NextSibling(m, x) = q.before
      /\ \A z \in Objects : z # x =>
           /\ ParentNode(m, z) = ParentNode(k, z)
           /\ LET y == IF NextSibling(k, z) = x THEN NextSibling(k, x) ELSE NextSibling(k, z)
              IN NextSibling(m, z) =
                   IF q.parent # Null /\ ParentNode(k, z) = q.parent /\ y = q.before
                   THEN x ELSE y
  BY MovedIs
<1> HIDE DEF l, m
<1>3. p \in Places /\ p.before # o /\ p.parent \in Containers /\ CanInsert(k, p)
  BY NowhereIs DEF Goes, CanInsert, Places
<1>4. q \in Places /\ q.before # x /\ q.parent \in Containers /\ CanInsert(k, q)
  BY NowhereIs DEF Goes, CanInsert, Places
<1>5. p.before # Null => p.before \in Objects /\ ParentNode(k, p.before) = p.parent
  BY <1>3, ParentIs DEF CanInsert, Places
<1>6. q.before # Null => q.before \in Objects /\ ParentNode(k, q.before) = q.parent
  BY <1>4, ParentIs DEF CanInsert, Places
<1>7. Goes(l, x, q)
  <2>1. q.before # Null => ParentNode(l, q.before) = q.parent
    BY <1>1, <1>6
  <2>2. CanInsert(l, q)
    BY <1>1, <1>4, <1>6, <2>1, ParentIs DEF CanInsert, Places
  <2> QED
    BY <1>4, <2>2 DEF Goes
<1>8. Goes(m, o, p)
  <2>1. p.before # Null => ParentNode(m, p.before) = p.parent
    BY <1>2, <1>5
  <2>2. CanInsert(m, p)
    BY <1>2, <1>3, <1>5, <2>1, ParentIs DEF CanInsert, Places
  <2> QED
    BY <1>3, <2>2 DEF Goes
<1>9. /\ lx \in Drawings
      /\ ParentNode(lx, x) = q.parent /\ NextSibling(lx, x) = q.before
      /\ \A z \in Objects : z # x =>
           /\ ParentNode(lx, z) = ParentNode(l, z)
           /\ LET y == IF NextSibling(l, z) = x THEN NextSibling(l, x) ELSE NextSibling(l, z)
              IN NextSibling(lx, z) =
                   IF q.parent # Null /\ ParentNode(l, z) = q.parent /\ y = q.before
                   THEN x ELSE y
  BY <1>1, <1>7, MovedIs
<1>10. /\ mo \in Drawings
       /\ ParentNode(mo, o) = p.parent /\ NextSibling(mo, o) = p.before
       /\ \A z \in Objects : z # o =>
            /\ ParentNode(mo, z) = ParentNode(m, z)
            /\ LET y == IF NextSibling(m, z) = o THEN NextSibling(m, o) ELSE NextSibling(m, z)
               IN NextSibling(mo, z) =
                    IF p.parent # Null /\ ParentNode(m, z) = p.parent /\ y = p.before
                    THEN o ELSE y
  BY <1>2, <1>8, MovedIs
<1> HIDE DEF lx, mo
<1>11. \A z \in Objects : ParentNode(lx, z) = ParentNode(mo, z)
  BY <1>1, <1>2, <1>9, <1>10
<1>12. /\ \A z \in Objects : NextSibling(k, z) # z
       /\ \A z \in Objects : NextSibling(k, z) # Null =>
            NextSibling(k, z) \in Objects /\ ParentNode(k, NextSibling(k, z)) = ParentNode(k, z)
       /\ \A z, y \in Objects :
            ParentNode(k, z) # Null /\ ParentNode(k, z) = ParentNode(k, y) /\ NextSibling(k, z) = NextSibling(k, y)
            => z = y
       /\ \A z \in Objects : ParentNode(k, z) = Null => NextSibling(k, z) = Null
  BY Chained
<1>13. NextSibling(lx, x) = NextSibling(mo, x)
  BY <1>2, <1>9, <1>10, <1>12, <1>5, <1>6, NullIsNone
<1>14. NextSibling(lx, o) = NextSibling(mo, o)
  BY <1>1, <1>9, <1>10, <1>12, <1>5, <1>6, NullIsNone
<1>15. ASSUME NEW z \in Objects, z # x, z # o
       PROVE  NextSibling(lx, z) = NextSibling(mo, z)
  BY <1>1, <1>2, <1>9, <1>10, <1>12, <1>15, <1>5, <1>6, NullIsNone, SMTT(60)
<1>16. lx = mo
  BY <1>9, <1>10, <1>11, <1>13, <1>14, <1>15, SamePlaces
<1> QED
  BY <1>7, <1>16 DEF lx, mo, l, m

-----------------------------------------------------------------------------
(* Grouping and ungrouping.                                                *)

LEMMA AmongAre ==
  ASSUME NEW T, NEW q \in Seq(T), NEW S
  PROVE  Among(q, S) \in Seq(T \cap S)
<1> DEFINE n == Len(q)
           D == Seq(T \cap S)
           Add(w, x) == IF x \in S THEN Append(w, x) ELSE w
           IsUp(f) == f = [i \in 0 .. n |-> IF i = 0 THEN << >> ELSE Add(f[i - 1], q[i])]
           up == CHOOSE f : IsUp(f)
<1>1. Among(q, S) = up[n]
  <2> DEFINE IsAs(f) == f = [i \in 0 .. n |-> IF i = 0 THEN << >>
                              ELSE IF q[i] \in S THEN Append(f[i - 1], q[i]) ELSE f[i - 1]]
  <2>1. Among(q, S) = (CHOOSE f : IsAs(f))[n]
    BY DEF Among
  <2>2. \A f : IsAs(f) <=> IsUp(f)
    OBVIOUS
  <2> QED
    BY <2>1, <2>2
<1>2. n \in Nat /\ \A i \in 1 .. n : q[i] \in T
  OBVIOUS
<1>3. << >> \in D
  OBVIOUS
<1>4. \A w \in D, x \in T : Add(w, x) \in D
  OBVIOUS
<1> HIDE DEF n, Add, D
<1>5. \E f : IsUp(f) /\ f \in [0 .. n -> D]
  <2> DEFINE step(x) == [w \in D |-> Add(w, x)]
             g == [i \in 1 .. n |-> step(q[i])]
  <2>1. \A i \in 0 + 1 .. n : g[i] \in [D -> D]
    <3> SUFFICES ASSUME NEW i \in 1 .. n PROVE step(q[i]) \in [D -> D]
      OBVIOUS
    <3> QED
      BY <1>2, <1>4
  <2>2. \A i \in 1 .. n, w \in D : g[i][w] = Add(w, q[i])
    OBVIOUS
  <2> HIDE DEF g
  <2>3. PICK f : IsStepwise(f, 0, n, D, << >>, g)
    <3>1. 0 \in Int /\ n \in Int /\ 0 <= n
      BY <1>2
    <3> QED
      BY <1>3, <2>1, <3>1, StepwiseExists
  <2>4. /\ f \in [0 .. n -> D] /\ f[0] = << >>
        /\ \A i \in 0 + 1 .. n : f[i] = g[i][f[i - 1]]
    BY <2>3 DEF IsStepwise
  <2>5. ASSUME NEW i \in 0 .. n
        PROVE  f[i] = IF i = 0 THEN << >> ELSE Add(f[i - 1], q[i])
    <3>1. CASE i = 0
      BY <2>4, <3>1
    <3>2. CASE i # 0
      <4>1. i \in 1 .. n /\ i \in 0 + 1 .. n /\ i - 1 \in 0 .. n
        BY <1>2, <3>2
      <4> QED
        BY <2>2, <2>4, <3>2, <4>1
    <3> QED
      BY <3>1, <3>2
  <2>6. f = [i \in 0 .. n |-> f[i]]
    BY <2>4
  <2>7. IsUp(f)
    BY <2>5, <2>6
  <2> QED
    BY <2>4, <2>7
<1>6. IsUp(up)
  <2> HIDE DEF IsUp
  <2> QED
    BY <1>5
<1>7. up[0] = << >> /\ \A i \in 1 .. n : up[i] = Add(up[i - 1], q[i])
  <2> HIDE DEF up
  <2>1. 0 \in 0 .. n /\ \A i \in 1 .. n : i \in 0 .. n /\ i # 0
    BY <1>2
  <2> QED
    BY <1>6, <2>1
<1> HIDE DEF IsUp, up
<1> DEFINE I == {m \in 0 .. n : up[m] \in D}
<1>8. 0 \in I
  BY <1>2, <1>3, <1>7
<1>9. ASSUME NEW m \in 0 .. n - 1, m \in I
      PROVE  m + 1 \in I
  <2>1. m + 1 \in 1 .. n /\ (m + 1) - 1 = m /\ m + 1 \in 0 .. n
    BY <1>2
  <2>2. up[m + 1] = Add(up[m], q[m + 1]) /\ q[m + 1] \in T
    BY <1>2, <1>7, <2>1
  <2>3. up[m] \in D
    BY <1>9
  <2> QED
    BY <1>4, <2>1, <2>2, <2>3
<1> HIDE DEF I
<1>10. 0 .. n \subseteq I
  <2>1. 0 \in Int /\ n \in Int
    BY <1>2
  <2> QED
    BY <1>8, <1>9, <2>1, IntervalInduction
<1>11. n \in I
  BY <1>2, <1>10
<1>12. up[n] \in D
  BY <1>11 DEF I
<1> QED
  BY <1>1, <1>12 DEF n, D

Insertions(os, p) == [i \in DOMAIN os |-> Insertion(os[i], p)]

LEMMA InsertionsAre ==
  ASSUME NEW os \in Seq(Objects), NEW p \in Places, \A i \in 1 .. Len(os) : p.before # os[i]
  PROVE  LET steps == Insertions(os, p)
         IN /\ steps \in Seq(GoodSteps) /\ Len(steps) = Len(os)
            /\ \A i \in 1 .. Len(os) :
                 steps[i].op = "insert" /\ steps[i].node = os[i] /\ steps[i].to = p
<1> DEFINE n == Len(os)
           steps == Insertions(os, p)
<1>1. n \in Nat /\ DOMAIN os = 1 .. n /\ \A i \in 1 .. n : os[i] \in Objects /\ p.before # os[i]
  OBVIOUS
<1> HIDE DEF n
<1>2. steps = [i \in 1 .. n |-> Insertion(os[i], p)]
  BY <1>1 DEF Insertions
<1>3. \A i \in 1 .. n : steps[i] = Insertion(os[i], p)
  BY <1>2
<1>4. \A i \in 1 .. n :
        /\ steps[i] \in GoodSteps
        /\ steps[i].op = "insert" /\ steps[i].node = os[i] /\ steps[i].to = p
  BY <1>1, <1>3, GoodInsertion
<1>5. steps \in Seq(GoodSteps) /\ Len(steps) = n
  BY <1>1, <1>2, <1>4
<1> HIDE DEF steps
<1> QED
  BY <1>4, <1>5 DEF steps, n

Grouping(g, p, os) == << Insertion(g, End(Image)), Insertion(g, p) >> \o Insertions(os, End(g))

LEMMA GroupingIs ==
  ASSUME NEW g \in Groups, NEW os \in Seq(Objects), NEW p \in Places, p.before # g
  PROVE  LET steps == Grouping(g, p, os)
         IN /\ steps \in Seq(GoodSteps) /\ Len(steps) = Len(os) + 2
            /\ \A i \in 1 .. Len(os) + 2 :
                 /\ steps[i].op = "insert"
                 /\ steps[i].node = g \/ \E j \in 1 .. Len(os) : steps[i].node = os[j]
                 /\ steps[i].to = IF i = 1 THEN End(Image) ELSE IF i = 2 THEN p ELSE End(g)
            /\ steps[1].node = g
<1> DEFINE n == Len(os)
           first == << Insertion(g, End(Image)), Insertion(g, p) >>
           second == Insertions(os, End(g))
           steps == Grouping(g, p, os)
<1>1. g \in Objects /\ g \in Containers /\ Image \in Containers /\ n \in Nat
  BY NullIsNone DEF Objects, Containers
<1>2. LET s == Insertion(g, End(Image))
      IN s \in GoodSteps /\ s.op = "insert" /\ s.node = g /\ s.to = End(Image)
  BY <1>1, AtEnd, GoodInsertion
<1>3. LET s == Insertion(g, p)
      IN s \in GoodSteps /\ s.op = "insert" /\ s.node = g /\ s.to = p
  BY <1>1, GoodInsertion
<1>4. /\ first \in Seq(GoodSteps) /\ Len(first) = 2
      /\ first[1] = Insertion(g, End(Image)) /\ first[2] = Insertion(g, p)
  BY <1>2, <1>3
<1>5. /\ second \in Seq(GoodSteps) /\ Len(second) = n
      /\ \A i \in 1 .. n : second[i].op = "insert" /\ second[i].node = os[i] /\ second[i].to = End(g)
  <2>1. End(g) \in Places /\ \A i \in 1 .. Len(os) : End(g).before # os[i]
    BY <1>1, AtEnd
  <2> QED
    BY <2>1, InsertionsAre
<1>6. steps = first \o second
  BY DEF Grouping
<1> HIDE DEF first, second, n, steps
<1>7. /\ steps \in Seq(GoodSteps) /\ Len(steps) = 2 + n
      /\ \A i \in 1 .. 2 : steps[i] = first[i]
      /\ \A i \in 3 .. 2 + n : steps[i] = second[i - 2]
  <2>1. LET new == first \o second
        IN /\ new \in Seq(GoodSteps)
           /\ Len(new) = Len(first) + Len(second)
           /\ \A j \in 1 .. Len(first) : new[j] = first[j]
           /\ \A j \in Len(first) + 1 .. Len(first) + Len(second) : new[j] = second[j - Len(first)]
    BY <1>4, <1>5, Joined
  <2> QED
    BY <1>4, <1>5, <1>6, <2>1
<1>8. ASSUME NEW i \in 1 .. n + 2
      PROVE  /\ steps[i].op = "insert"
             /\ steps[i].node = g \/ \E j \in 1 .. n : steps[i].node = os[j]
             /\ steps[i].to = IF i = 1 THEN End(Image) ELSE IF i = 2 THEN p ELSE End(g)
  <2>1. CASE i = 1
    BY <1>2, <1>4, <1>7, <2>1
  <2>2. CASE i = 2
    BY <1>3, <1>4, <1>7, <2>2
  <2>3. CASE i > 2
    <3>1. i \in 3 .. 2 + n /\ i - 2 \in 1 .. n /\ i # 1 /\ i # 2
      BY <1>1, <2>3
    <3> QED
      BY <1>5, <1>7, <3>1
  <2> QED
    BY <1>1, <2>1, <2>2, <2>3
<1>9. steps[1].node = g
  BY <1>2, <1>4, <1>7
<1> QED
  BY <1>1, <1>7, <1>8, <1>9 DEF n, steps

LEMMA GroupingLeads ==
  ASSUME NEW k \in Drawings, NEW g \in Groups, ParentNode(k, g) = Null,
         NEW os \in Seq(Objects), NEW top \in Objects, ParentNode(k, top) = Image
  PROVE  LET p == [parent |-> Image, before |-> NextSibling(k, top)]
             d == DoAll(k, Grouping(g, p, os))
         IN p \in Places /\ p.before # g /\ d.ok /\ LeadsTo(k, d.steps, d.kids)
<1> DEFINE b == NextSibling(k, top)
           p == [parent |-> Image, before |-> b]
           steps == Grouping(g, p, os)
<1>1. g \in Objects /\ g \in Containers /\ Image \in Containers /\ Image # Null
  BY NullIsNone DEF Objects, Containers
<1>2. /\ b \in Objects \cup {Null} /\ b # g
      /\ b # Null => ParentNode(k, b) = Image
  BY <1>1, Chained, NullIsNone
<1>3. p \in Places /\ p.before = b /\ p.parent = Image
  BY <1>1, <1>2 DEF Places
<1> HIDE DEF b, p
<1>4. /\ steps \in Seq(GoodSteps) /\ Len(steps) = Len(os) + 2 /\ Len(os) \in Nat
      /\ \A i \in 1 .. Len(steps) :
           /\ steps[i].op = "insert"
           /\ steps[i].to = IF i = 1 THEN End(Image) ELSE IF i = 2 THEN p ELSE End(g)
      /\ steps[1].node = g
  BY <1>2, <1>3, GroupingIs
<1> HIDE DEF steps
<1>5. ASSUME NEW m \in 0 .. Len(steps) - 1, NEW h, WalksTo(h, k, steps, m)
      PROVE  CanInsert(h[m], steps[m + 1].to)
  <2>1. m \in Nat /\ m + 1 \in 1 .. Len(steps) /\ m \in 0 .. Len(steps) /\ m \in 0 .. m
    BY <1>4
  <2>2. h[m] \in Drawings
    BY <1>5, <2>1 DEF WalksTo
  <2>3. CASE m = 0
    BY <1>1, <1>4, <2>1, <2>2, <2>3, AtEnd
  <2>4. CASE m = 1
    <3>1. steps[m + 1].to = p
      BY <1>4, <2>1, <2>4
    <3>2. b # Null => ParentNode(h[m], b) = Image
      <4>1. SUFFICES ASSUME b # Null PROVE ParentNode(h[m], b) = Image
        OBVIOUS
      <4>2. \A i \in 1 .. m : steps[i].node # b
        BY <1>2, <1>4, <2>4
      <4>3. ParentNode(h[m], b) = ParentNode(k, b)
        BY <1>2, <1>4, <1>5, <2>1, <4>1, <4>2, WalkUntouched
      <4> QED
        BY <1>2, <4>1, <4>3
    <3> QED
      BY <1>1, <1>2, <1>3, <2>2, <3>1, <3>2, ParentIs DEF CanInsert
  <2>5. CASE m > 1
    <3>1. steps[m + 1].to = End(g)
      <4>1. m + 1 # 1 /\ m + 1 # 2
        BY <2>1, <2>5
      <4> QED
        BY <1>4, <2>1, <4>1
    <3> QED
      BY <1>1, <2>2, <3>1, AtEnd
  <2> QED
    BY <2>1, <2>3, <2>4, <2>5
<1>6. LET d == DoAll(k, steps) IN d.ok /\ LeadsTo(k, d.steps, d.kids)
  BY <1>4, <1>5, InsertionsLead
<1> QED
  BY <1>2, <1>3, <1>6 DEF b, p, steps

Ungrouping(k, g) == Insertions(k[g], PlaceOf(k, g)) \o << Deletion(k, g) >>

LEMMA UngroupingIs ==
  ASSUME NEW k \in Drawings, NEW g \in Groups, ParentNode(k, g) \notin {Null, g}
  PROVE  LET steps == Ungrouping(k, g)
             p == PlaceOf(k, g)
             n == Len(k[g])
         IN /\ n \in Nat /\ steps \in Seq(GoodSteps) /\ Len(steps) = n + 1
            /\ \A i \in 1 .. n : steps[i].op = "insert" /\ steps[i].node = k[g][i] /\ steps[i].to = p
            /\ steps[n + 1].op = "delete" /\ steps[n + 1].node = g
            /\ steps[n + 1].to = Nowhere /\ steps[n + 1].back = p
            /\ p \in Places /\ p.before # g /\ p.parent = ParentNode(k, g)
            /\ p.parent \in Containers
            /\ p.before # Null => p.before \in Objects /\ ParentNode(k, p.before) = p.parent
            /\ \A i \in 1 .. n : p.before # k[g][i]
<1> DEFINE p == PlaceOf(k, g)
           os == k[g]
           n == Len(os)
           front == Insertions(os, p)
           last == << Deletion(k, g) >>
           steps == Ungrouping(k, g)
<1>1. g \in Objects /\ g \in Containers
  BY DEF Objects, Containers
<1>2. /\ p.parent = ParentNode(k, g) /\ p.before = NextSibling(k, g)
      /\ p \in Places /\ p.before # g
      /\ p.parent \in Containers
      /\ p.before # Null => p.before \in Objects /\ ParentNode(k, p.before) = p.parent
  <2>1. p.parent = ParentNode(k, g) /\ p.before = NextSibling(k, g)
    BY DEF PlaceOf
  <2> QED
    BY <1>1, <2>1, Chained, ParentIs
<1>3. /\ os \in Lists /\ n \in Nat
      /\ \A i \in 1 .. n : os[i] \in Objects /\ ParentNode(k, os[i]) = g
  BY <1>1, ChildIs
<1>4. os \in Seq(Objects)
  BY <1>3 DEF Lists, Distinct
<1> HIDE DEF p, os, n, front, last, steps
<1>5. \A i \in 1 .. n : p.before # os[i]
  BY <1>2, <1>3, NullIsNone
<1>6. /\ front \in Seq(GoodSteps) /\ Len(front) = n
      /\ \A i \in 1 .. n : front[i].op = "insert" /\ front[i].node = os[i] /\ front[i].to = p
  BY <1>2, <1>4, <1>5, InsertionsAre DEF front, n
<1>7. LET s == Deletion(k, g)
      IN s \in GoodSteps /\ s.op = "delete" /\ s.node = g /\ s.to = Nowhere /\ s.back = p
  <2> DEFINE s == Deletion(k, g)
  <2>1. s = [op |-> "delete", node |-> g, to |-> Nowhere, back |-> p]
    BY DEF Deletion, p
  <2> HIDE DEF s
  <2> QED
    BY <1>1, <1>2, <2>1, NowhereIs DEF GoodSteps, s
<1>8. last \in Seq(GoodSteps) /\ Len(last) = 1 /\ last[1] = Deletion(k, g)
  BY <1>7 DEF last
<1>9. steps = front \o last
  BY DEF steps, Ungrouping, front, last, os, p
<1>10. /\ steps \in Seq(GoodSteps) /\ Len(steps) = n + 1
       /\ \A i \in 1 .. n : steps[i] = front[i]
       /\ steps[n + 1] = Deletion(k, g)
  <2>1. LET new == front \o last
        IN /\ new \in Seq(GoodSteps)
           /\ Len(new) = Len(front) + Len(last)
           /\ \A j \in 1 .. Len(front) : new[j] = front[j]
           /\ \A j \in Len(front) + 1 .. Len(front) + Len(last) : new[j] = last[j - Len(front)]
    BY <1>6, <1>8, Joined
  <2>2. n + 1 \in n + 1 .. n + 1 /\ (n + 1) - n = 1
    BY <1>3
  <2> QED
    BY <1>6, <1>8, <1>9, <2>1, <2>2
<1>11. \A i \in 1 .. n : steps[i].op = "insert" /\ steps[i].node = os[i] /\ steps[i].to = p
  BY <1>6, <1>10
<1> QED
  BY <1>2, <1>3, <1>5, <1>7, <1>10, <1>11 DEF p, os, n, steps

\* The group comes back last, and its members go back into it: on the way back the
\* drawings are those of the way there with the group in its place.
LEMMA UngroupingLeads ==
  ASSUME NEW k \in Drawings, NEW g \in Groups, ParentNode(k, g) \notin {Null, g}
  PROVE  LET d == DoAll(k, Ungrouping(k, g)) IN d.ok /\ LeadsTo(k, d.steps, d.kids)
<1> DEFINE p == PlaceOf(k, g)
           os == k[g]
           n == Len(os)
           steps == Ungrouping(k, g)
           d == DoAll(k, steps)
           rem == d.steps
<1>1. /\ n \in Nat /\ n \in Int /\ 0 \in Int /\ steps \in Seq(GoodSteps) /\ Len(steps) = n + 1
      /\ \A i \in 1 .. n : steps[i].op = "insert" /\ steps[i].node = os[i] /\ steps[i].to = p
      /\ steps[n + 1].op = "delete" /\ steps[n + 1].node = g
      /\ steps[n + 1].to = Nowhere /\ steps[n + 1].back = p
  BY UngroupingIs
<1>2. /\ p \in Places /\ p.before # g /\ p.parent = ParentNode(k, g)
      /\ p.parent \in Containers /\ p.parent # Null /\ p.parent # g
      /\ p.before # Null => p.before \in Objects /\ ParentNode(k, p.before) = p.parent
      /\ \A i \in 1 .. n : p.before # os[i]
  <2>1. p.parent = ParentNode(k, g)
    BY UngroupingIs
  <2> QED
    BY <2>1, UngroupingIs
<1>3. /\ g \in Objects /\ g \in Containers
      /\ \A i \in 1 .. n : os[i] \in Objects /\ ParentNode(k, os[i]) = g /\ os[i] # g
      /\ \A i, j \in 1 .. n : os[i] = os[j] => i = j
  <2>1. g \in Objects /\ g \in Containers
    BY DEF Objects, Containers
  <2>2. \A i \in 1 .. n : os[i] \in Objects /\ ParentNode(k, os[i]) = g
    BY <2>1, ChildIs
  <2>3. \A i, j \in 1 .. n : os[i] = os[j] => i = j
    BY <2>1, ChildIs
  <2> QED
    BY <2>1, <2>2, <2>3
<1> HIDE DEF p, os, n, steps, d
<1>4. \A i \in 1 .. n : i \in 1 .. n + 1 /\ i # n + 1
  BY <1>1
\* What is no member of the group is where it was while the members move.
<1>5. ASSUME NEW m \in 0 .. n, NEW h, WalksTo(h, k, steps, m),
             NEW x \in Objects, \A i \in 1 .. m : os[i] # x
      PROVE  ParentNode(h[m], x) = ParentNode(k, x)
  <2>1. m \in 0 .. Len(steps) /\ m \in 0 .. m /\ \A i \in 1 .. m : i \in 1 .. n
    BY <1>1
  <2>2. \A i \in 1 .. m : steps[i].node # x
    BY <1>1, <1>5, <2>1
  <2> QED
    BY <1>1, <1>5, <2>1, <2>2, WalkUntouched
<1>6. ASSUME NEW m \in 0 .. n, NEW h, WalksTo(h, k, steps, m)
      PROVE  /\ h[m] \in Drawings /\ ParentNode(h[m], g) = p.parent
             /\ CanInsert(h[m], p) /\ Goes(h[m], g, p)
             /\ m < n => ParentNode(h[m], os[m + 1]) = g
  <2>1. h[m] \in Drawings
    <3>1. m \in 0 .. m
      BY <1>1
    <3> QED
      BY <1>6, <3>1 DEF WalksTo
  <2>2. \A i \in 1 .. m : i \in 1 .. n
    BY <1>1
  <2>3. ParentNode(h[m], g) = p.parent
    BY <1>2, <1>3, <1>5, <1>6, <2>2
  <2>4. p.before # Null => ParentNode(h[m], p.before) = p.parent
    BY <1>2, <1>5, <1>6, <2>2
  <2>5. CanInsert(h[m], p)
    BY <1>2, <2>1, <2>4, ParentIs DEF CanInsert, Places
  <2>6. Goes(h[m], g, p)
    BY <1>2, <2>5 DEF Goes
  <2>7. m < n => ParentNode(h[m], os[m + 1]) = g
    <3>1. SUFFICES ASSUME m < n PROVE ParentNode(h[m], os[m + 1]) = g
      OBVIOUS
    <3>2. m + 1 \in 1 .. n /\ \A i \in 1 .. m : i # m + 1
      BY <1>1, <3>1
    <3>3. \A i \in 1 .. m : os[i] # os[m + 1]
      BY <1>3, <2>2, <3>2
    <3> QED
      BY <1>3, <1>5, <1>6, <3>2, <3>3
  <2> QED
    BY <2>1, <2>3, <2>5, <2>6, <2>7
<1>7. ASSUME NEW m \in 0 .. Len(steps) - 1, NEW h, WalksTo(h, k, steps, m)
      PROVE  CanDo(h[m], steps[m + 1])
  <2>1. m \in 0 .. n
    BY <1>1
  <2>2. ParentNode(h[m], g) = p.parent /\ CanInsert(h[m], p)
    BY <1>6, <1>7, <2>1
  <2>3. CASE m = n
    BY <1>1, <1>2, <2>2, <2>3 DEF CanDo
  <2>4. CASE m # n
    <3>1. m + 1 \in 1 .. n
      BY <1>1, <2>1, <2>4
    <3> QED
      BY <1>1, <2>2, <3>1 DEF CanDo
  <2> QED
    BY <2>3, <2>4
<1>8. PICK h : WalksTo(h, k, steps, n + 1)
  BY <1>1, <1>7, WalkExists
<1>9. /\ d.ok /\ rem \in Seq(GoodSteps) /\ d.kids = h[n + 1] /\ d.kids \in Drawings /\ Len(rem) = n + 1
      /\ \A i \in 1 .. n + 1 : rem[i] = Remembering(h[i - 1], steps[i])
      /\ Redoes(k, rem, d.kids)
  BY <1>1, <1>8, WalkRecorded DEF d
<1> HIDE DEF rem
<1>10. /\ h \in [0 .. n + 1 -> Drawings] /\ h[0] = k
       /\ \A i \in 1 .. n + 1 : h[i] = Moved(h[i - 1], steps[i].node, DoPlace(h[i - 1], steps[i]))
  BY <1>8 DEF WalksTo
<1>11. ASSUME NEW m \in 0 .. n
       PROVE  /\ h[m] \in Drawings /\ ParentNode(h[m], g) = p.parent
              /\ CanInsert(h[m], p) /\ Goes(h[m], g, p)
              /\ m < n => ParentNode(h[m], os[m + 1]) = g
  <2> DEFINE l == [i \in 0 .. m |-> h[i]]
  <2>1. WalksTo(l, k, steps, m)
    <3>1. m \in 0 .. n + 1 /\ 0 \in 0 .. m /\ \A i \in 0 .. m : i \in 0 .. n + 1
      BY <1>1
    <3>2. \A i \in 1 .. m : i - 1 \in 0 .. m /\ i \in 0 .. m /\ i \in 1 .. n + 1
      BY <1>1
    <3>3. /\ l \in [0 .. m -> Drawings] /\ l[0] = k
          /\ \A i \in 1 .. m : l[i - 1] = h[i - 1] /\ l[i] = h[i]
      BY <1>10, <3>1, <3>2
    <3> HIDE DEF l
    <3> QED
      BY <1>8, <3>2, <3>3 DEF WalksTo
  <2>2. l[m] = h[m]
    BY <1>1
  <2> HIDE DEF l
  <2> QED
    BY <1>6, <2>1, <2>2
\* The way back.
<1> DEFINE w == [i \in 0 .. n + 1 |-> IF i = n + 1 THEN h[n + 1] ELSE Moved(h[i], g, p)]
<1>12. w[n + 1] = h[n + 1] /\ \A i \in 0 .. n : w[i] = Moved(h[i], g, p)
  BY <1>1
<1>13. w \in [0 .. n + 1 -> Drawings]
  <2>1. \A i \in 0 .. n + 1 : i = n + 1 \/ i \in 0 .. n
    BY <1>1
  <2>2. \A i \in 0 .. n : Moved(h[i], g, p) \in Drawings
    BY <1>3, <1>11, MovedIs
  <2>3. h[n + 1] \in Drawings
    BY <1>9
  <2> QED
    BY <2>1, <2>2, <2>3
<1> HIDE DEF w
<1>14. w[0] = k
  <2>1. 0 \in 0 .. n /\ ParentNode(k, g) # Null
    BY <1>1, <1>2
  <2> QED
    BY <1>3, <1>10, <1>12, <2>1, MovedInPlace DEF p
<1>15. CanUndoStep(w[n + 1], rem[n + 1]) /\ w[n] = Moved(w[n + 1], rem[n + 1].node, UndoPlace(w[n + 1], rem[n + 1]))
  <2>1. n \in 0 .. n /\ n + 1 \in 1 .. n + 1 /\ (n + 1) - 1 = n
    BY <1>1
  <2> DEFINE l == h[n]
             s == steps[n + 1]
  <2>2. rem[n + 1] = s /\ h[n + 1] = Moved(l, g, Nowhere)
    <3>1. DoPlace(l, s) = Nowhere
      BY <1>1 DEF DoPlace
    <3>2. Remembering(l, s) = s
      BY <1>1 DEF Remembering
    <3>3. rem[n + 1] = Remembering(l, s) /\ h[n + 1] = Moved(l, s.node, DoPlace(l, s))
      BY <1>9, <1>10, <2>1
    <3> QED
      BY <1>1, <3>1, <3>2, <3>3
  <2>3. l \in Drawings /\ Goes(l, g, p) /\ w[n] = Moved(l, g, p)
    BY <1>11, <1>12, <2>1
  <2> HIDE DEF l
  <2>4. Goes(h[n + 1], g, p) /\ Moved(h[n + 1], g, p) = w[n]
    BY <1>2, <1>3, <2>2, <2>3, MovedTwice
  <2>5. CanInsert(h[n + 1], p)
    BY <1>2, <2>4, NowhereIs DEF Goes
  <2>6. s.op = "delete" /\ s.node = g /\ s.back = p
    BY <1>1
  <2> HIDE DEF s
  <2>7. UndoPlace(w[n + 1], s) = p
    BY <2>6 DEF UndoPlace
  <2>8. CanUndoStep(w[n + 1], s)
    BY <1>12, <2>5, <2>6, <2>7 DEF CanUndoStep
  <2> QED
    BY <1>12, <2>2, <2>4, <2>6, <2>7, <2>8
<1>16. ASSUME NEW i \in 1 .. n
       PROVE  CanUndoStep(w[i], rem[i]) /\ w[i - 1] = Moved(w[i], rem[i].node, UndoPlace(w[i], rem[i]))
  <2>1. i - 1 \in 0 .. n /\ i \in 0 .. n /\ i \in 1 .. n + 1 /\ i - 1 < n /\ (i - 1) + 1 = i
    BY <1>1
  <2> DEFINE l == h[i - 1]
             m == h[i]
             x == os[i]
             s == steps[i]
             t == rem[i]
             b == PlaceOf(l, x)
  <2>2. /\ l \in Drawings /\ ParentNode(l, g) = p.parent /\ CanInsert(l, p) /\ Goes(l, g, p)
        /\ ParentNode(l, x) = g
    BY <1>11, <2>1
  <2>3. m \in Drawings /\ Goes(m, g, p) /\ w[i] = Moved(m, g, p) /\ w[i - 1] = Moved(l, g, p)
    BY <1>11, <1>12, <2>1
  <2>4. s.op = "insert" /\ s.node = x /\ s.to = p /\ s \in GoodSteps
    BY <1>1, <2>1
  <2>5. m = Moved(l, s.node, DoPlace(l, s)) /\ t = Remembering(l, s)
    BY <1>9, <1>10, <2>1
  <2>6. x \in Objects /\ x # g /\ p.before # x
    BY <1>2, <1>3
  <2>7. DoPlace(l, s) = p
    BY <2>4 DEF DoPlace
  <2>8. t.op = "insert" /\ t.node = x /\ t.to = p /\ t.back = b
    <3> HIDE DEF l, s, t, x, b
    <3>1. /\ t.op = s.op /\ t.node = s.node /\ t.to = s.to
          /\ s.op \in {"insert", "bottom", "top"} => t.back = PlaceOf(l, s.node)
      BY <2>2, <2>4, <2>5, RememberingIs
    <3> QED
      BY <2>4, <3>1 DEF b
  <2> HIDE DEF l, m, x, s, t, b
  <2>9. m = Moved(l, x, p) /\ Goes(l, x, p)
    BY <1>2, <2>2, <2>4, <2>5, <2>6, <2>7 DEF Goes
  <2>10. Goes(m, x, b) /\ Moved(m, x, b) = l
    BY <2>2, <2>6, <2>9, MovedBack DEF b
  <2>11. b.parent = g /\ b.before # g /\ g # Null
    <3>1. b.parent = ParentNode(l, x) /\ b.before = NextSibling(l, x)
      BY DEF b, PlaceOf
    <3>2. NextSibling(l, x) # g
      BY <1>2, <1>3, <2>2, <2>6, Chained, NullIsNone
    <3> QED
      BY <1>3, <2>2, <3>1, <3>2, NullIsNone
  <2>12. Goes(Moved(m, g, p), x, b) /\ Moved(Moved(m, g, p), x, b) = Moved(Moved(m, x, b), g, p)
    BY <1>2, <1>3, <2>3, <2>6, <2>10, <2>11, MovesCommute
  <2>13. Goes(w[i], x, b) /\ Moved(w[i], x, b) = w[i - 1]
    BY <2>3, <2>10, <2>12
  <2>14. UndoPlace(w[i], t) = b
    BY <2>8 DEF UndoPlace
  <2>15. CanUndoStep(w[i], t)
    <3>1. CanInsert(w[i], b)
      BY <2>11, <2>13, NowhereIs DEF Goes
    <3> QED
      BY <2>8, <2>14, <3>1 DEF CanUndoStep
  <2> QED
    BY <2>8, <2>13, <2>14, <2>15 DEF t
<1>17. WalksBack(w, rem)
  <2>1. \A i \in 1 .. n + 1 : i = n + 1 \/ i \in 1 .. n
    BY <1>1
  <2>2. (n + 1) - 1 = n
    BY <1>1
  <2>3. ASSUME NEW i \in 1 .. n + 1
        PROVE  CanUndoStep(w[i], rem[i]) /\ w[i - 1] = Moved(w[i], rem[i].node, UndoPlace(w[i], rem[i]))
    <3>1. CASE i = n + 1
      BY <1>15, <2>2, <3>1
    <3>2. CASE i \in 1 .. n
      BY <1>16, <3>2
    <3> QED
      BY <2>1, <3>1, <3>2
  <2> QED
    BY <1>9, <1>13, <2>3 DEF WalksBack
<1>18. UndoAll(w[Len(rem)], rem) = [ok |-> TRUE, kids |-> w[0]]
  BY <1>9, <1>17, WalkedBack
<1>19. Undoes(d.kids, rem, k)
  BY <1>9, <1>12, <1>14, <1>18 DEF Undoes
<1> QED
  BY <1>9, <1>19 DEF LeadsTo, d, rem, steps

-----------------------------------------------------------------------------
IsTx(tx) == tx = [id |-> tx.id, steps |-> tx.steps] /\ tx.id \in Nat

\* The stack, and a drawing for each position of it.
Books ==
  /\ stack \in Seq(Range(stack)) /\ \A i \in 1..Len(stack) : IsTx(stack[i])
  /\ stackPosition \in 0..Len(stack)
  /\ snapshots \in Seq(Range(snapshots)) /\ Len(snapshots) = Len(stack) + 1
  /\ lastSaveTx \in Nat \cup {NoTx}

DistinctIds == \A i, j \in 1..Len(stack) : stack[i].id = stack[j].id => i = j

\* The drawing in the file is the one at the position of the last save, as long
\* as that position can be reached.
SavedThere ==
  /\ lastSaveTx = NoTx => saved = snapshots[1]
  /\ \A i \in 1..Len(stack) : stack[i].id = lastSaveTx => saved = snapshots[i + 1]

\* The inductive invariant.
Inv == Books /\ DistinctIds /\ (threw = "none" => SavedThere)

-----------------------------------------------------------------------------
(* Transactions and their identities.                                      *)

LEMMA OwnRange == ASSUME NEW S, NEW s \in Seq(S) PROVE s \in Seq(Range(s))
<1>1. Len(s) \in Nat /\ s \in [1..Len(s) -> S]
  OBVIOUS
<1>2. s \in [1..Len(s) -> Range(s)]
  BY <1>1 DEF Range
<1>. QED BY <1>1, <1>2

LEMMA CardinalityTo ==
  ASSUME NEW n \in Nat
  PROVE  IsFiniteSet(1..n) /\ Cardinality(1..n) = n
<1>1. IsFiniteSet(1..n) /\ Cardinality(1..n) = IF 1 > n THEN 0 ELSE n - 1 + 1
  BY FS_Interval
<1>. QED BY <1>1

\* One of Len(stack) + 2 identities is in use neither in the stack nor by the
\* last save.
LEMMA FreshIdIsFresh ==
  ASSUME Books
  PROVE  LET id == FreshId({lastSaveTx} \ {NoTx})
         IN /\ id \in Nat /\ id # lastSaveTx
            /\ \A i \in 1..Len(stack) : id # stack[i].id
<1> DEFINE n == Len(stack)
           held == {lastSaveTx} \ {NoTx}
           ids == [i \in 1..n |-> stack[i].id]
           inStack == Range(ids)
<1>1. n \in Nat
  BY DEF Books
<1>2. IsFiniteSet(1..n) /\ Cardinality(1..n) = n
  BY <1>1, CardinalityTo
<1>3. IsFiniteSet(1..(n + 2)) /\ Cardinality(1..(n + 2)) = n + 2
  BY <1>1, CardinalityTo
<1>4. ids \in Surjection(1..n, inStack)
  BY DEF Surjection, Range
<1>5. IsFiniteSet(inStack) /\ Cardinality(inStack) <= n
  BY <1>2, <1>4, FS_Surjection
<1>6. IsFiniteSet(inStack \cup {lastSaveTx}) /\ Cardinality(inStack \cup {lastSaveTx}) <= n + 1
  <2>1. Cardinality(inStack) \in Nat
    BY <1>5, FS_CardinalityType
  <2>2. /\ IsFiniteSet(inStack \cup {lastSaveTx})
        /\ Cardinality(inStack \cup {lastSaveTx}) =
             IF lastSaveTx \in inStack THEN Cardinality(inStack) ELSE Cardinality(inStack) + 1
    BY <1>5, FS_AddElement
  <2>. QED BY <1>1, <1>5, <2>1, <2>2
<1>7. PICK id \in 1..(n + 2) : id \notin inStack \cup {lastSaveTx}
  <2>1. SUFFICES ASSUME 1..(n + 2) \subseteq inStack \cup {lastSaveTx} PROVE FALSE
    OBVIOUS
  <2>2. n + 2 <= Cardinality(inStack \cup {lastSaveTx})
    <3>1. 1..(n + 2) \in SUBSET (inStack \cup {lastSaveTx})
      BY <2>1
    <3>2. Cardinality(1..(n + 2)) <= Cardinality(inStack \cup {lastSaveTx})
      BY <1>6, <3>1, FS_Subset
    <3>. QED BY <1>3, <3>2
  <2>3. Cardinality(inStack \cup {lastSaveTx}) \in Nat
    BY <1>6, FS_CardinalityType
  <2>. QED BY <1>1, <1>6, <2>2, <2>3
<1>8. id \notin held /\ \A i \in 1..n : id # stack[i].id
  BY <1>7 DEF Range
<1>9. /\ FreshId(held) \in 1..(n + 2) /\ FreshId(held) \notin held
      /\ \A i \in 1..n : FreshId(held) # stack[i].id
  BY <1>8 DEF FreshId
<1>10. FreshId(held) \in Nat
  BY <1>1, <1>9
<1>11. FreshId(held) # lastSaveTx
  BY <1>9, <1>10, NullAssumption
<1>. QED BY <1>9, <1>10, <1>11

LEMMA PushKeeps ==
  ASSUME Inv, NEW tx, IsTx(tx), tx.id # lastSaveTx,
         \A i \in 1..Len(stack) : tx.id # stack[i].id,
         Push(tx), snapshots' = Append(SubSeq(snapshots, 1, stackPosition + 1), kids'),
         UNCHANGED <<threw, saveVars>>
  PROVE  Inv'
<1> DEFINE p == stackPosition
<1>1. p \in Nat /\ p <= Len(stack) /\ Len(stack) \in Nat
  BY DEF Inv, Books
<1>2. /\ stack' \in Seq(Range(stack) \cup {tx}) /\ Len(stack') = p + 1
      /\ \A i \in 1..p : stack'[i] = stack[i]
      /\ stack'[p + 1] = tx
  BY <1>1 DEF Inv, Books, Push
<1>3. /\ snapshots' \in Seq(Range(snapshots) \cup {kids'}) /\ Len(snapshots') = p + 2
      /\ \A i \in 1..p + 1 : snapshots'[i] = snapshots[i]
  BY <1>1 DEF Inv, Books
<1>4. stackPosition' = p + 1
  BY DEF Push
<1>5. stack' \in Seq(Range(stack')) /\ snapshots' \in Seq(Range(snapshots'))
  BY <1>2, <1>3, OwnRange
<1>6. \A i \in 1..Len(stack') : IsTx(stack'[i])
  BY <1>1, <1>2 DEF Inv, Books
<1>7. Books'
  BY <1>1, <1>2, <1>3, <1>4, <1>5, <1>6 DEF Books, Inv, saveVars, IsTx
<1>8. DistinctIds'
  <2>1. SUFFICES ASSUME NEW i \in 1..p + 1, NEW j \in 1..p + 1,
                        stack'[i].id = stack'[j].id
                 PROVE  i = j
    BY <1>2 DEF DistinctIds
  <2>2. CASE i \in 1..p /\ j \in 1..p
    <3>1. i \in 1..Len(stack) /\ j \in 1..Len(stack)
      BY <1>1, <2>2
    <3>2. stack[i].id = stack[j].id
      BY <1>2, <2>1, <2>2
    <3>. QED BY <3>1, <3>2 DEF Inv, DistinctIds
  <2>3. CASE i = p + 1 /\ j # p + 1
    <3>1. j \in 1..p /\ j \in 1..Len(stack)
      BY <1>1, <2>3
    <3>. QED BY <1>2, <2>1, <2>3, <3>1
  <2>4. CASE j = p + 1 /\ i # p + 1
    <3>1. i \in 1..p /\ i \in 1..Len(stack)
      BY <1>1, <2>4
    <3>. QED BY <1>2, <2>1, <2>4, <3>1
  <2>. QED BY <1>1, <2>2, <2>3, <2>4
<1>9. (threw = "none" => SavedThere)'
  <2>1. SUFFICES ASSUME SavedThere PROVE SavedThere'
    BY DEF Inv
  <2>2. lastSaveTx' = lastSaveTx /\ saved' = saved
    BY DEF saveVars
  <2>3. snapshots'[1] = snapshots[1]
    BY <1>1, <1>3
  <2>4. ASSUME NEW i \in 1..p + 1, stack'[i].id = lastSaveTx
        PROVE  saved = snapshots'[i + 1]
    <3>1. i # p + 1
      BY <1>2, <2>4
    <3>2. i \in 1..p /\ i \in 1..Len(stack) /\ i + 1 \in 1..p + 1
      BY <1>1, <3>1
    <3>3. stack[i].id = lastSaveTx /\ snapshots'[i + 1] = snapshots[i + 1]
      BY <1>2, <1>3, <2>4, <3>2
    <3>. QED BY <2>1, <3>2, <3>3 DEF SavedThere
  <2>. QED BY <1>2, <2>1, <2>2, <2>3, <2>4 DEF SavedThere
<1>. QED BY <1>7, <1>8, <1>9 DEF Inv

-----------------------------------------------------------------------------
(* Steps.                                                                  *)

LEMMA InitInv == Init => Inv
<1>. SUFFICES ASSUME Init PROVE Inv
  OBVIOUS
<1>1. stack = <<>> /\ stackPosition = 0 /\ lastSaveTx = NoTx
  BY DEF Init, TransactionManagerInit
<1>2. snapshots = <<kids>> /\ saved = kids
  BY DEF Init
<1>. QED BY <1>1, <1>2 DEF Inv, Books, DistinctIds, SavedThere, Range

LEMMA ThrewIsNotNone == ASSUME NEW what, what # "none", Threw(what) PROVE threw' # "none"
BY DEF Threw

LEMMA DoTransactionKeeps ==
  ASSUME Inv, NEW steps, DoTransaction(steps)
  PROVE  Inv'
<1> DEFINE id == FreshId({lastSaveTx} \ {NoTx})
           done == DoAll(kids, steps)
           tx == [id |-> id, steps |-> done.steps]
<1>1. id \in Nat /\ id # lastSaveTx /\ \A i \in 1..Len(stack) : id # stack[i].id
  BY FreshIdIsFresh DEF Inv
<1>2. UNCHANGED saveVars
  BY DEF DoTransaction
<1>3. CASE /\ Push(tx) /\ UNCHANGED threw
           /\ snapshots' = Append(SubSeq(snapshots, 1, stackPosition + 1), kids')
  <2>1. IsTx(tx) /\ tx.id = id
    BY <1>1 DEF IsTx
  <2>. QED BY <1>1, <1>2, <1>3, <2>1, PushKeeps
<1>4. CASE Threw("do") /\ UNCHANGED <<stackVars, snapshots>>
  <2>1. threw' # "none"
    BY <1>4, ThrewIsNotNone
  <2>. QED BY <1>2, <1>4, <2>1 DEF Inv, Books, DistinctIds, stackVars, saveVars
<1>. QED BY <1>3, <1>4 DEF DoTransaction

LEMMA UndoKeeps == ASSUME Inv, Undo PROVE Inv'
<1>1. UNCHANGED <<stack, snapshots, saveVars>>
  BY DEF Undo, StepBack, StackUnchanged
<1>2. stackPosition' \in 0..Len(stack)
  BY DEF Undo, CanUndo, StepBack, StackUnchanged, Inv, Books
<1>3. UNCHANGED threw \/ threw' # "none"
  BY ThrewIsNotNone DEF Undo
<1>. QED BY <1>1, <1>2, <1>3 DEF Inv, Books, DistinctIds, SavedThere, saveVars

\* A redone transaction remembers anew and stays the one it is.
LEMMA RedoKeeps == ASSUME Inv, Redo PROVE Inv'
<1> DEFINE k == stackPosition + 1
<1>1. UNCHANGED <<snapshots, saveVars>> /\ k \in 1..Len(stack) /\ Len(stack) \in Nat
  BY DEF Redo, CanRedo, Inv, Books
<1>2. UNCHANGED threw \/ threw' # "none"
  BY ThrewIsNotNone DEF Redo
<1>3. CASE StackUnchanged
  BY <1>1, <1>2, <1>3 DEF StackUnchanged, Inv, Books, DistinctIds, SavedThere, saveVars
<1>4. ASSUME NEW steps, StepForward(steps) PROVE Inv'
  <2>1. stack' = [stack EXCEPT ![k].steps = steps] /\ stackPosition' = k
    BY <1>4 DEF StepForward
  <2>2. stack \in [1..Len(stack) -> Range(stack)]
    BY DEF Inv, Books
  <2>3. stack[k] = [id |-> stack[k].id, steps |-> stack[k].steps]
    BY <1>1 DEF Inv, Books, IsTx
  <2> DEFINE again == [stack[k] EXCEPT !.steps = steps]
  <2>4. again = [id |-> stack[k].id, steps |-> steps]
    BY <2>3
  <2>5. stack' = [stack EXCEPT ![k] = again]
    BY <2>1
  <2>6. /\ stack' \in [1..Len(stack) -> Range(stack) \cup {again}]
        /\ \A i \in 1..Len(stack) : stack'[i] = IF i = k THEN again ELSE stack[i]
    BY <1>1, <2>2, <2>5
  <2>7. Len(stack') = Len(stack)
    BY <1>1, <2>6
  <2>8. \A i \in 1..Len(stack) : IsTx(stack'[i]) /\ stack'[i].id = stack[i].id
    <3>1. IsTx(again) /\ again.id = stack[k].id
      BY <1>1, <2>4 DEF IsTx, Inv, Books
    <3>. QED BY <2>6, <3>1 DEF Inv, Books
  <2>9. stack' \in Seq(Range(stack'))
    BY <1>1, <2>6, <2>7 DEF Range
  <2>10. Books'
    BY <1>1, <2>1, <2>7, <2>8, <2>9 DEF Inv, Books, saveVars
  <2>. QED BY <1>1, <1>2, <2>7, <2>8, <2>10 DEF Inv, DistinctIds, SavedThere, saveVars
<1>. QED BY <1>3, <1>4 DEF Redo

LEMMA SaveKeeps == ASSUME Inv, HistoryFaithful, Save PROVE Inv'
<1>1. /\ UNCHANGED <<stack, stackPosition, snapshots, threw>>
      /\ saved' = kids /\ lastSaveTx' = PeekUndoStack
  BY DEF Save, stackVars
<1>2. CASE stackPosition = 0
  <2>1. lastSaveTx' = NoTx
    BY <1>1, <1>2 DEF PeekUndoStack, CanUndo
  <2>2. threw = "none" => kids = snapshots[1]
    BY <1>2 DEF HistoryFaithful
  <2>3. Books' /\ DistinctIds'
    BY <1>1, <2>1 DEF Inv, Books, DistinctIds
  <2>4. \A i \in 1..Len(stack) : stack[i].id # NoTx
    BY NullAssumption DEF Inv, Books, IsTx
  <2>. QED BY <1>1, <2>1, <2>2, <2>3, <2>4 DEF Inv, SavedThere
<1>3. CASE stackPosition \in 1..Len(stack)
  <2>1. lastSaveTx' = stack[stackPosition].id /\ lastSaveTx' \in Nat
    <3>1. Len(stack) \in Nat /\ IsTx(stack[stackPosition])
      BY <1>3 DEF Inv, Books
    <3>2. CanUndo
      BY <1>3, <3>1 DEF CanUndo
    <3>. QED BY <1>1, <3>1, <3>2 DEF PeekUndoStack, IsTx
  <2>2. threw = "none" => kids = snapshots[stackPosition + 1]
    BY DEF HistoryFaithful
  <2>3. Books' /\ DistinctIds'
    BY <1>1, <2>1 DEF Inv, Books, DistinctIds
  <2>4. lastSaveTx' # NoTx
    BY <2>1, NullAssumption
  <2>5. \A i \in 1..Len(stack) : stack[i].id = lastSaveTx' => i = stackPosition
    BY <1>3, <2>1 DEF Inv, DistinctIds
  <2>. QED BY <1>1, <2>2, <2>3, <2>4, <2>5 DEF Inv, SavedThere
<1>. QED BY <1>2, <1>3 DEF Inv, Books

\* A command is a transaction, or throws before it has one.
LEMMA CommandIsTransaction == Command => (\E steps : DoTransaction(steps)) \/ UNCHANGED vars
<1>. SUFFICES ASSUME Command PROVE (\E steps : DoTransaction(steps)) \/ UNCHANGED vars
  OBVIOUS
<1>1. ASSUME NEW o, Draw(o) PROVE \E steps : DoTransaction(steps)
  BY <1>1 DEF Draw
<1>2. ASSUME NEW os, Paste(os) PROVE \E steps : DoTransaction(steps)
  BY <1>2 DEF Paste
<1>3. ASSUME NEW o, Lower(o) \/ Raise(o) PROVE \E steps : DoTransaction(steps)
  BY <1>3 DEF Lower, Raise
<1>4. ASSUME NEW os, DeleteSelection(os) PROVE \E steps : DoTransaction(steps)
  BY <1>4 DEF DeleteSelection
<1>5. ASSUME NEW g, NEW S, GroupSelection(g, S)
      PROVE  (\E steps : DoTransaction(steps)) \/ UNCHANGED vars
  BY <1>5 DEF GroupSelection
<1>6. ASSUME NEW g, UngroupSelection(g) PROVE \E steps : DoTransaction(steps)
  BY <1>6 DEF UngroupSelection
<1>. QED BY <1>1, <1>2, <1>3, <1>4, <1>5, <1>6 DEF Command

LEMMA StepInv == Inv /\ HistoryFaithful /\ [Next]_vars => Inv'
<1>. SUFFICES ASSUME Inv, HistoryFaithful, [Next]_vars PROVE Inv'
  OBVIOUS
<1>1. ASSUME NEW steps, DoTransaction(steps) PROVE Inv'
  BY <1>1, DoTransactionKeeps
<1>2. CASE Undo
  BY <1>2, UndoKeeps
<1>3. CASE Redo
  BY <1>3, RedoKeeps
<1>4. CASE Save
  BY <1>4, SaveKeeps
<1>5. CASE UNCHANGED vars
  BY <1>5 DEF vars, stackVars, saveVars, Inv, Books, DistinctIds, SavedThere
<1>. QED BY <1>1, <1>2, <1>3, <1>4, <1>5, CommandIsTransaction DEF Next

-----------------------------------------------------------------------------
(***************************************************************************)
(* The stack keeps transactions that lead from each drawing to the next.   *)
(***************************************************************************)
IsNode(steps, x) == \E i \in 1..Len(steps) : steps[i].node = x

Txs == [id : Nat, steps : Seq(GoodSteps)]

Typed ==
  /\ stack \in Seq(Txs) /\ Len(stack) <= MaxStack
  /\ stackPosition \in 0..Len(stack)
  /\ snapshots \in Seq(Drawings) /\ Len(snapshots) = Len(stack) + 1
  /\ kids \in Drawings /\ saved \in Drawings
  /\ lastSaveTx \in Nat \cup {NoTx}
  /\ fileExists \in BOOLEAN
  /\ threw \in {"none", "undo"}

Recorded ==
  \A i \in 1..Len(stack) : LeadsTo(snapshots[i], stack[i].steps, snapshots[i + 1])

\* What a transaction took away no later one knows of.
Gone ==
  \A i \in 1..Len(stack), y \in Objects :
    IsNode(stack[i].steps, y) /\ ParentNode(snapshots[i + 1], y) = Null =>
      \A m \in i + 1..Len(stack) :
        ~IsNode(stack[m].steps, y) /\ ParentNode(snapshots[m + 1], y) = Null

\* An undo has thrown at the i-th transaction, and will again.
StuckAt(i, y) ==
  /\ IsStuck(stack[i].steps, y) /\ ParentNode(kids, y) = Null
  /\ \A m \in i + 1..Len(stack) : ~IsNode(stack[m].steps, y)

Halted == \E i \in 1..stackPosition, y \in Objects : StuckAt(i, y)

\* The inductive invariant.
SafeInv ==
  /\ Typed
  /\ threw = "none" => Recorded /\ Gone /\ HistoryFaithful
  /\ threw # "none" => Halted

\* What every command constructs, whatever was undone and whatever threw: a
\* transaction that can be done, of objects that are somewhere in the drawing or that
\* the stack does not know of.
Sound(steps) ==
  /\ steps \in Seq(GoodSteps)
  /\ \A x \in Objects :
       IsNode(steps, x) =>
         ParentNode(kids, x) # Null \/ \A i \in 1..Len(stack) : ~IsNode(stack[i].steps, x)
  /\ LET done == DoAll(kids, steps) IN done.ok /\ LeadsTo(kids, done.steps, done.kids)

LEMMA OrdersAre ==
  ASSUME NEW S, NEW os \in Orders(S)
  PROVE  os \in Distinct(S)
<1>1. PICK T \in SUBSET S : IsFiniteSet(T) /\ os \in SetToSeqs(T)
  BY DEF Orders
<1> DEFINE n == Cardinality(T)
<1>2. n \in Nat
  BY <1>1, FS_CardinalityType
<1>3. os \in [1..n -> T] /\ \A i, j \in 1..n : i # j => os[i] # os[j]
  BY <1>1 DEF SetToSeqs
<1> HIDE DEF n
<1>4. os \in [1..n -> S]
  BY <1>3
<1>5. os \in Seq(S) /\ DOMAIN os = 1..n
  BY <1>2, <1>4
<1>6. IsInjective(os)
  BY <1>3, <1>5 DEF IsInjective
<1>. QED BY <1>5, <1>6 DEF Distinct

LEMMA FreshIsUnknown ==
  ASSUME Typed, NEW o, Fresh(o)
  PROVE  ParentNode(kids, o) = Null /\ \A i \in 1..Len(stack) : ~IsNode(stack[i].steps, o)
<1>1. ASSUME NEW i \in 1..Len(stack), IsNode(stack[i].steps, o)
      PROVE  FALSE
  <2>1. stack[i] \in Txs /\ o \notin {s.node : s \in ToSet(stack[i].steps)}
    BY DEF Fresh, Typed
  <2> DEFINE steps == stack[i].steps
  <2>2. steps \in Seq(GoodSteps)
    BY <2>1 DEF Txs
  <2>3. PICK j \in 1..Len(steps) : steps[j].node = o
    BY <1>1 DEF IsNode
  <2>4. steps[j] \in ToSet(steps)
    BY <2>2 DEF ToSet
  <2>. QED BY <2>1, <2>3, <2>4
<1>. QED BY <1>1 DEF Fresh

\* Insertions of unknown objects at the end of the image.
LEMMA NewObjects ==
  ASSUME Typed, NEW os \in Seq(Objects),
         \A i \in 1..Len(os) : Fresh(os[i])
  PROVE  Sound(Insertions(os, End(Image)))
<1> DEFINE steps == Insertions(os, End(Image))
<1>1. /\ steps \in Seq(GoodSteps) /\ Len(steps) = Len(os)
      /\ \A i \in 1..Len(os) :
           steps[i].op = "insert" /\ steps[i].node = os[i] /\ steps[i].to = End(Image)
  BY InsertionsAre, AtEnd, NullIsNone
<1> HIDE DEF steps
<1>2. kids \in Drawings
  BY DEF Typed
<1>3. ASSUME NEW m \in 0..Len(steps) - 1, NEW h, WalksTo(h, kids, steps, m)
      PROVE  CanInsert(h[m], steps[m + 1].to)
  <2>1. m + 1 \in 1..Len(steps) /\ m \in 0..m
    BY <1>1
  <2>2. h[m] \in Drawings
    BY <1>3, <2>1 DEF WalksTo
  <2>. QED BY <1>1, <2>1, <2>2, AtEnd, NullIsNone
<1>4. LET done == DoAll(kids, steps) IN done.ok /\ LeadsTo(kids, done.steps, done.kids)
  BY <1>1, <1>2, <1>3, InsertionsLead
<1>5. \A x \in Objects : IsNode(steps, x) => \A i \in 1..Len(stack) : ~IsNode(stack[i].steps, x)
  <2>1. SUFFICES ASSUME NEW x, IsNode(steps, x)
                 PROVE  \A i \in 1..Len(stack) : ~IsNode(stack[i].steps, x)
    OBVIOUS
  <2>2. PICK j \in 1..Len(os) : os[j] = x
    BY <1>1, <2>1 DEF IsNode
  <2>3. Fresh(x)
    BY <2>2
  <2>. QED BY <2>3, FreshIsUnknown
<1>. QED BY <1>1, <1>4, <1>5 DEF Sound, steps

LEMMA Shifts ==
  ASSUME Typed, NEW o \in Objects, CanSelect(o), NEW op,
         \/ op \in {"lower", "bottom"} /\ PreviousSibling(kids, o) # Null
         \/ op \in {"raise", "top"} /\ NextSibling(kids, o) # Null
  PROVE  Sound(<<Shift(op, o)>>)
<1> DEFINE steps == <<Shift(op, o)>>
<1>1. /\ steps \in Seq(GoodSteps)
      /\ LET done == DoAll(kids, steps) IN done.ok /\ LeadsTo(kids, done.steps, done.kids)
  BY ShiftLeads DEF Typed
<1>2. Len(steps) = 1 /\ steps[1].node = o
  BY DEF Shift
<1> HIDE DEF steps
<1>3. \A x : IsNode(steps, x) => x = o
  <2>1. \A i \in 1..1 : i = 1
    OBVIOUS
  <2>. QED BY <1>2, <2>1 DEF IsNode
<1>. QED BY <1>1, <1>3 DEF Sound, CanSelect, steps

LEMMA Deletes ==
  ASSUME Typed, NEW os \in Lists, \A i \in 1..Len(os) : CanSelect(os[i])
  PROVE  Sound(Deletions(kids, os))
<1> DEFINE steps == Deletions(kids, os)
<1>1. kids \in Drawings /\ \A i \in 1..Len(os) : ParentNode(kids, os[i]) # Null
  BY DEF Typed, CanSelect
<1>2. LET done == DoAll(kids, steps) IN done.ok /\ LeadsTo(kids, done.steps, done.kids)
  BY <1>1, DeletionsLead
<1>3. /\ steps \in Seq(GoodSteps) /\ Len(steps) = Len(os)
      /\ \A i \in 1..Len(os) : steps[i].node = os[i]
  BY <1>1, DeletionsAre
<1> HIDE DEF steps
<1>4. \A x \in Objects : IsNode(steps, x) => ParentNode(kids, x) # Null
  BY <1>1, <1>3 DEF IsNode
<1>. QED BY <1>2, <1>3, <1>4 DEF Sound, steps

\* Whatever is selected, the group takes the objects of the image among it.
LEMMA Grouped ==
  ASSUME Typed, NEW g \in Groups, NEW S, Sorted(S) # << >>, Fresh(g)
  PROVE  LET sorted == Sorted(S)
             place == [parent |-> Image, before |-> NextSibling(kids, Last(sorted))]
         IN Sound(Grouping(g, place, sorted))
<1> DEFINE sorted == Sorted(S)
           top == Last(sorted)
           place == [parent |-> Image, before |-> NextSibling(kids, top)]
           steps == Grouping(g, place, sorted)
           C == {x \in Objects : ParentNode(kids, x) = Image}
<1>1. /\ kids \in Drawings /\ Image \in Containers
  BY NullIsNone DEF Typed
<1>2. kids[Image] \in Seq(C)
  <2>1. kids[Image] \in Lists /\ Children(kids, Image) = C
    BY <1>1, ChildIs
  <2>2. \A i \in 1..Len(kids[Image]) : kids[Image][i] \in C
    BY <2>1 DEF Lists, Distinct, Children, ToSet
  <2>. QED BY <2>1, <2>2 DEF Lists, Distinct
<1>3. sorted \in Seq(C) /\ Len(sorted) # 0
  <2>1. sorted \in Seq(C \cap S) /\ sorted # << >>
    BY <1>2, AmongAre DEF Sorted
  <2>. HIDE DEF sorted, C
  <2>. QED BY <2>1
<1> HIDE DEF sorted
<1>4. /\ sorted \in Seq(Objects) /\ \A i \in 1..Len(sorted) : sorted[i] \in C
      /\ Len(sorted) \in 1..Len(sorted)
  BY <1>3
<1>5. \A i \in 1..Len(sorted) : sorted[i] \in Objects /\ ParentNode(kids, sorted[i]) = Image
  BY <1>4
<1>6. top \in Objects /\ ParentNode(kids, top) = Image
  <2>1. top = sorted[Len(sorted)]
    BY DEF Last
  <2>. QED BY <1>4, <1>5, <2>1
<1> HIDE DEF C
<1>7. ParentNode(kids, g) = Null /\ \A i \in 1..Len(stack) : ~IsNode(stack[i].steps, g)
  BY FreshIsUnknown
<1> HIDE DEF top
<1>8. /\ place \in Places /\ place.before # g
      /\ LET done == DoAll(kids, steps) IN done.ok /\ LeadsTo(kids, done.steps, done.kids)
  BY <1>1, <1>4, <1>6, <1>7, GroupingLeads
<1> HIDE DEF place
<1>9. /\ steps \in Seq(GoodSteps) /\ Len(steps) = Len(sorted) + 2
      /\ \A i \in 1..Len(sorted) + 2 :
           steps[i].node = g \/ \E j \in 1..Len(sorted) : steps[i].node = sorted[j]
  BY <1>4, <1>8, GroupingIs
<1> HIDE DEF steps
<1>10. \A x : IsNode(steps, x) => x = g \/ ParentNode(kids, x) = Image
  BY <1>5, <1>9 DEF IsNode
<1>11. Sound(steps)
  BY <1>1, <1>7, <1>8, <1>9, <1>10, NullIsNone DEF Sound
<1>. QED BY <1>11 DEF steps, place, top, sorted

\* A group that is shown is not in itself.
LEMMA ShownIsNotInItself ==
  ASSUME NEW k, NEW g \in Groups, g \in Shown(k)
  PROVE  ParentNode(k, g) # g
<1> DEFINE S == Objects \ {g}
<1>1. SUFFICES ASSUME ParentNode(k, g) = g PROVE FALSE
  OBVIOUS
<1>2. g \in Objects /\ g # Image
  BY DrawingAssumption DEF Objects
<1>3. \A x \in Objects : ParentNode(k, x) \in S \cup {Image} => x \in S
  BY <1>1, <1>2
<1>. QED BY <1>2, <1>3 DEF Shown

LEMMA Ungroups ==
  ASSUME Typed, NEW g \in Groups, CanSelect(g), g \in Shown(kids)
  PROVE  Sound(Ungrouping(kids, g))
<1> DEFINE steps == Ungrouping(kids, g)
           n == Len(kids[g])
<1>1. /\ kids \in Drawings /\ ParentNode(kids, g) \notin {Null, g} /\ g \in Objects /\ g \in Containers
  BY ShownIsNotInItself DEF Typed, CanSelect, Objects, Containers
<1>2. LET done == DoAll(kids, steps) IN done.ok /\ LeadsTo(kids, done.steps, done.kids)
  BY <1>1, UngroupingLeads
<1>3. /\ n \in Nat /\ steps \in Seq(GoodSteps) /\ Len(steps) = n + 1
      /\ \A i \in 1..n : steps[i].node = kids[g][i]
      /\ steps[n + 1].node = g
  BY <1>1, UngroupingIs
<1>4. \A i \in 1..n : ParentNode(kids, kids[g][i]) = g
  BY <1>1, ChildIs
<1> HIDE DEF steps, n
<1>5. \A i \in 1..n + 1 : i = n + 1 \/ i \in 1..n
  BY <1>3
<1>6. \A x \in Objects : IsNode(steps, x) => ParentNode(kids, x) # Null
  BY <1>1, <1>3, <1>4, <1>5, NullIsNone DEF IsNode
<1>. QED BY <1>2, <1>3, <1>6 DEF Sound, steps

\* Every command is a sound transaction, or throws before it has one.
LEMMA CommandIsSound ==
  ASSUME Typed, Command
  PROVE  (\E steps : Sound(steps) /\ DoTransaction(steps)) \/ UNCHANGED vars
<1>1. Shapes \subseteq Objects /\ Groups \subseteq Objects
  BY DEF Objects
<1>2. ASSUME NEW o \in Shapes, Draw(o) PROVE \E steps : Sound(steps) /\ DoTransaction(steps)
  <2> DEFINE os == <<o>>
  <2>1. os \in Seq(Objects) /\ Len(os) = 1 /\ DOMAIN os = 1..1 /\ \A i \in 1..1 : os[i] = o
    BY <1>1
  <2>2. Insertions(os, End(Image)) = <<Insertion(o, End(Image))>>
    BY DEF Insertions
  <2> HIDE DEF os
  <2>3. Sound(Insertions(os, End(Image)))
    BY <1>2, <2>1, NewObjects DEF Draw
  <2>. QED BY <1>2, <2>2, <2>3 DEF Draw
<1>3. ASSUME NEW o \in Shapes, NEW p \in Shapes, Paste(<<o, p>>)
      PROVE  \E steps : Sound(steps) /\ DoTransaction(steps)
  <2> DEFINE os == <<o, p>>
  <2>1. os \in Seq(Objects) /\ \A i \in 1..Len(os) : os[i] \in ToSet(os)
    BY <1>1 DEF ToSet
  <2> HIDE DEF os
  <2>2. Paste(os)
    BY <1>3 DEF os
  <2>3. \A i \in 1..Len(os) : Fresh(os[i])
    BY <2>1, <2>2 DEF Paste
  <2>4. Sound(Insertions(os, End(Image)))
    BY <2>1, <2>3, NewObjects
  <2>. QED BY <2>2, <2>4 DEF Paste, Insertions
<1>4. ASSUME NEW o \in Objects, Lower(o) PROVE \E steps : Sound(steps) /\ DoTransaction(steps)
  <2>1. CanSelect(o) /\ PreviousSibling(kids, o) # Null
    BY <1>4 DEF Lower
  <2>2. PICK op \in {"lower", "bottom"} : DoTransaction(<<Shift(op, o)>>)
    BY <1>4 DEF Lower
  <2>3. Sound(<<Shift(op, o)>>)
    BY <2>1, Shifts
  <2>. QED BY <2>2, <2>3
<1>5. ASSUME NEW o \in Objects, Raise(o) PROVE \E steps : Sound(steps) /\ DoTransaction(steps)
  <2>1. CanSelect(o) /\ NextSibling(kids, o) # Null
    BY <1>5 DEF Raise
  <2>2. PICK op \in {"raise", "top"} : DoTransaction(<<Shift(op, o)>>)
    BY <1>5 DEF Raise
  <2>3. Sound(<<Shift(op, o)>>)
    BY <2>1, Shifts
  <2>. QED BY <2>2, <2>3
<1>6. ASSUME NEW os \in Lists, \A i \in 1..Len(os) : CanSelect(os[i]), DeleteSelection(os)
      PROVE  \E steps : Sound(steps) /\ DoTransaction(steps)
  <2>1. Sound(Deletions(kids, os))
    BY <1>6, Deletes
  <2>. QED BY <1>6, <2>1 DEF DeleteSelection, Deletions
<1>7. ASSUME NEW o \in Objects, CanSelect(o), DeleteSelection(<<o>>)
      PROVE  \E steps : Sound(steps) /\ DoTransaction(steps)
  <2> DEFINE os == <<o>>
  <2>1. os \in Seq(Objects) /\ Len(os) = 1 /\ DOMAIN os = 1..1 /\ os[1] = o /\ \A i \in 1..1 : i = 1
    OBVIOUS
  <2> HIDE DEF os
  <2>2. os \in Lists
    BY <2>1 DEF Lists, Distinct, IsInjective
  <2>3. \A i \in 1..Len(os) : CanSelect(os[i])
    BY <1>7, <2>1
  <2>. QED BY <1>6, <1>7, <2>2, <2>3 DEF os
<1>8. ASSUME NEW os \in MultiSelections, DeleteSelection(os)
      PROVE  \E steps : Sound(steps) /\ DoTransaction(steps)
  <2>1. os \in Distinct(Selectable)
    BY OrdersAre DEF MultiSelections
  <2>2. os \in Seq(Selectable) /\ \A i \in 1..Len(os) : os[i] \in Selectable
    BY <2>1, DistinctAre
  <2>3. os \in Lists
    BY <2>1, <2>2 DEF Lists, Distinct, Selectable
  <2>4. \A i \in 1..Len(os) : CanSelect(os[i])
    BY <2>2 DEF Selectable
  <2>. QED BY <1>6, <1>8, <2>3, <2>4
<1>9. ASSUME NEW g \in Groups, NEW S, GroupSelection(g, S), ~ GroupingThrows(S)
      PROVE  \E steps : Sound(steps) /\ DoTransaction(steps)
  <2>1. Sorted(S) # << >>
    BY <1>9 DEF GroupingThrows
  <2> DEFINE sorted == Sorted(S)
             place == [parent |-> Image, before |-> NextSibling(kids, Last(sorted))]
             steps == Grouping(g, place, sorted)
  <2>2. Fresh(g)
    BY <1>9 DEF GroupSelection
  <2>3. Sound(steps)
    BY <2>1, <2>2, Grouped
  <2>4. DoTransaction(steps)
    BY <1>9 DEF GroupSelection, Grouping, Insertions
  <2>. QED BY <2>3, <2>4
<1>10. ASSUME NEW g \in Groups, UngroupSelection(g)
       PROVE  \E steps : Sound(steps) /\ DoTransaction(steps)
  <2>1. Sound(Ungrouping(kids, g))
    BY <1>10, Ungroups DEF UngroupSelection
  <2>2. DoTransaction(Ungrouping(kids, g))
    BY <1>10 DEF UngroupSelection, Ungrouping, Insertions
  <2>. QED BY <2>1, <2>2
<1>11. ASSUME NEW g, NEW S, GroupSelection(g, S), GroupingThrows(S) PROVE UNCHANGED vars
  BY <1>11 DEF GroupSelection
<1>. QED BY <1>2, <1>3, <1>4, <1>5, <1>7, <1>8, <1>9, <1>10, <1>11 DEF Command

-----------------------------------------------------------------------------
(* The invariant is kept.                                                  *)

\* What a sound transaction leaves alone: what has left the drawing and is known to
\* the stack.
LEMMA SoundLeavesAlone ==
  ASSUME Typed, NEW steps, Sound(steps), NEW i \in 1..Len(stack), NEW y \in Objects,
         IsNode(stack[i].steps, y), ParentNode(kids, y) = Null
  PROVE  LET done == DoAll(kids, steps)
         IN ~IsNode(done.steps, y) /\ ParentNode(done.kids, y) = Null
<1> DEFINE done == DoAll(kids, steps)
<1>1. ~IsNode(steps, y)
  BY DEF Sound
<1>2. /\ \A j \in 1..Len(done.steps) : \E l \in 1..Len(steps) : done.steps[j].node = steps[l].node
      /\ (\A l \in 1..Len(steps) : steps[l].node # y) => ParentNode(done.kids, y) = ParentNode(kids, y)
  BY DoneUntouched DEF Sound, Typed
<1> HIDE DEF done
<1>. QED BY <1>1, <1>2 DEF IsNode, done

LEMMA Appended ==
  ASSUME NEW S, NEW q \in Seq(S), NEW x \in S
  PROVE  /\ Append(q, x) \in Seq(S) /\ Len(Append(q, x)) = Len(q) + 1
         /\ \A i \in 1..Len(q) : Append(q, x)[i] = q[i]
         /\ Append(q, x)[Len(q) + 1] = x
OBVIOUS

LEMMA PushIs ==
  ASSUME Typed, NEW tx, Push(tx),
         snapshots' = Append(SubSeq(snapshots, 1, stackPosition + 1), kids')
  PROVE  LET p == stackPosition
         IN /\ p \in Nat /\ p <= Len(stack) /\ stackPosition' = p + 1
            /\ stack' \in Seq(Txs \cup {tx}) /\ Len(stack') = p + 1
            /\ \A i \in 1..p : stack'[i] = stack[i] /\ i \in 1..Len(stack)
            /\ stack'[p + 1] = tx
            /\ snapshots' \in Seq(Drawings \cup {kids'}) /\ Len(snapshots') = p + 2
            /\ \A i \in 1..p + 1 : snapshots'[i] = snapshots[i]
            /\ snapshots'[p + 2] = kids'
<1> DEFINE p == stackPosition
           n == Len(stack)
<1>1. n \in Nat /\ p \in Nat /\ p <= n /\ stack \in Seq(Txs) /\ snapshots \in Seq(Drawings)
      /\ Len(snapshots) = n + 1
  BY DEF Typed
<1>2. stack' = Append(SubSeq(stack, 1, p), tx) /\ stackPosition' = p + 1
  BY DEF Push
<1> HIDE DEF n
<1>3. /\ SubSeq(stack, 1, p) \in Seq(Txs) /\ Len(SubSeq(stack, 1, p)) = p
      /\ \A i \in 1..p : SubSeq(stack, 1, p)[i] = stack[i] /\ i \in 1..n
  BY <1>1 DEF n
<1>4. /\ SubSeq(snapshots, 1, p + 1) \in Seq(Drawings) /\ Len(SubSeq(snapshots, 1, p + 1)) = p + 1
      /\ \A i \in 1..p + 1 : SubSeq(snapshots, 1, p + 1)[i] = snapshots[i]
  BY <1>1
<1>5. /\ stack' \in Seq(Txs \cup {tx}) /\ Len(stack') = p + 1
      /\ \A i \in 1..p : stack'[i] = stack[i]
      /\ stack'[p + 1] = tx
  BY <1>1, <1>2, <1>3
<1>6. /\ snapshots' \in Seq(Drawings \cup {kids'}) /\ Len(snapshots') = p + 2
      /\ \A i \in 1..p + 1 : snapshots'[i] = snapshots[i]
      /\ snapshots'[p + 2] = kids'
  <2> DEFINE q == SubSeq(snapshots, 1, p + 1)
  <2>1. q \in Seq(Drawings \cup {kids'}) /\ Len(q) = p + 1 /\ snapshots' = Append(q, kids')
    BY <1>4
  <2>2. /\ snapshots' \in Seq(Drawings \cup {kids'}) /\ Len(snapshots') = p + 2
        /\ \A i \in 1..p + 1 : snapshots'[i] = q[i]
        /\ snapshots'[p + 2] = kids'
    <3> HIDE DEF q
    <3>1. kids' \in Drawings \cup {kids'} /\ (p + 1) + 1 = p + 2
      BY <1>1
    <3>. QED BY <2>1, <3>1, Appended
  <2>. QED BY <1>4, <2>2
<1>. QED BY <1>1, <1>2, <1>3, <1>5, <1>6 DEF n

LEMMA SoundKeeps ==
  ASSUME Inv, SafeInv, NEW steps, Sound(steps), DoTransaction(steps)
  PROVE  SafeInv'
<1> DEFINE done == DoAll(kids, steps)
           id == FreshId({lastSaveTx} \ {NoTx})
           tx == [id |-> id, steps |-> done.steps]
           p == stackPosition
<1>1. Typed /\ done.ok /\ LeadsTo(kids, done.steps, done.kids)
  BY DEF SafeInv, Sound
<1>2. /\ p < MaxStack /\ kids' = done.kids /\ Push(tx)
      /\ snapshots' = Append(SubSeq(snapshots, 1, p + 1), kids')
      /\ UNCHANGED threw /\ UNCHANGED saveVars
  BY <1>1 DEF DoTransaction
<1>3. id \in Nat
  BY FreshIdIsFresh DEF Inv
<1>4. ASSUME NEW i \in 1..Len(stack), NEW y \in Objects,
             IsNode(stack[i].steps, y), ParentNode(kids, y) = Null
      PROVE  ~IsNode(done.steps, y) /\ ParentNode(done.kids, y) = Null
  BY <1>1, <1>4, SoundLeavesAlone
<1> HIDE DEF done, id
<1>5. tx \in Txs /\ tx.steps = done.steps /\ kids' \in Drawings /\ done.steps \in Seq(GoodSteps)
  BY <1>1, <1>2, <1>3 DEF Txs, LeadsTo
<1> HIDE DEF tx
<1>6. /\ p \in Nat /\ p <= Len(stack) /\ stackPosition' = p + 1
      /\ stack' \in Seq(Txs \cup {tx}) /\ Len(stack') = p + 1
      /\ \A i \in 1..p : stack'[i] = stack[i] /\ i \in 1..Len(stack)
      /\ stack'[p + 1] = tx
      /\ snapshots' \in Seq(Drawings \cup {kids'}) /\ Len(snapshots') = p + 2
      /\ \A i \in 1..p + 1 : snapshots'[i] = snapshots[i]
      /\ snapshots'[p + 2] = kids'
  BY <1>1, <1>2, PushIs
<1>7. \A i \in 1..p + 1 : i = p + 1 \/ i \in 1..p
  BY <1>6
<1>8. Typed'
  <2>1. Txs \cup {tx} = Txs /\ Drawings \cup {kids'} = Drawings
    BY <1>5
  <2>2. p + 1 <= MaxStack /\ p + 1 \in 0..p + 1 /\ p + 2 = (p + 1) + 1
    BY <1>2, <1>6, MaxStackAssumption
  <2>. QED BY <1>1, <1>2, <1>5, <1>6, <2>1, <2>2 DEF Typed, saveVars
<1>9. ASSUME threw = "none"
      PROVE  Recorded' /\ Gone' /\ HistoryFaithful'
  <2>1. Recorded /\ Gone /\ kids = snapshots[p + 1]
    BY <1>9 DEF SafeInv, HistoryFaithful
  <2>2. Recorded'
    <3>1. ASSUME NEW i \in 1..p + 1
          PROVE  LeadsTo(snapshots'[i], stack'[i].steps, snapshots'[i + 1])
      <4>1. CASE i = p + 1
        <5>1. (p + 1) + 1 = p + 2 /\ p + 1 \in 1..p + 1
          BY <1>6
        <5>. QED BY <1>1, <1>2, <1>5, <1>6, <2>1, <4>1, <5>1
      <4>2. CASE i \in 1..p
        <5>1. i \in 1..p + 1 /\ i + 1 \in 1..p + 1
          BY <1>6, <4>2
        <5>. QED BY <1>6, <2>1, <4>2, <5>1 DEF Recorded
      <4>. QED BY <1>7, <4>1, <4>2
    <3>. QED BY <1>6, <3>1 DEF Recorded
  <2>3. Gone'
    <3>1. SUFFICES ASSUME NEW i \in 1..p + 1, NEW y \in Objects,
                          IsNode(stack'[i].steps, y), ParentNode(snapshots'[i + 1], y) = Null,
                          NEW m \in i + 1..p + 1
                   PROVE  ~IsNode(stack'[m].steps, y) /\ ParentNode(snapshots'[m + 1], y) = Null
      BY <1>6 DEF Gone
    <3>2. /\ i \in 1..p /\ i + 1 \in 1..p + 1 /\ m \in 1..p + 1 /\ p \in 1..Len(stack)
          /\ m # p + 1 => m \in 1..p /\ m \in i + 1..Len(stack) /\ m + 1 \in 1..p + 1
          /\ i # p => p \in i + 1..Len(stack)
      BY <1>6, <3>1
    <3>3. IsNode(stack[i].steps, y) /\ ParentNode(snapshots[i + 1], y) = Null /\ i \in 1..Len(stack)
      BY <1>6, <3>1, <3>2
    <3>4. CASE m = p + 1
      <4>1. ParentNode(kids, y) = Null
        <5>1. CASE i = p
          BY <2>1, <3>3, <5>1
        <5>2. CASE i # p
          <6>1. ParentNode(snapshots[p + 1], y) = Null
            BY <2>1, <3>2, <3>3, <5>2 DEF Gone
          <6>. QED BY <2>1, <6>1
        <5>. QED BY <5>1, <5>2
      <4>2. ~IsNode(done.steps, y) /\ ParentNode(done.kids, y) = Null
        BY <1>4, <3>3, <4>1
      <4>3. stack'[m] = tx /\ snapshots'[m + 1] = kids'
        <5>1. (p + 1) + 1 = p + 2
          BY <1>6
        <5>. QED BY <1>6, <3>4, <5>1
      <4>. QED BY <1>2, <1>5, <4>2, <4>3
    <3>5. CASE m # p + 1
      <4>1. stack'[m] = stack[m] /\ snapshots'[m + 1] = snapshots[m + 1]
        BY <1>6, <3>2, <3>5
      <4>. QED BY <2>1, <3>2, <3>3, <3>5, <4>1 DEF Gone
    <3>. QED BY <3>4, <3>5
  <2>4. HistoryFaithful'
    <3>1. (p + 1) + 1 = p + 2
      BY <1>6
    <3>. QED BY <1>6, <3>1 DEF HistoryFaithful
  <2>. QED BY <2>2, <2>3, <2>4
<1>10. ASSUME threw # "none"
       PROVE  Halted'
  <2>1. PICK i \in 1..p, y \in Objects : StuckAt(i, y)
    BY <1>10 DEF SafeInv, Halted
  <2>2. i \in 1..p + 1 /\ i \in 1..Len(stack) /\ stack'[i] = stack[i]
    BY <1>6
  <2>3. IsNode(stack[i].steps, y)
    BY <2>1 DEF StuckAt, IsStuck, IsNode
  <2>4. ~IsNode(done.steps, y) /\ ParentNode(kids', y) = Null
    BY <1>2, <1>4, <2>1, <2>2, <2>3 DEF StuckAt
  <2>5. ASSUME NEW m \in i + 1..p + 1
        PROVE  ~IsNode(stack'[m].steps, y)
    <3>1. CASE m = p + 1
      BY <1>5, <1>6, <2>4, <3>1
    <3>2. CASE m # p + 1
      <4>1. m \in 1..p /\ m \in i + 1..Len(stack)
        BY <1>6, <3>2
      <4>. QED BY <1>6, <2>1, <4>1 DEF StuckAt
    <3>. QED BY <3>1, <3>2
  <2>6. StuckAt(i, y)'
    BY <1>6, <2>1, <2>2, <2>4, <2>5 DEF StuckAt
  <2>. QED BY <1>6, <2>2, <2>6 DEF Halted
<1>. QED BY <1>2, <1>8, <1>9, <1>10 DEF SafeInv

\* An undo leads back; or it is stuck, now and whatever is done after.
LEMMA UndoSafe == ASSUME SafeInv, Undo PROVE SafeInv'
<1> DEFINE p == stackPosition
           steps == stack[p].steps
           undone == UndoAll(kids, steps)
<1>1. /\ Typed /\ p \in 1..Len(stack) /\ Len(stack) \in Nat
      /\ kids' = undone.kids /\ UNCHANGED <<saveVars, snapshots>>
      /\ \/ undone.ok /\ StepBack /\ UNCHANGED threw
         \/ ~undone.ok /\ Threw("undo") /\ StackUnchanged
  BY DEF Undo, CanUndo, SafeInv, Typed
<1>2. steps \in Seq(GoodSteps) /\ kids \in Drawings
  <2>1. stack[p] \in Txs /\ kids \in Drawings
    BY <1>1 DEF Typed
  <2>. QED BY <2>1 DEF Txs
<1>3. /\ undone.kids \in Drawings
      /\ \A x \in Objects : ~IsNode(steps, x) => ParentNode(undone.kids, x) = ParentNode(kids, x)
  BY <1>2, UndoneUntouched DEF Regress, IsNode
<1>4. ASSUME NEW y, IsStuck(steps, y), ParentNode(kids, y) = Null
      PROVE  ~undone.ok /\ ParentNode(undone.kids, y) = Null
  BY <1>2, <1>4, StuckStays
<1> HIDE DEF undone, steps
<1>5. /\ UNCHANGED stack /\ threw' \in {"none", "undo"}
      /\ undone.ok => stackPosition' = p - 1 /\ UNCHANGED threw
      /\ ~undone.ok => stackPosition' = p /\ threw' = "undo"
  <2>1. threw \in {"none", "undo"}
    BY <1>1 DEF Typed
  <2>. QED BY <1>1, <2>1 DEF StepBack, StackUnchanged, Threw
<1>6. Typed'
  <2>1. p - 1 \in 0..Len(stack) /\ p \in 0..Len(stack)
    BY <1>1
  <2>2. stackPosition' \in 0..Len(stack)
    BY <1>5, <2>1
  <2>. QED BY <1>1, <1>3, <1>5, <2>2 DEF Typed, saveVars
<1>7. ASSUME threw = "none"
      PROVE  /\ undone.ok => Recorded' /\ Gone' /\ HistoryFaithful'
             /\ ~undone.ok => Halted'
  <2>1. Recorded /\ Gone /\ kids = snapshots[p + 1]
    BY <1>7 DEF SafeInv, HistoryFaithful
  <2>2. Recorded' /\ Gone'
    BY <1>1, <1>5, <2>1 DEF Recorded, Gone
  <2>3. Undoes(kids, steps, snapshots[p])
    BY <1>1, <2>1 DEF Recorded, LeadsTo, steps
  <2>4. CASE undone = [ok |-> TRUE, kids |-> snapshots[p]]
    <3>1. undone.ok /\ kids' = snapshots[p] /\ (p - 1) + 1 = p
      BY <1>1, <2>4
    <3>2. HistoryFaithful'
      BY <1>1, <1>5, <3>1 DEF HistoryFaithful
    <3>. QED BY <2>2, <3>1, <3>2
  <2>5. ASSUME NEW y, IsStuck(steps, y), ParentNode(kids, y) = Null
        PROVE  ~undone.ok /\ Halted'
    <3>1. ~undone.ok /\ ParentNode(kids', y) = Null /\ y \in Objects /\ IsNode(steps, y)
      BY <1>1, <1>4, <2>5 DEF IsStuck, IsNode
    <3>2. \A m \in p + 1..Len(stack) : ~IsNode(stack[m].steps, y)
      BY <1>1, <2>1, <2>5, <3>1 DEF Gone, steps
    <3>3. PICK i \in 1..Len(stack) : i = p
      BY <1>1
    <3>4. StuckAt(i, y)'
      <4>1. UNCHANGED stack /\ IsStuck(stack[i].steps, y)
        BY <1>5, <2>5, <3>3 DEF steps
      <4>. QED BY <3>1, <3>2, <3>3, <4>1 DEF StuckAt
    <3>5. i \in 1..stackPosition'
      BY <1>1, <1>5, <3>1, <3>3
    <3>. QED BY <3>1, <3>4, <3>5 DEF Halted
  <2>. QED BY <2>3, <2>4, <2>5 DEF Undoes, undone
<1>8. ASSUME threw # "none"
      PROVE  Halted'
  <2>1. PICK i \in 1..p, y \in Objects : StuckAt(i, y)
    BY <1>8 DEF SafeInv, Halted
  <2>2. ParentNode(kids', y) = Null
    <3>1. CASE i = p
      BY <1>1, <1>4, <2>1, <3>1 DEF StuckAt, steps
    <3>2. CASE i # p
      <4>1. p \in i + 1..Len(stack)
        BY <1>1, <3>2
      <4>. QED BY <1>1, <1>3, <2>1, <4>1 DEF StuckAt, steps
    <3>. QED BY <3>1, <3>2
  <2>3. i \in 1..stackPosition'
    <3>1. CASE i = p
      <4>1. ~undone.ok
        BY <1>4, <2>1, <3>1 DEF StuckAt, steps
      <4>. QED BY <1>1, <1>5, <3>1, <4>1
    <3>2. CASE i # p
      BY <1>1, <1>5, <3>2
    <3>. QED BY <3>1, <3>2
  <2>4. StuckAt(i, y)'
    BY <1>5, <2>1, <2>2 DEF StuckAt
  <2>. QED BY <2>3, <2>4 DEF Halted
<1>9. threw' = "none" => threw = "none" /\ undone.ok
  BY <1>1, <1>5
<1>10. threw' # "none" => threw # "none" \/ ~undone.ok
  BY <1>5
<1>. QED BY <1>6, <1>7, <1>8, <1>9, <1>10 DEF SafeInv

\* A redo does again what the transaction did; after a throw it may stop or remember
\* anew.
LEMMA RedoSafe == ASSUME SafeInv, Redo PROVE SafeInv'
<1> DEFINE p == stackPosition
           k == p + 1
           steps == stack[k].steps
           done == DoAll(kids, steps)
<1>1. /\ Typed /\ p \in Nat /\ k \in 1..Len(stack) /\ Len(stack) \in Nat
      /\ kids' = done.kids /\ UNCHANGED <<saveVars, snapshots>>
      /\ \/ done.ok /\ StepForward(done.steps) /\ UNCHANGED threw
         \/ ~done.ok /\ Threw("redo") /\ StackUnchanged
  BY DEF Redo, CanRedo, SafeInv, Typed
<1>2. steps \in Seq(GoodSteps) /\ kids \in Drawings /\ stack[k] \in Txs
  <2>1. stack[k] \in Txs /\ kids \in Drawings
    <3> HIDE DEF k
    <3>. QED BY <1>1 DEF Typed
  <2>. QED BY <2>1 DEF Txs
<1>3. /\ done \in Progress
      /\ \A x \in Objects : ~IsNode(steps, x) =>
           ParentNode(done.kids, x) = ParentNode(kids, x) /\ ~IsNode(done.steps, x)
  <2>1. /\ done \in Progress
        /\ \A j \in 1..Len(done.steps) : \E i \in 1..Len(steps) : done.steps[j].node = steps[i].node
        /\ \A x \in Objects : (\A i \in 1..Len(steps) : steps[i].node # x)
                              => ParentNode(done.kids, x) = ParentNode(kids, x)
    BY <1>2, DoneUntouched
  <2> HIDE DEF done, steps
  <2>. QED BY <2>1 DEF IsNode
<1> HIDE DEF done, steps, k
<1>4. done.kids \in Drawings /\ done.steps \in Seq(GoodSteps)
  BY <1>3 DEF Progress
<1>5. /\ stack' \in Seq(Txs) /\ Len(stack') = Len(stack)
      /\ \A i \in 1..Len(stack) : i # k => stack'[i] = stack[i]
      /\ stack'[k].steps = IF done.ok THEN done.steps ELSE steps
      /\ done.ok => stackPosition' = k /\ UNCHANGED threw
                    /\ stack' = [stack EXCEPT ![k] = [stack[k] EXCEPT !.steps = done.steps]]
      /\ ~done.ok => UNCHANGED <<stack, stackPosition>> /\ Threw("redo")
  <2>1. CASE done.ok
    <3>1. stackPosition' = k /\ UNCHANGED threw
          /\ stack' = [stack EXCEPT ![k] = [stack[k] EXCEPT !.steps = done.steps]]
      BY <1>1, <2>1 DEF StepForward, k
    <3> DEFINE again == [stack[k] EXCEPT !.steps = done.steps]
    <3>2. again \in Txs /\ again.steps = done.steps
      BY <1>2, <1>4 DEF Txs
    <3>3. stack \in [1..Len(stack) -> Txs] /\ stack' = [stack EXCEPT ![k] = again]
      BY <1>1, <3>1 DEF Typed
    <3> HIDE DEF again
    <3>4. stack' \in [1..Len(stack) -> Txs] /\ stack'[k] = again
          /\ \A i \in 1..Len(stack) : i # k => stack'[i] = stack[i]
      BY <1>1, <3>2, <3>3
    <3>5. stack' \in Seq(Txs) /\ Len(stack') = Len(stack)
      <4>1. Len(stack) \in Nat
        BY <1>1
      <4>. QED BY <3>4, <4>1
    <3>6. (stack'[k]).steps = done.steps
      BY <3>2, <3>4
    <3>. QED BY <2>1, <3>1, <3>4, <3>5, <3>6
  <2>2. CASE ~done.ok
    BY <1>1, <2>2 DEF StackUnchanged, Typed, steps
  <2>. QED BY <2>1, <2>2
<1>6. ASSUME threw = "none"
      PROVE  /\ done.ok /\ UNCHANGED stack /\ Recorded' /\ Gone' /\ HistoryFaithful'
  <2>1. Recorded /\ Gone /\ kids = snapshots[k]
    BY <1>6 DEF SafeInv, HistoryFaithful, k
  <2>2. Redoes(kids, steps, snapshots[k + 1])
    BY <1>1, <2>1 DEF Recorded, LeadsTo, steps
  <2>3. done = [ok |-> TRUE, kids |-> snapshots[k + 1], steps |-> steps]
    BY <2>2 DEF Redoes, done
  <2>4. done.ok /\ kids' = snapshots[k + 1] /\ done.steps = steps
    BY <1>1, <2>3
  <2>5. stack' = stack
    <3>1. [stack[k] EXCEPT !.steps = done.steps] = stack[k]
      <4>1. done.steps = stack[k].steps
        BY <2>4 DEF steps
      <4>. QED BY <1>2, <4>1 DEF Txs
    <3>2. stack' = [stack EXCEPT ![k] = stack[k]]
      BY <1>5, <2>4, <3>1
    <3>. QED BY <1>1, <3>2 DEF Typed
  <2>6. Recorded' /\ Gone'
    BY <1>1, <2>1, <2>5 DEF Recorded, Gone
  <2>7. HistoryFaithful'
    BY <1>1, <1>5, <2>4 DEF HistoryFaithful
  <2>. QED BY <2>4, <2>5, <2>6, <2>7
<1>7. ASSUME threw # "none"
      PROVE  threw' = threw /\ Halted'
  <2>1. PICK i \in 1..p, y \in Objects : StuckAt(i, y)
    BY <1>7 DEF SafeInv, Halted
  <2>2. k \in i + 1..Len(stack) /\ i # k
    BY <1>1 DEF k
  <2>3. ~IsNode(steps, y)
    BY <2>1, <2>2 DEF StuckAt, steps
  <2>4. ParentNode(kids', y) = Null /\ ~IsNode(done.steps, y)
    BY <1>1, <1>3, <2>1, <2>3 DEF StuckAt
  <2>5. ASSUME NEW m \in i + 1..Len(stack)
        PROVE  ~IsNode(stack'[m].steps, y)
    <3>1. CASE m = k
      BY <1>5, <2>3, <2>4, <3>1
    <3>2. CASE m # k
      <4>1. m \in 1..Len(stack)
        BY <1>1
      <4>. QED BY <1>5, <2>1, <3>2, <4>1 DEF StuckAt
    <3>. QED BY <3>1, <3>2
  <2>6. stack'[i] = stack[i]
    <3>1. i \in 1..Len(stack)
      BY <1>1 DEF k
    <3>. QED BY <1>5, <2>2, <3>1
  <2>7. StuckAt(i, y)'
    BY <1>5, <2>1, <2>4, <2>5, <2>6 DEF StuckAt
  <2>8. i \in 1..stackPosition'
    BY <1>1, <1>5 DEF k
  <2>9. threw' = threw
    BY <1>5, <1>7 DEF Threw
  <2>. QED BY <2>7, <2>8, <2>9 DEF Halted
<1>8. threw' = threw
  BY <1>5, <1>6, <1>7
<1>9. Typed'
  <2>1. stackPosition' \in 0..Len(stack)
    <3>1. k \in 0..Len(stack) /\ p \in 0..Len(stack)
      BY <1>1 DEF Typed
    <3>. QED BY <1>5, <3>1
  <2>. QED BY <1>1, <1>4, <1>5, <1>8, <2>1 DEF Typed, saveVars
<1>. QED BY <1>6, <1>7, <1>8, <1>9 DEF SafeInv

LEMMA SaveSafe == ASSUME SafeInv, Save PROVE SafeInv'
<1>1. /\ UNCHANGED <<stack, stackPosition, kids, snapshots, threw>>
      /\ saved' = kids /\ lastSaveTx' = PeekUndoStack /\ fileExists' = TRUE
  BY DEF Save, stackVars
<1>2. lastSaveTx' \in Nat \cup {NoTx}
  <2>1. CASE CanUndo
    <3>1. stackPosition \in 1..Len(stack)
      BY <2>1 DEF CanUndo, SafeInv, Typed
    <3>2. stack[stackPosition] \in Txs
      BY <3>1 DEF SafeInv, Typed
    <3>. QED BY <1>1, <2>1, <3>2 DEF PeekUndoStack, Txs
  <2>2. CASE ~CanUndo
    BY <1>1, <2>2 DEF PeekUndoStack
  <2>. QED BY <2>1, <2>2
<1>3. Typed'
  BY <1>1, <1>2 DEF SafeInv, Typed
<1>4. /\ Recorded => Recorded'
      /\ Gone => Gone'
      /\ HistoryFaithful => HistoryFaithful'
      /\ Halted => Halted'
  BY <1>1 DEF Recorded, Gone, HistoryFaithful, Halted, StuckAt
<1>. QED BY <1>1, <1>3, <1>4 DEF SafeInv

LEMMA InitSafe == Init => SafeInv
<1>. SUFFICES ASSUME Init PROVE SafeInv
  OBVIOUS
<1>1. PICK os \in Orders(Shapes) : kids = [c \in Containers |-> IF c = Image THEN os ELSE <<>>]
  BY DEF Init
<1>2. os \in Lists
  <2>1. os \in Distinct(Shapes)
    BY OrdersAre
  <2>2. os \in Seq(Objects)
    BY <2>1 DEF Distinct, Objects
  <2>. QED BY <2>1, <2>2 DEF Lists, Distinct
<1>3. <<>> \in Lists /\ ToSet(<<>>) = {}
  BY DEF Lists, Distinct, IsInjective, ToSet
<1>4. kids \in Drawings
  <2>1. kids \in [Containers -> Lists]
    BY <1>1, <1>2, <1>3
  <2>2. ASSUME NEW c \in Containers, NEW d \in Containers, c # d
        PROVE  Children(kids, c) \cap Children(kids, d) = {}
    BY <1>1, <1>3, <2>2 DEF Children
  <2>. QED BY <2>1, <2>2 DEF Drawings
<1>5. /\ stack = <<>> /\ stackPosition = 0 /\ lastSaveTx = NoTx
      /\ saved = kids /\ snapshots = <<kids>> /\ threw = "none"
      /\ fileExists \in BOOLEAN
  BY DEF Init, TransactionManagerInit
<1>6. Typed
  BY <1>4, <1>5, MaxStackAssumption DEF Typed
<1>7. Recorded /\ Gone /\ HistoryFaithful
  BY <1>5 DEF Recorded, Gone, HistoryFaithful
<1>. QED BY <1>5, <1>6, <1>7 DEF SafeInv

LEMMA StepSafe == Inv /\ SafeInv /\ [Next]_vars => SafeInv'
<1>. SUFFICES ASSUME Inv, SafeInv, [Next]_vars PROVE SafeInv'
  OBVIOUS
<1>1. ASSUME NEW steps, Sound(steps), DoTransaction(steps) PROVE SafeInv'
  BY <1>1, SoundKeeps
<1>2. CASE Undo
  BY <1>2, UndoSafe
<1>3. CASE Redo
  BY <1>3, RedoSafe
<1>4. CASE Save
  BY <1>4, SaveSafe
<1>5. CASE UNCHANGED vars
  <2>1. UNCHANGED <<stack, stackPosition, kids, lastSaveTx, fileExists, saved, snapshots, threw>>
    BY <1>5 DEF vars, stackVars, saveVars
  <2>2. Typed'
    BY <2>1 DEF SafeInv, Typed
  <2>3. /\ Recorded => Recorded'
        /\ Gone => Gone'
        /\ HistoryFaithful => HistoryFaithful'
        /\ Halted => Halted'
    BY <2>1 DEF Recorded, Gone, HistoryFaithful, Halted, StuckAt
  <2>. QED BY <2>1, <2>2, <2>3 DEF SafeInv
<1>6. CASE Command
  <2>1. Typed
    BY DEF SafeInv
  <2>2. (\E steps : Sound(steps) /\ DoTransaction(steps)) \/ UNCHANGED vars
    BY <1>6, <2>1, CommandIsSound
  <2>. QED BY <1>1, <1>5, <2>2
<1>. QED BY <1>2, <1>3, <1>4, <1>5, <1>6 DEF Next

LEMMA Safe == Spec => [](Inv /\ SafeInv)
<1>1. SafeInv => HistoryFaithful
  BY DEF SafeInv, HistoryFaithful
<1>2. Inv /\ SafeInv /\ [Next]_vars => Inv' /\ SafeInv'
  BY <1>1, StepInv, StepSafe
<1>. QED BY <1>2, InitInv, InitSafe, PTL DEF Spec

-----------------------------------------------------------------------------
\* Type correctness; among the rest, no object is ever in two places of the drawing,
\* whatever transactions are done, undone and redone, also after an undo has thrown
\* half way (editors/shottxs.js, editors/txmgr.js).
THEOREM EditorTypeCorrect == Spec => []TypeOK
<1>1. ASSUME NEW k \in Drawings
      PROVE  /\ IsDrawing(k)
             /\ \A c, d \in Containers : c # d => Children(k, c) \cap Children(k, d) = {}
  <2>1. k \in [Containers -> Lists]
    BY DEF Drawings
  <2>2. \A c \in Containers : IsInjective(k[c]) /\ Children(k, c) \subseteq Objects
    BY <2>1, DistinctAre DEF Lists, Distinct, Children
  <2>. QED BY <2>1, <2>2 DEF IsDrawing, Drawings
<1>2. ASSUME NEW tx \in Txs
      PROVE  tx.id \in Nat /\ ToSet(tx.steps) \subseteq Steps
  <2>1. GoodSteps \subseteq Steps
    BY DEF GoodSteps, Steps
  <2>. QED BY <2>1 DEF Txs, ToSet
<1>3. SafeInv => TypeOK
  <2>. SUFFICES ASSUME Typed PROVE TypeOK
    BY DEF SafeInv
  <2>1. /\ \A i \in 1..Len(stack) : stack[i] \in Txs
        /\ \A i \in 1..Len(snapshots) : snapshots[i] \in Drawings
    BY DEF Typed
  <2>. QED BY <1>1, <1>2, <2>1 DEF Typed, TypeOK
<1>. QED BY <1>3, Safe, PTL

\* Undo and redo walk through the drawings the transactions made, exactly, as long as
\* no undo has thrown: for any objects, groups in groups and any length of the stack.
THEOREM HistoryIsFaithful == Spec => []HistoryFaithful
<1>1. SafeInv => HistoryFaithful
  BY DEF SafeInv, HistoryFaithful
<1>. QED BY <1>1, Safe, PTL

\* No transaction throws first when it is done or redone, whatever objects are selected,
\* those a redo has put in a group again among them: an undo does, and only over a
\* deletion of several objects one of which was selected after the sibling above it
\* (DeleteTx).
THEOREM OnlyDeletionsThrow == Spec => []ThrowsOverDeletions
<1>1. SafeInv => ThrowsOverDeletions
  <2>. SUFFICES ASSUME SafeInv, threw # "none"
               PROVE  threw = "undo" /\ \E i \in 1..stackPosition : DeletedOutOfOrder(stack[i].steps)
    BY DEF ThrowsOverDeletions
  <2>1. threw = "undo" /\ Typed
    BY DEF SafeInv, Typed
  <2>2. PICK i \in 1..stackPosition, y \in Objects : StuckAt(i, y)
    BY DEF SafeInv, Halted
  <2>3. stack[i].steps \in Seq(GoodSteps)
    <3>1. i \in 1..Len(stack)
      BY <2>1 DEF Typed
    <3>2. stack[i] \in Txs
      BY <2>1, <3>1 DEF Typed
    <3>. QED BY <3>2 DEF Txs
  <2>4. DOMAIN stack[i].steps = 1..Len(stack[i].steps)
    BY <2>3
  <2>5. DeletedOutOfOrder(stack[i].steps)
    BY <2>2, <2>4 DEF StuckAt, IsStuck, DeletedOutOfOrder
  <2>. QED BY <2>1, <2>5
<1>. QED BY <1>1, Safe, PTL

\* As long as no undo has thrown, a drawing that does not count as modified is the one
\* in its file, whatever was undone, cut off and redone (the editor's `modified').
THEOREM UnmodifiedIsSaved == Spec => []UnmodifiedMeansSaved
<1>1. Inv /\ HistoryFaithful => UnmodifiedMeansSaved
  <2>. SUFFICES ASSUME Inv, HistoryFaithful, threw = "none", ~ Modified PROVE kids = saved
    BY DEF UnmodifiedMeansSaved
  <2>1. lastSaveTx = PeekUndoStack /\ kids = snapshots[stackPosition + 1] /\ SavedThere
    BY DEF Modified, HistoryFaithful, Inv
  <2>2. CASE stackPosition = 0
    BY <2>1, <2>2 DEF PeekUndoStack, CanUndo, SavedThere
  <2>3. CASE stackPosition \in 1..Len(stack)
    BY <2>1, <2>3 DEF PeekUndoStack, CanUndo, SavedThere
  <2>. QED BY <2>2, <2>3 DEF Inv, Books
<1>. QED BY <1>1, Safe, HistoryIsFaithful, PTL
===============================================================================
