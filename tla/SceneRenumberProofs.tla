-------------------------- MODULE SceneRenumberProofs --------------------------
(***************************************************************************)
(* The numbers of the scenes of a script, whatever was locked, inserted,   *)
(* moved, deleted or imported before, for scripts of any length and        *)
(* numbers of any depth.  What Renumber and Numbered compute is shown by   *)
(* induction over the headings.                                            *)
(***************************************************************************)
EXTENDS SceneTrackerProofs, SceneNumbersProofs, FiniteSetTheorems

NumberedHeading == {h \in Heading : h.num = NoNumber \/ IsNumber(h.num)}

Docs(n) == [1 .. n -> NumberedHeading]

\* Up to its k-th heading, doc has numbers that rise ...
RisesTo(doc, k) ==
  /\ \A i \in 1 .. k : IsNumber(doc[i].num)
  /\ \A i \in 2 .. k : Before(doc[i - 1].num, doc[i].num)

\* ... and that count up by one.
Counts(left, right) ==
  right[1] = left[1] + (IF Len(right) = 1 THEN 1 ELSE 0)

CountsTo(doc, k) ==
  /\ k >= 1 => doc[1].num = <<1>>
  /\ \A i \in 2 .. k : Counts(doc[i - 1].num, doc[i].num)

\* The numbers of one document are those of another, or new ones of one level.
Plain(new, old, k) == \A j \in 1 .. k : Len(new[j].num) = 1 \/ new[j].num = old[j].num

-----------------------------------------------------------------------------
LEMMA DocsAre ==
  ASSUME NEW doc \in Seq(NumberedHeading)
  PROVE  /\ Len(doc) \in Nat /\ DOMAIN doc = 1 .. Len(doc) /\ doc \in Docs(Len(doc))
         /\ \A i \in 1 .. Len(doc) :
              /\ doc[i] \in NumberedHeading /\ doc[i].num \in Seq(Nat)
              /\ doc[i].num = NoNumber \/ IsNumber(doc[i].num)
BY DEF Docs, NumberedHeading, Heading

LEMMA DocsFrom ==
  ASSUME NEW n \in Nat, NEW doc \in Docs(n)
  PROVE  /\ doc \in Seq(NumberedHeading) /\ Len(doc) = n /\ DOMAIN doc = 1 .. n
         /\ \A i \in 1 .. n :
              /\ doc[i] \in NumberedHeading /\ doc[i].num \in Seq(Nat)
              /\ doc[i].num = NoNumber \/ IsNumber(doc[i].num)
BY DEF Docs, NumberedHeading, Heading

LEMMA RenumberedHeading ==
  ASSUME NEW h \in NumberedHeading, NEW n \in Seq(Nat), IsNumber(n)
  PROVE  LET g == [h EXCEPT !.num = n]
         IN /\ g \in NumberedHeading /\ g.num = n
            /\ g.id = h.id /\ g.text = h.text /\ g.locked = h.locked
BY DEF NumberedHeading, Heading

WithNumber(doc, j, n) == [doc EXCEPT ![j].num = n]

LEMMA RenumberedDoc ==
  ASSUME NEW k \in Nat, NEW doc \in Docs(k), NEW j \in 1 .. k, NEW n \in Seq(Nat), IsNumber(n)
  PROVE  /\ WithNumber(doc, j, n) \in Docs(k)
         /\ WithNumber(doc, j, n)[j].num = n
         /\ \A i \in 1 .. k : i # j => WithNumber(doc, j, n)[i] = doc[i]
<1> DEFINE new == [doc EXCEPT ![j].num = n]
<1>1. DOMAIN doc = 1 .. k /\ doc[j] \in NumberedHeading
  BY DEF Docs
<1>2. new[j] = [doc[j] EXCEPT !.num = n]
  BY <1>1
<1>3. new[j] \in NumberedHeading /\ new[j].num = n
  BY <1>1, <1>2, RenumberedHeading
<1>4. /\ new = [i \in 1 .. k |-> new[i]]
      /\ \A i \in 1 .. k : i # j => new[i] = doc[i]
  BY <1>1
<1> HIDE DEF new
<1>5. \A i \in 1 .. k : new[i] \in NumberedHeading
  BY <1>3, <1>4 DEF Docs
<1>6. new \in Docs(k)
  BY <1>4, <1>5 DEF Docs
<1> QED
  BY <1>3, <1>4, <1>6 DEF new, WithNumber

LEMMA PriorIsLast ==
  ASSUME NEW k \in Nat, NEW doc \in Docs(k), NEW j \in 1 .. k
  PROVE  LET p == PriorNumber(doc, j)
         IN /\ p \in Seq(Nat) /\ (p = NoNumber \/ IsNumber(p))
            /\ j = 1 => p = NoNumber
            /\ j > 1 /\ doc[j - 1].num # NoNumber => p = doc[j - 1].num
<1> DEFINE I == {i \in 1 .. j - 1 : doc[i].num # NoNumber}
           p == PriorNumber(doc, j)
<1>1. /\ I \subseteq 1 .. k
      /\ \A i \in 1 .. k : doc[i].num \in Seq(Nat) /\ (doc[i].num = NoNumber \/ IsNumber(doc[i].num))
  BY DocsFrom
<1>2. p = IF (IF I # {} THEN Max(I) ELSE 0) = 0 THEN NoNumber
          ELSE doc[IF I # {} THEN Max(I) ELSE 0].num
  BY DEF PriorNumber, SelectLastInSubSeq
<1>3. NoNumber \in Seq(Nat)
  BY DEF NoNumber
<1>4. CASE I = {}
  <2>1. p = NoNumber
    BY <1>2, <1>4
  <2>2. ~(j > 1 /\ doc[j - 1].num # NoNumber)
    BY <1>4
  <2> QED
    BY <1>3, <2>1, <2>2
<1>5. CASE I # {}
  <2>1. Max(I) \in I /\ \A y \in I : y <= Max(I)
    <3> HIDE DEF I
    <3> QED
      BY <1>1, <1>5, GreatestOf
  <2>2. p = doc[Max(I)].num
    BY <1>2, <1>5, <2>1
  <2>3. j # 1
    BY <1>5
  <2>4. j > 1 /\ doc[j - 1].num # NoNumber => Max(I) = j - 1
    <3> SUFFICES ASSUME j > 1, doc[j - 1].num # NoNumber PROVE Max(I) = j - 1
      OBVIOUS
    <3>1. j - 1 \in I
      OBVIOUS
    <3>2. j - 1 <= Max(I) /\ Max(I) \in 1 .. j - 1
      BY <2>1, <3>1
    <3> QED
      BY <3>2
  <2>5. Max(I) \in 1 .. k
    BY <1>1, <2>1
  <2> HIDE DEF I, p
  <2> QED
    BY <1>1, <2>2, <2>3, <2>4, <2>5 DEF p
<1> QED
  BY <1>4, <1>5

(***************************************************************************)
(* AssignDefaultSceneNumber: the number found comes after the prior one;   *)
(* while numbers are not locked it is the next of one level.               *)
(***************************************************************************)
LEMMA AssignedIsAfter ==
  ASSUME NEW k \in Nat, NEW doc \in Docs(k), NEW j \in 1 .. k, NEW locked \in BOOLEAN
  PROVE  LET a == AssignedNumber(doc, j, locked)
         IN /\ a.number \in Seq(Nat) /\ IsNumber(a.number) /\ a.propagate \in BOOLEAN
            /\ j > 1 /\ doc[j - 1].num # NoNumber => Before(doc[j - 1].num, a.number)
            /\ ~locked /\ j = 1 => a = Between(<<1>>)
            /\ ~locked /\ j > 1 /\ doc[j - 1].num # NoNumber =>
                 a = Between(<<doc[j - 1].num[1] + 1>>)
            /\ ~locked => Len(a.number) = 1 /\ ~a.propagate
<1> DEFINE I == {i \in j + 1 .. Len(doc) : doc[i].num # NoNumber /\ locked /\ doc[i].locked}
           next == IF I # {} THEN Min(I) ELSE 0
           right == IF next = 0 THEN NoNumber ELSE doc[next].num
           left == PriorNumber(doc, j)
           a == AssignedNumber(doc, j, locked)
<1>1. a = NumberBetweenNumbers(left, right)
  BY DEF AssignedNumber, SelectInSubSeq
<1>2. /\ left \in Seq(Nat) /\ (left = NoNumber \/ IsNumber(left))
      /\ j = 1 => left = NoNumber
      /\ j > 1 /\ doc[j - 1].num # NoNumber => left = doc[j - 1].num
  BY PriorIsLast
<1>3. /\ Len(doc) = k
      /\ \A i \in 1 .. k : doc[i].num \in Seq(Nat) /\ (doc[i].num = NoNumber \/ IsNumber(doc[i].num))
  BY DocsFrom
<1>4. right \in Seq(Nat) /\ (right = NoNumber \/ IsNumber(right))
  <2>1. CASE I = {}
    BY <2>1 DEF NoNumber
  <2>2. CASE I # {}
    <3>1. I \subseteq Nat /\ I \subseteq 1 .. k
      BY <1>3
    <3>2. Min(I) \in I
      <4> HIDE DEF I
      <4>1. PICK x \in I : \A y \in I : x <= y
        BY <2>2, <3>1, LeastOf
      <4> QED
        BY <4>1 DEF Min
    <3>3. next \in 1 .. k /\ right = doc[next].num
      <4>1. next = Min(I) /\ next \in 1 .. k
        <5> HIDE DEF I
        <5> QED
          BY <2>2, <3>1, <3>2
      <4> HIDE DEF next
      <4> QED
        BY <4>1
    <3> HIDE DEF I, next, right
    <3> QED
      BY <1>3, <3>3
  <2> QED
    BY <2>1, <2>2
<1>5. ~locked => right = NoNumber
  OBVIOUS
<1> HIDE DEF left, right, a
<1>6. /\ a.number \in Seq(Nat) /\ IsNumber(a.number) /\ a.propagate \in BOOLEAN
      /\ left # NoNumber => Before(left, a.number)
  BY <1>1, <1>2, <1>4, FoundNumberIsAfter
<1>7. ~locked => a = Between(<<IF left = NoNumber THEN 1 ELSE left[1] + 1>>)
  BY <1>1, <1>5 DEF NumberBetweenNumbers
<1>8. ~locked => Len(a.number) = 1 /\ ~a.propagate
  BY <1>7 DEF Between
<1> QED
  BY <1>2, <1>6, <1>7, <1>8 DEF a

(***************************************************************************)
(* Renumber: heading i gets its number, those before it keep theirs; when  *)
(* nothing propagates, so do those after it.                               *)
(***************************************************************************)
LEMMA RenumberFromThere ==
  ASSUME NEW k \in Nat, NEW doc \in Docs(k), NEW i \in 1 .. k, NEW locked \in BOOLEAN
  PROVE  LET r == Renumber(doc, i, locked)
             a == AssignedNumber(doc, i, locked)
         IN /\ r \in Docs(k)
            /\ \A j \in 1 .. i - 1 : r[j] = doc[j]
            /\ r[i].num = a.number
            /\ ~a.propagate => \A j \in 1 .. k : j # i => r[j] = doc[j]
<1> DEFINE Assign(d, j) == LET n == AssignedNumber(d, j, locked)
                           IN [doc |-> [d EXCEPT ![j].num = n.number], more |-> n.propagate]
           Step(r, j) == IF r.more THEN Assign(r.doc, j) ELSE r
           IsUp(f) == f = [j \in i .. Len(doc) |->
                             IF j = i THEN Assign(doc, i)
                             ELSE LET r == f[j - 1] IN IF r.more THEN Assign(r.doc, j) ELSE r]
           up == CHOOSE f : IsUp(f)
           D == [doc : Docs(k), more : BOOLEAN]
           a == AssignedNumber(doc, i, locked)
<1>1. Renumber(doc, i, locked) = up[Len(doc)].doc
  BY DEF Renumber
<1>2. Len(doc) = k
  BY DocsFrom
<1>3. ASSUME NEW d \in Docs(k), NEW j \in 1 .. k
      PROVE  /\ Assign(d, j) \in D
             /\ Assign(d, j).doc[j].num = AssignedNumber(d, j, locked).number
             /\ Assign(d, j).more = AssignedNumber(d, j, locked).propagate
             /\ \A m \in 1 .. k : m # j => Assign(d, j).doc[m] = d[m]
  <2> DEFINE n == AssignedNumber(d, j, locked)
             new == WithNumber(d, j, n.number)
  <2>1. n.number \in Seq(Nat) /\ IsNumber(n.number) /\ n.propagate \in BOOLEAN
    BY AssignedIsAfter
  <2>2. Assign(d, j) = [doc |-> new, more |-> n.propagate]
    BY DEF WithNumber
  <2> HIDE DEF Assign, n
  <2>3. new \in Docs(k) /\ new[j].num = n.number /\ \A m \in 1 .. k : m # j => new[m] = d[m]
    BY <2>1, RenumberedDoc
  <2> HIDE DEF new
  <2> QED
    BY <2>1, <2>2, <2>3 DEF n
<1> HIDE DEF Assign
<1>4. ASSUME NEW r \in D, NEW j \in 1 .. k
      PROVE  Step(r, j) \in D
  BY <1>3
<1>5. \E f : IsUp(f)
  <2> DEFINE g == [j \in i .. k |-> [r \in D |-> Step(r, j)]]
  <2>1. ASSUME NEW j \in i .. k
        PROVE  [r \in D |-> Step(r, j)] \in [D -> D]
    <3>1. j \in 1 .. k
      OBVIOUS
    <3> HIDE DEF Step, D
    <3> QED
      BY <1>4, <3>1
  <2>2. \A j \in i + 1 .. k : g[j] \in [D -> D]
    <3> HIDE DEF Step, D
    <3> QED
      BY <2>1
  <2>3. Assign(doc, i) \in D
    BY <1>3
  <2>4. \A j \in i .. k, r \in D : g[j][r] = Step(r, j)
    OBVIOUS
  <2> HIDE DEF g, D
  <2>a. i \in Int /\ k \in Int /\ i <= k
    OBVIOUS
  <2>b. PICK f : IsStepwise(f, i, k, D, Assign(doc, i), g)
    BY <2>2, <2>3, <2>a, StepwiseExists
  <2>5. /\ f \in [i .. k -> D] /\ f[i] = Assign(doc, i)
        /\ \A j \in i + 1 .. k : f[j] = g[j][f[j - 1]]
    BY <2>b DEF IsStepwise
  <2>6. ASSUME NEW j \in i .. k
        PROVE  f[j] = IF j = i THEN Assign(doc, i)
                      ELSE LET r == f[j - 1] IN IF r.more THEN Assign(r.doc, j) ELSE r
    <3>1. CASE j = i
      BY <2>5, <3>1
    <3>2. CASE j # i
      <4>1. j \in i + 1 .. k /\ j - 1 \in i .. k
        BY <3>2
      <4>2. f[j] = Step(f[j - 1], j)
        BY <2>4, <2>5, <4>1
      <4> QED
        BY <3>2, <4>2
    <3> QED
      BY <3>1, <3>2
  <2>7. IsUp(f)
    <3>1. f = [j \in i .. k |-> f[j]]
      BY <2>5
    <3>2. f = [j \in i .. k |-> IF j = i THEN Assign(doc, i)
                      ELSE LET r == f[j - 1] IN IF r.more THEN Assign(r.doc, j) ELSE r]
      BY <2>6, <3>1
    <3> QED
      BY <1>2, <3>2
  <2> QED
    BY <2>7
<1>6. IsUp(up)
  <2> HIDE DEF IsUp
  <2> QED
    BY <1>5
<1>7. /\ up[i] = Assign(doc, i)
      /\ \A j \in i + 1 .. k : up[j] = Step(up[j - 1], j)
  <2> HIDE DEF up
  <2> QED
    BY <1>2, <1>6
<1> HIDE DEF IsUp, up
<1> DEFINE Good(r) == /\ r \in D
                      /\ \A j \in 1 .. i - 1 : r.doc[j] = doc[j]
                      /\ r.doc[i].num = a.number
                      /\ ~a.propagate => r = Assign(doc, i)
           S == {j \in i .. k : Good(up[j])}
<1>8. i \in S
  BY <1>3, <1>7
<1>9. ASSUME NEW j \in i .. k - 1, j \in S
      PROVE  j + 1 \in S
  <2>1. j + 1 \in i + 1 .. k /\ j + 1 \in 1 .. k /\ j + 1 \in i .. k
    OBVIOUS
  <2>2. up[j + 1] = Step(up[j], j + 1)
    BY <1>7, <2>1
  <2>3. Good(up[j])
    BY <1>9
  <2> DEFINE r == up[j]
  <2>4. CASE r.more
    <3>1. up[j + 1] = Assign(r.doc, j + 1)
      BY <2>2, <2>4
    <3>2. r.doc \in Docs(k)
      BY <2>3
    <3>3. /\ Assign(r.doc, j + 1) \in D
          /\ \A m \in 1 .. k : m # j + 1 => Assign(r.doc, j + 1).doc[m] = r.doc[m]
      BY <1>3, <2>1, <3>2
    <3>4. a.propagate
      BY <1>3, <2>3, <2>4
    <3>5. \A m \in 1 .. i : m \in 1 .. k /\ m # j + 1
      BY <2>1
    <3> HIDE DEF r, a, D
    <3> QED
      BY <2>1, <2>3, <3>1, <3>3, <3>4, <3>5 DEF r
  <2>5. CASE ~r.more
    <3>1. up[j + 1] = up[j]
      BY <2>2, <2>5
    <3> QED
      BY <2>1, <2>3, <3>1
  <2> QED
    BY <2>4, <2>5
<1>10. Good(up[k])
  <2>1. i .. k \subseteq S
    <3> HIDE DEF S
    <3> QED
      BY <1>8, <1>9, IntervalInduction
  <2> QED
    BY <2>1
<1>11. Renumber(doc, i, locked) = up[k].doc
  BY <1>1, <1>2
<1>12. ~a.propagate => \A j \in 1 .. k : j # i => up[k].doc[j] = doc[j]
  <2>1. \A j \in 1 .. k : j # i => Assign(doc, i).doc[j] = doc[j]
    BY <1>3
  <2>2. ~a.propagate => up[k] = Assign(doc, i)
    BY <1>10
  <2> HIDE DEF a
  <2> QED
    BY <2>1, <2>2
<1> QED
  BY <1>10, <1>11, <1>12

LEMMA CountsOne ==
  ASSUME NEW left \in Seq(Nat), IsNumber(left)
  PROVE  Counts(left, <<left[1] + 1>>)
BY DEF Counts

\* A number that Update() leaves as it is counts up by one.
LEMMA SeamlessCounts ==
  ASSUME NEW left \in Seq(Nat), NEW right \in Seq(Nat), IsNumber(left), IsNumber(right),
         NumbersAreSeamless(left, right)
  PROVE  Counts(left, right)
<1> DEFINE s == SharedDepth(left, right)
<1>1. Len(left) \in Nat \ {0} /\ Len(right) \in Nat \ {0} /\ left[1] \in Nat
  BY DepthAssumption DEF IsNumber
<1>2. /\ s \in Nat /\ s >= 1
      /\ Len(left) >= Len(right) => s = Len(right)
      /\ Len(left) < Len(right) => s = Len(left)
  BY <1>1 DEF SharedDepth
<1>3. /\ \A i \in 1 .. s - 1 : left[i] = right[i]
      /\ Len(left) >= Len(right) => right[s] = left[s] + 1
      /\ Len(left) < Len(right) => right[s] = left[s]
  BY <1>1 DEF NumbersAreSeamless
<1> HIDE DEF s
<1>4. CASE s = 1
  BY <1>1, <1>2, <1>3, <1>4 DEF Counts
<1>5. CASE s > 1
  <2>1. left[1] = right[1] /\ Len(right) # 1
    BY <1>1, <1>2, <1>3, <1>5
  <2> QED
    BY <1>1, <2>1 DEF Counts
<1> QED
  BY <1>2, <1>4, <1>5

(***************************************************************************)
(* One turn of the loop of Update(): the numbers that rose before heading  *)
(* i rise up to it.                                                        *)
(***************************************************************************)
Turn(d, i, new, locked) ==
  IF NeedsNumber(d, i, i \in new) THEN Renumber(d, i, locked) ELSE d

LEMMA TurnGoesOn ==
  ASSUME NEW k \in Nat, NEW d \in Docs(k), NEW i \in 1 .. k, NEW new, NEW locked \in BOOLEAN,
         RisesTo(d, i - 1), ~locked => CountsTo(d, i - 1)
  PROVE  LET r == Turn(d, i, new, locked)
         IN /\ r \in Docs(k)
            /\ \A j \in 1 .. i - 1 : r[j] = d[j]
            /\ RisesTo(r, i)
            /\ ~locked => CountsTo(r, i)
<1> DEFINE r == Turn(d, i, new, locked)
           a == AssignedNumber(d, i, locked)
<1>1. \A j \in 1 .. k : d[j].num \in Seq(Nat) /\ (d[j].num = NoNumber \/ IsNumber(d[j].num))
  BY DocsFrom
<1>2. i > 1 => d[i - 1].num # NoNumber /\ IsNumber(d[i - 1].num) /\ d[i - 1].num \in Seq(Nat)
  BY <1>1 DEF RisesTo, IsNumber, NoNumber
<1>3. /\ r \in Docs(k)
      /\ \A j \in 1 .. i - 1 : r[j] = d[j]
      /\ IsNumber(r[i].num)
      /\ i > 1 => Before(d[i - 1].num, r[i].num)
      /\ ~locked /\ i = 1 => r[i].num = <<1>>
      /\ ~locked /\ i > 1 => Counts(d[i - 1].num, r[i].num)
  <2>1. CASE NeedsNumber(d, i, i \in new)
    <3>1. r = Renumber(d, i, locked)
      BY <2>1 DEF Turn
    <3>2. r \in Docs(k) /\ (\A j \in 1 .. i - 1 : r[j] = d[j]) /\ r[i].num = a.number
      BY <3>1, RenumberFromThere
    <3>3. /\ a.number \in Seq(Nat) /\ IsNumber(a.number)
          /\ i > 1 => Before(d[i - 1].num, a.number)
          /\ ~locked /\ i = 1 => a = Between(<<1>>)
          /\ ~locked /\ i > 1 => a = Between(<<d[i - 1].num[1] + 1>>)
      BY <1>2, AssignedIsAfter
    <3>4. /\ ~locked /\ i = 1 => a.number = <<1>>
          /\ ~locked /\ i > 1 => a.number = <<d[i - 1].num[1] + 1>>
      <4> HIDE DEF a
      <4> QED
        BY <3>3 DEF Between
    <3> HIDE DEF a, r
    <3> QED
      BY <1>2, <3>2, <3>3, <3>4, CountsOne
  <2>2. CASE ~NeedsNumber(d, i, i \in new)
    <3>1. r = d
      BY <2>2 DEF Turn
    <3>2. /\ d[i].num # NoNumber
          /\ i = 1 => d[i].num = <<1>>
          /\ i > 1 => NumbersAreSeamless(d[i - 1].num, d[i].num)
      BY <1>2, <2>2 DEF NeedsNumber
    <3>3. IsNumber(d[i].num) /\ d[i].num \in Seq(Nat)
      BY <1>1, <3>2
    <3>4. i > 1 => Before(d[i - 1].num, d[i].num) /\ Counts(d[i - 1].num, d[i].num)
      BY <1>2, <3>2, <3>3, SeamlessIncreases, SeamlessCounts
    <3> HIDE DEF r
    <3> QED
      BY <3>1, <3>2, <3>3, <3>4
  <2> QED
    BY <2>1, <2>2
<1> HIDE DEF r
<1>4. \A j \in 1 .. i : j = i \/ j \in 1 .. i - 1
  OBVIOUS
<1>5. \A j \in 2 .. i : (j = i /\ i > 1) \/ (j \in 2 .. i - 1 /\ j \in 1 .. i - 1)
  OBVIOUS
<1>6. \A j \in 2 .. i : j - 1 \in 1 .. i - 1
  OBVIOUS
<1>7. \A j \in 1 .. i : IsNumber(r[j].num)
  BY <1>3, <1>4 DEF RisesTo
<1>8. \A j \in 2 .. i : Before(r[j - 1].num, r[j].num)
  <2> SUFFICES ASSUME NEW j \in 2 .. i PROVE Before(r[j - 1].num, r[j].num)
    OBVIOUS
  <2>1. r[j - 1] = d[j - 1]
    BY <1>3, <1>6
  <2>2. CASE j = i /\ i > 1
    BY <1>3, <2>1, <2>2
  <2>3. CASE j \in 2 .. i - 1 /\ j \in 1 .. i - 1
    BY <1>3, <2>1, <2>3 DEF RisesTo
  <2> QED
    BY <1>5, <2>2, <2>3
<1>9. ASSUME ~locked
      PROVE  CountsTo(r, i)
  <2>1. r[1].num = <<1>>
    <3>1. CASE i = 1
      BY <1>3, <1>9, <3>1
    <3>2. CASE i > 1
      <4>1. 1 \in 1 .. i - 1 /\ i - 1 >= 1
        BY <3>2
      <4> QED
        BY <1>3, <1>9, <4>1 DEF CountsTo
    <3> QED
      BY <3>1, <3>2
  <2>2. ASSUME NEW j \in 2 .. i
        PROVE  Counts(r[j - 1].num, r[j].num)
    <3>1. r[j - 1] = d[j - 1]
      BY <1>3, <1>6
    <3>2. CASE j = i /\ i > 1
      BY <1>3, <1>9, <3>1, <3>2
    <3>3. CASE j \in 2 .. i - 1 /\ j \in 1 .. i - 1
      BY <1>3, <1>9, <3>1, <3>3 DEF CountsTo
    <3> QED
      BY <1>5, <3>2, <3>3
  <2> QED
    BY <2>1, <2>2 DEF CountsTo
<1>10. RisesTo(r, i)
  BY <1>7, <1>8 DEF RisesTo
<1> QED
  BY <1>3, <1>9, <1>10 DEF r

LEMMA TurnIsPlain ==
  ASSUME NEW k \in Nat, NEW d \in Docs(k), NEW i \in 1 .. k, NEW new, NEW locked \in BOOLEAN,
         ~locked
  PROVE  Plain(Turn(d, i, new, locked), d, k)
<1> DEFINE r == Turn(d, i, new, locked)
           a == AssignedNumber(d, i, locked)
<1>1. CASE NeedsNumber(d, i, i \in new)
  <2>1. r = Renumber(d, i, locked)
    BY <1>1 DEF Turn
  <2>2. Len(a.number) = 1 /\ ~a.propagate
    BY AssignedIsAfter
  <2>3. r[i].num = a.number /\ \A j \in 1 .. k : j # i => r[j] = d[j]
    BY <2>1, <2>2, RenumberFromThere
  <2> HIDE DEF r, a
  <2>4. Plain(r, d, k)
    BY <2>2, <2>3 DEF Plain
  <2> QED
    BY <2>4 DEF r
<1>2. CASE ~NeedsNumber(d, i, i \in new)
  <2>1. r = d
    BY <1>2 DEF Turn
  <2> HIDE DEF r
  <2>2. Plain(r, d, k)
    BY <2>1 DEF Plain
  <2> QED
    BY <2>2 DEF r
<1> QED
  BY <1>1, <1>2

(***************************************************************************)
(* The numbering part of Update(), whatever the document was: the numbers  *)
(* rise, and count up while they are not locked.  The headings up to the   *)
(* first that needs a number keep theirs.                                  *)
(***************************************************************************)
LEMMA NumberedRises ==
  ASSUME NEW k \in Nat, NEW doc \in Docs(k), NEW new, NEW locked \in BOOLEAN
  PROVE  LET r == Numbered(doc, new, locked)
         IN /\ r \in Docs(k)
            /\ RisesTo(r, k)
            /\ ~locked => CountsTo(r, k) /\ Plain(r, doc, k)
            /\ \A m \in 0 .. k :
                 (\A i \in 1 .. m : ~NeedsNumber(doc, i, i \in new)) =>
                   \A j \in 1 .. m : r[j] = doc[j]
<1> DEFINE IsUp(f) == f = [i \in 0 .. Len(doc) |->
                             IF i = 0 THEN doc
                             ELSE LET d == f[i - 1]
                                  IN IF NeedsNumber(d, i, i \in new)
                                     THEN Renumber(d, i, locked) ELSE d]
           up == CHOOSE f : IsUp(f)
           Still(m) == \A i \in 1 .. m : ~NeedsNumber(doc, i, i \in new)
<1>1. Numbered(doc, new, locked) = up[Len(doc)]
  BY DEF Numbered
<1>2. Len(doc) = k
  BY DocsFrom
<1>3. ASSUME NEW d \in Docs(k), NEW i \in 1 .. k
      PROVE  Turn(d, i, new, locked) \in Docs(k)
  BY <1>3, RenumberFromThere DEF Turn
<1>4. \E f : IsUp(f)
  <2> DEFINE g == [i \in 0 .. k |-> [d \in Docs(k) |-> Turn(d, i, new, locked)]]
  <2>1. \A i \in 0 + 1 .. k : g[i] \in [Docs(k) -> Docs(k)]
    <3> SUFFICES ASSUME NEW i \in 0 + 1 .. k PROVE g[i] \in [Docs(k) -> Docs(k)]
      OBVIOUS
    <3>1. i \in 1 .. k /\ i \in 0 .. k
      OBVIOUS
    <3>2. g[i] = [d \in Docs(k) |-> Turn(d, i, new, locked)]
      BY <3>1
    <3>3. \A d \in Docs(k) : Turn(d, i, new, locked) \in Docs(k)
      BY <1>3, <3>1
    <3> QED
      BY <3>2, <3>3
  <2>2. \A i \in 0 .. k, d \in Docs(k) : g[i][d] = Turn(d, i, new, locked)
    OBVIOUS
  <2> HIDE DEF g
  <2>3. 0 \in Int /\ k \in Int /\ 0 <= k
    OBVIOUS
  <2>4. PICK f : IsStepwise(f, 0, k, Docs(k), doc, g)
    BY <2>1, <2>3, StepwiseExists
  <2>5. /\ f \in [0 .. k -> Docs(k)] /\ f[0] = doc
        /\ \A i \in 0 + 1 .. k : f[i] = g[i][f[i - 1]]
    BY <2>4 DEF IsStepwise
  <2>6. ASSUME NEW i \in 0 .. k
        PROVE  f[i] = IF i = 0 THEN doc
                      ELSE LET d == f[i - 1]
                           IN IF NeedsNumber(d, i, i \in new) THEN Renumber(d, i, locked) ELSE d
    <3>1. CASE i = 0
      BY <2>5, <3>1
    <3>2. CASE i # 0
      <4>1. i \in 0 + 1 .. k /\ i - 1 \in 0 .. k
        BY <3>2
      <4>2. f[i] = Turn(f[i - 1], i, new, locked)
        BY <2>2, <2>5, <4>1
      <4> QED
        BY <3>2, <4>2 DEF Turn
    <3> QED
      BY <3>1, <3>2
  <2>7. IsUp(f)
    <3>1. f = [i \in 0 .. k |-> f[i]]
      BY <2>5
    <3>2. f = [i \in 0 .. k |->
                 IF i = 0 THEN doc
                 ELSE LET d == f[i - 1]
                      IN IF NeedsNumber(d, i, i \in new) THEN Renumber(d, i, locked) ELSE d]
      BY <2>6, <3>1
    <3> QED
      BY <1>2, <3>2
  <2> QED
    BY <2>7
<1>5. IsUp(up)
  <2> HIDE DEF IsUp
  <2> QED
    BY <1>4
<1>6. up[0] = doc /\ \A i \in 1 .. k : up[i] = Turn(up[i - 1], i, new, locked)
  <2> HIDE DEF up
  <2>1. up[0] = doc
    BY <1>2, <1>5
  <2>2. \A i \in 1 .. k : up[i] = Turn(up[i - 1], i, new, locked)
    BY <1>2, <1>5 DEF Turn
  <2> QED
    BY <2>1, <2>2
<1> HIDE DEF IsUp, up
<1> DEFINE Good(d, i) == /\ d \in Docs(k) /\ RisesTo(d, i) /\ (~locked => CountsTo(d, i))
                         /\ (~locked => Plain(d, doc, k))
                         /\ Still(i) => d = doc
                         /\ \A m \in 0 .. i : Still(m) => \A j \in 1 .. m : d[j] = doc[j]
           S == {i \in 0 .. k : Good(up[i], i)}
<1>7. 0 \in S
  <2>1. RisesTo(doc, 0) /\ CountsTo(doc, 0) /\ Plain(doc, doc, k)
    BY DEF RisesTo, CountsTo, Plain
  <2> QED
    BY <1>6, <2>1
<1>8. ASSUME NEW i \in 0 .. k - 1, i \in S
      PROVE  i + 1 \in S
  <2> DEFINE d == up[i]
             r == up[i + 1]
  <2>1. i + 1 \in 1 .. k /\ i + 1 \in 0 .. k /\ (i + 1) - 1 = i /\ i \in Nat
    OBVIOUS
  <2>2. Good(d, i)
    BY <1>8
  <2>3. r = Turn(d, i + 1, new, locked)
    BY <1>6, <2>1
  <2> HIDE DEF d, r
  <2>4. /\ r \in Docs(k) /\ RisesTo(r, i + 1) /\ (~locked => CountsTo(r, i + 1))
        /\ \A j \in 1 .. i : r[j] = d[j]
    BY <2>1, <2>2, <2>3, TurnGoesOn
  <2>a. ~locked => Plain(r, doc, k)
    <3> SUFFICES ASSUME ~locked PROVE Plain(r, doc, k)
      OBVIOUS
    <3>1. Plain(r, d, k)
      BY <2>1, <2>2, <2>3, TurnIsPlain
    <3>2. Plain(d, doc, k)
      BY <2>2
    <3> QED
      BY <3>1, <3>2 DEF Plain
  <2>5. Still(i + 1) => r = doc
    <3> SUFFICES ASSUME Still(i + 1) PROVE r = doc
      OBVIOUS
    <3>1. Still(i) /\ ~NeedsNumber(doc, i + 1, i + 1 \in new)
      BY <2>1
    <3> HIDE DEF Still
    <3>2. d = doc
      BY <2>2, <3>1
    <3> QED
      BY <2>3, <3>1, <3>2 DEF Turn
  <2>6. ASSUME NEW m \in 0 .. i + 1, Still(m), NEW j \in 1 .. m
        PROVE  r[j] = doc[j]
    <3>1. CASE m = i + 1
      <4> HIDE DEF Still
      <4> QED
        BY <2>5, <2>6, <3>1
    <3>2. CASE m # i + 1
      <4>1. m \in 0 .. i /\ j \in 1 .. i
        BY <2>1, <3>2
      <4> HIDE DEF Still
      <4> QED
        BY <2>2, <2>4, <2>6, <4>1
    <3> QED
      BY <3>1, <3>2
  <2> HIDE DEF Still
  <2>7. Good(r, i + 1)
    BY <2>4, <2>5, <2>6, <2>a
  <2> HIDE DEF Good
  <2> QED
    BY <2>1, <2>7 DEF r
<1>9. Good(up[k], k)
  <2>1. 0 .. k \subseteq S
    <3> HIDE DEF S
    <3> QED
      BY <1>7, <1>8, IntervalInduction
  <2> QED
    BY <2>1
<1> HIDE DEF Still
<1>10. Numbered(doc, new, locked) = up[k]
  BY <1>1, <1>2
<1> QED
  BY <1>9, <1>10 DEF Still
-----------------------------------------------------------------------------
SceneMap == [DOMAIN scenes -> Scene]

\* What the loop of HandleInsertedEvent() keeps between two headings.
Pass(k) == [doc : Docs(k), scenes : SceneMap, more : BOOLEAN, failed : BOOLEAN]

LEMMA InsertedNumbers ==
  ASSUME NEW k \in Nat, NEW doc \in Docs(k), NEW i \in 1 .. k, NEW locked \in BOOLEAN,
         scenes \in SceneMap
  PROVE  LET r == InsertedScript(doc, i, locked)
             a == AssignedNumber(doc, i, locked)
         IN /\ r \in Pass(k)
            /\ doc[i].id \notin DOMAIN scenes \/ ~a.propagate =>
                 /\ r.failed = (doc[i].id \notin DOMAIN scenes)
                 /\ r.doc[i].num = a.number
                 /\ \A j \in 1 .. k : j # i => r.doc[j] = doc[j]
<1> DEFINE Known(j) == doc[j].id \in DOMAIN scenes
           Assign(r, j) ==
             LET n == AssignedNumber(r.doc, j, locked)
             IN [doc |-> [r.doc EXCEPT ![j].num = n.number],
                 scenes |-> IF Known(j) THEN [r.scenes EXCEPT ![doc[j].id].ord = n.number]
                            ELSE r.scenes,
                 more |-> Known(j) /\ n.propagate,
                 failed |-> ~Known(j)]
           Start == [doc |-> doc, scenes |-> scenes]
           Step(r, j) == IF r.more THEN Assign(r, j) ELSE r
           IsUp(f) == f = [j \in i .. Len(doc) |->
                             IF j = i THEN Assign(Start, i)
                             ELSE LET r == f[j - 1] IN IF r.more THEN Assign(r, j) ELSE r]
           up == CHOOSE f : IsUp(f)
           D == Pass(k)
           a == AssignedNumber(doc, i, locked)
<1>1. InsertedScript(doc, i, locked) = up[Len(doc)]
  BY DEF InsertedScript
<1>2. Len(doc) = k
  BY DocsFrom
<1>3. ASSUME NEW r, r.doc \in Docs(k), r.scenes \in SceneMap, NEW j \in 1 .. k
      PROVE  /\ Assign(r, j) \in D
             /\ Assign(r, j).doc[j].num = AssignedNumber(r.doc, j, locked).number
             /\ Assign(r, j).more = (Known(j) /\ AssignedNumber(r.doc, j, locked).propagate)
             /\ Assign(r, j).failed = ~Known(j)
             /\ \A m \in 1 .. k : m # j => Assign(r, j).doc[m] = r.doc[m]
  <2> DEFINE d == r.doc
             n == AssignedNumber(d, j, locked)
             x == n.number
             new == WithNumber(d, j, x)
             described == IF Known(j) THEN [r.scenes EXCEPT ![doc[j].id].ord = x] ELSE r.scenes
  <2>1. d \in Docs(k) /\ x \in Seq(Nat) /\ IsNumber(x) /\ n.propagate \in BOOLEAN
    BY <1>3, AssignedIsAfter
  <2>2. Assign(r, j) = [doc |-> new, scenes |-> described,
                        more |-> Known(j) /\ n.propagate, failed |-> ~Known(j)]
    BY DEF WithNumber
  <2>3. described \in SceneMap
    <3> HIDE DEF x, Known
    <3>1. CASE ~Known(j)
      BY <1>3, <3>1
    <3>2. CASE Known(j)
      <4>1. doc[j].id \in DOMAIN scenes
        BY <3>2 DEF Known
      <4> DEFINE y == doc[j].id
                 t == r.scenes
      <4>2. t \in [DOMAIN scenes -> Scene] /\ y \in DOMAIN scenes
        BY <1>3, <4>1 DEF SceneMap
      <4> HIDE DEF y, t
      <4>3. [t[y] EXCEPT !.ord = x] \in Scene
        BY <2>1, <4>2 DEF Scene
      <4>4. [t EXCEPT ![y].ord = x] \in [DOMAIN scenes -> Scene]
        BY <4>2, <4>3
      <4> QED
        BY <3>2, <4>4 DEF y, t, SceneMap
    <3> QED
      BY <3>1, <3>2
  <2> HIDE DEF x, d, n
  <2>4. new \in Docs(k) /\ new[j].num = x /\ \A m \in 1 .. k : m # j => new[m] = d[m]
    BY <2>1, RenumberedDoc
  <2> HIDE DEF new, described, Assign, Known
  <2>6. [doc |-> new, scenes |-> described,
         more |-> Known(j) /\ n.propagate, failed |-> ~Known(j)] \in Pass(k)
    BY <2>3, <2>4 DEF Pass
  <2> QED
    BY <2>1, <2>2, <2>4, <2>6 DEF d, n, x
<1> HIDE DEF Assign
<1>4. ASSUME NEW r \in D, NEW j \in 1 .. k
      PROVE  Step(r, j) \in D
  BY <1>3 DEF Pass
<1>5. Assign(Start, i) \in D
  BY <1>3
<1>6. \E f : IsUp(f)
  <2> DEFINE g == [j \in i .. k |-> [r \in D |-> Step(r, j)]]
  <2>1. \A j \in i + 1 .. k : g[j] \in [D -> D]
    <3> SUFFICES ASSUME NEW j \in i + 1 .. k PROVE g[j] \in [D -> D]
      OBVIOUS
    <3>1. j \in 1 .. k /\ j \in i .. k
      OBVIOUS
    <3> HIDE DEF Step, D
    <3>2. g[j] = [r \in D |-> Step(r, j)]
      BY <3>1
    <3>3. \A r \in D : Step(r, j) \in D
      BY <1>4, <3>1
    <3> QED
      BY <3>2, <3>3
  <2>2. \A j \in i .. k, r \in D : g[j][r] = Step(r, j)
    <3> HIDE DEF Step, D
    <3> QED
      OBVIOUS
  <2> HIDE DEF g, D
  <2>3. i \in Int /\ k \in Int /\ i <= k
    OBVIOUS
  <2>4. PICK f : IsStepwise(f, i, k, D, Assign(Start, i), g)
    BY <1>5, <2>1, <2>3, StepwiseExists
  <2>5. /\ f \in [i .. k -> D] /\ f[i] = Assign(Start, i)
        /\ \A j \in i + 1 .. k : f[j] = g[j][f[j - 1]]
    BY <2>4 DEF IsStepwise
  <2> HIDE DEF Start
  <2>6. ASSUME NEW j \in i .. k
        PROVE  f[j] = IF j = i THEN Assign(Start, i)
                      ELSE LET r == f[j - 1] IN IF r.more THEN Assign(r, j) ELSE r
    <3>1. CASE j = i
      BY <2>5, <3>1
    <3>2. CASE j # i
      <4>1. j \in i + 1 .. k /\ j - 1 \in i .. k
        BY <3>2
      <4>2. f[j] = Step(f[j - 1], j)
        BY <2>2, <2>5, <4>1
      <4> QED
        BY <3>2, <4>2
    <3> QED
      BY <3>1, <3>2
  <2>7. IsUp(f)
    <3>1. f = [j \in i .. k |-> f[j]]
      BY <2>5
    <3>2. f = [j \in i .. k |-> IF j = i THEN Assign(Start, i)
                      ELSE LET r == f[j - 1] IN IF r.more THEN Assign(r, j) ELSE r]
      BY <2>6, <3>1
    <3> QED
      BY <1>2, <3>2
  <2> QED
    BY <2>7
<1>7. IsUp(up)
  <2> HIDE DEF IsUp
  <2> QED
    BY <1>6
<1> HIDE DEF Start
<1>8. /\ up[i] = Assign(Start, i)
      /\ \A j \in i + 1 .. k : up[j] = Step(up[j - 1], j)
  <2> HIDE DEF up
  <2> QED
    BY <1>2, <1>7
<1> HIDE DEF IsUp, up
<1> DEFINE Good(r) == r \in D /\ (~Assign(Start, i).more => r = Assign(Start, i))
           S == {j \in i .. k : Good(up[j])}
<1>9. i \in S
  BY <1>5, <1>8
<1>10. ASSUME NEW j \in i .. k - 1, j \in S
       PROVE  j + 1 \in S
  <2>1. j + 1 \in i + 1 .. k /\ j + 1 \in 1 .. k /\ j + 1 \in i .. k /\ (j + 1) - 1 = j
    OBVIOUS
  <2>2. up[j + 1] = Step(up[j], j + 1)
    BY <1>8, <2>1
  <2>3. Good(up[j])
    BY <1>10
  <2>4. up[j + 1] \in D
    <3> HIDE DEF Step, D
    <3> QED
      BY <1>4, <2>1, <2>2, <2>3
  <2> HIDE DEF D
  <2> QED
    BY <2>1, <2>2, <2>3, <2>4
<1>11. Good(up[k])
  <2>1. i .. k \subseteq S
    <3> HIDE DEF S
    <3> QED
      BY <1>9, <1>10, IntervalInduction
  <2> QED
    BY <2>1
<1>12. InsertedScript(doc, i, locked) = up[k]
  BY <1>1, <1>2
<1> DEFINE first == Assign(Start, i)
<1>13. /\ first.doc[i].num = a.number
       /\ first.more = (Known(i) /\ a.propagate)
       /\ first.failed = ~Known(i)
       /\ \A m \in 1 .. k : m # i => first.doc[m] = doc[m]
  <2>1. Start.doc = doc /\ Start.scenes = scenes
    BY DEF Start
  <2> HIDE DEF Known
  <2> QED
    BY <1>3, <2>1
<1> HIDE DEF first, a, D
<1>14. ~Known(i) \/ ~a.propagate => up[k] = first
  BY <1>11, <1>13 DEF first
<1> QED
  BY <1>11, <1>12, <1>13, <1>14 DEF a, D
-----------------------------------------------------------------------------
(***************************************************************************)
(* The inductive invariants.  Types, with numbers no deeper than allowed   *)
(* also in the clipboard; and what the numbers of a script are when the    *)
(* tracker has heard of everything.                                        *)
(***************************************************************************)
Shown ==
  /\ script \in Seq(NumberedHeading) /\ Len(script) <= MaxScenes
  /\ scenes \in SceneMap /\ DOMAIN scenes \subseteq Ids
  /\ list \in Seq(Ids)
  /\ missed \in BOOLEAN

Kept ==
  /\ clip # NoHeading => clip \in NumberedHeading
  /\ headerTimer \in Ids \cup {NoId}
  /\ importing \in {"no", "dialog", "ending"}
  /\ scenesLocked \in BOOLEAN /\ revised \in BOOLEAN
  /\ removeTimer \in BOOLEAN /\ pasteTimer \in BOOLEAN /\ caretIn \in BOOLEAN
  /\ suppressed \in BOOLEAN
  /\ edits \in 0 .. MaxEdits

Numbering ==
  Quiet => /\ RisesTo(script, Len(script))
           /\ ~scenesLocked => CountsTo(script, Len(script))

LEMMA FirstInDoc ==
  ASSUME NEW doc \in Seq(NumberedHeading), NEW id \in IdsOf(doc)
  PROVE  FirstWithId(doc, id) \in NumberedHeading
<1> DEFINE I == {i \in DOMAIN doc : doc[i].id = id}
           P(i) == doc[i].id = id /\ \A j \in 1 .. i - 1 : doc[j].id # id
<1>1. DOMAIN doc = 1 .. Len(doc) /\ Len(doc) \in Nat /\ \A i \in DOMAIN doc : doc[i] \in NumberedHeading
  BY DocsAre
<1>2. I \subseteq Nat /\ I # {}
  BY <1>1 DEF IdsOf
<1>3. PICK i \in I : \A j \in I : i <= j
  <2> HIDE DEF I
  <2> QED
    BY <1>2, LeastOf
<1>4. i \in DOMAIN doc /\ P(i)
  <2> SUFFICES ASSUME NEW j \in 1 .. i - 1 PROVE doc[j].id # id
    OBVIOUS
  <2>1. j \in DOMAIN doc /\ ~(i <= j)
    BY <1>1
  <2> QED
    BY <1>3, <2>1
<1> HIDE DEF P
<1>5. (CHOOSE m \in DOMAIN doc : P(m)) \in DOMAIN doc
  BY <1>4
<1>6. FirstWithId(doc, id) = doc[CHOOSE m \in DOMAIN doc : P(m)]
  BY DEF FirstWithId, P
<1> QED
  BY <1>1, <1>5, <1>6

LEMMA DescribedIsScene ==
  ASSUME NEW h \in NumberedHeading
  PROVE  Describe(h) \in Scene
BY DEF NumberedHeading, Heading, Describe, Scene

LEMMA TitledIsMap ==
  ASSUME NEW doc \in Seq(NumberedHeading), NEW id, scenes \in SceneMap
  PROVE  Titled(doc, id) \in SceneMap
<1>1. CASE id \in IdsOf(doc) \cap DOMAIN scenes
  <2> DEFINE h == FirstWithId(doc, id)
  <2>1. h \in NumberedHeading
    BY <1>1, FirstInDoc
  <2>2. h.text \in Texts
    BY <2>1 DEF NumberedHeading, Heading
  <2>3. Titled(doc, id) = [scenes EXCEPT ![id].title = h.text]
    BY <1>1 DEF Titled
  <2> HIDE DEF h
  <2>4. scenes \in [DOMAIN scenes -> Scene] /\ id \in DOMAIN scenes
    BY <1>1 DEF SceneMap
  <2>5. [scenes[id] EXCEPT !.title = h.text] \in Scene
    BY <2>2, <2>4 DEF Scene
  <2>6. [scenes EXCEPT ![id].title = h.text] \in [DOMAIN scenes -> Scene]
    BY <2>4, <2>5
  <2> QED
    BY <2>3, <2>6 DEF SceneMap
<1>2. CASE id \notin IdsOf(doc) \cap DOMAIN scenes
  BY <1>2 DEF Titled
<1> QED
  BY <1>1, <1>2

LEMMA TitledDomain ==
  ASSUME NEW doc, NEW id
  PROVE  DOMAIN Titled(doc, id) = DOMAIN scenes
BY DEF Titled

LEMMA DocOfTracker ==
  ASSUME NEW doc \in Seq(NumberedHeading)
  PROVE  IsDoc(doc)
<1>1. \A h \in NumberedHeading : IsHeading(h)
  BY DEF NumberedHeading, Heading, IsHeading
<1> QED
  BY <1>1, DocOf

\* Update() of a document with numbers of the allowed depth.
LEMMA UpdateNumbers ==
  ASSUME NEW doc \in Seq(NumberedHeading), NEW locked \in BOOLEAN, UpdateOf(doc, locked),
         scenes \in SceneMap, DOMAIN scenes \subseteq Ids
  PROVE  /\ script' \in Seq(NumberedHeading) /\ Len(script') = Len(doc)
         /\ scenes' \in SceneMap' /\ DOMAIN scenes' \subseteq Ids
         /\ list' \in Seq(Ids) /\ missed' = FALSE
         /\ RisesTo(script', Len(script'))
         /\ ~locked => CountsTo(script', Len(script'))
<1> DEFINE k == Len(doc)
<1>1. k \in Nat /\ DOMAIN doc = 1 .. k /\ doc \in Docs(k) /\ IsDoc(doc)
      /\ \A i \in 1 .. k : doc[i] \in NumberedHeading
  BY DocsAre, DocOfTracker
<1>2. PICK f \in GeneratedIds(doc) :
        /\ script' = UpdatedScript(doc, f, locked)
        /\ scenes' = DescribedScenes(script')
        /\ list' = ListedScenes(script')
        /\ missed' = FALSE
  BY DEF UpdateOf
<1>3. IsDoc(script') /\ Following'
  BY <1>1, UpdateFollows
<1> DEFINE r == Numbered(doc, DOMAIN f, locked)
<1>4. r \in Docs(k) /\ RisesTo(r, k) /\ (~locked => CountsTo(r, k))
  BY <1>1, NumberedRises
<1>5. /\ DOMAIN script' = 1 .. k /\ script' = [i \in 1 .. k |-> script'[i]]
      /\ \A i \in 1 .. k :
           script'[i] = [id |-> IF i \in DOMAIN f THEN f[i] ELSE doc[i].id,
                         text |-> doc[i].text, num |-> r[i].num, locked |-> doc[i].locked]
  BY <1>1, <1>2 DEF UpdatedScript
<1> HIDE DEF k, r
<1>6. \A i \in 1 .. k : r[i].num \in Seq(Nat) /\ IsNumber(r[i].num)
  BY <1>1, <1>4, DocsFrom DEF RisesTo
<1>7. \A i \in 1 .. k : script'[i].id \in Ids /\ script'[i].num = r[i].num
  BY <1>3, <1>5 DEF Following
<1>8. \A i \in 1 .. k : script'[i] \in NumberedHeading
  <2> SUFFICES ASSUME NEW i \in 1 .. k PROVE script'[i] \in NumberedHeading
    OBVIOUS
  <2>1. doc[i].text \in Texts /\ doc[i].locked \in BOOLEAN
    BY <1>1 DEF NumberedHeading, Heading
  <2> DEFINE newId == IF i \in DOMAIN f THEN f[i] ELSE doc[i].id
             n == r[i].num
  <2>2. script'[i] = [id |-> newId, text |-> doc[i].text, num |-> n, locked |-> doc[i].locked]
    BY <1>5
  <2>3. newId \in Ids
    BY <1>7, <2>2
  <2>4. n \in Seq(Nat) /\ IsNumber(n)
    BY <1>6
  <2> HIDE DEF newId, n
  <2> QED
    BY <2>1, <2>2, <2>3, <2>4 DEF NumberedHeading, Heading
<1>9. script' \in Docs(k)
  BY <1>5, <1>8 DEF Docs
<1>10. script' \in Seq(NumberedHeading) /\ Len(script') = k
  BY <1>1, <1>9, DocsFrom
<1>11. RisesTo(script', k) /\ (~locked => CountsTo(script', k))
  <2>1. \A i \in 2 .. k : i \in 1 .. k /\ i - 1 \in 1 .. k
    BY <1>1
  <2>2. k >= 1 => 1 \in 1 .. k
    BY <1>1
  <2> QED
    BY <1>4, <1>7, <2>1, <2>2 DEF RisesTo, CountsTo
<1>12. list' \in Seq(Ids)
  BY <1>1, <1>2, <1>5, <1>7 DEF ListedScenes
<1>13. IdsOf(script') \subseteq Ids
  BY <1>5, <1>7 DEF IdsOf
<1>14. DOMAIN scenes' \subseteq Ids
  BY <1>2, <1>13 DEF DescribedScenes
<1>15. scenes' \in [DOMAIN scenes' -> Scene]
  <2>1. scenes' = [x \in DOMAIN scenes' |-> scenes'[x]]
    BY <1>3 DEF Following
  <2>2. ASSUME NEW x \in DOMAIN scenes'
        PROVE  scenes'[x] \in Scene
    <3>1. CASE x \in IdsOf(script')
      <4>1. scenes'[x] = Describe(FirstWithId(script', x))
        BY <1>2, <2>2, <3>1 DEF DescribedScenes
      <4> QED
        BY <1>10, <3>1, <4>1, FirstInDoc, DescribedIsScene
    <3>2. CASE x \notin IdsOf(script')
      <4>1. x \in DOMAIN scenes /\ scenes'[x] = scenes[x]
        BY <1>2, <2>2, <3>2 DEF DescribedScenes
      <4> QED
        BY <4>1 DEF SceneMap
    <3> QED
      BY <3>1, <3>2
  <2> QED
    BY <2>1, <2>2
<1> QED
  BY <1>2, <1>10, <1>11, <1>12, <1>14, <1>15 DEF k, SceneMap
-----------------------------------------------------------------------------
LEMMA InsertedDoc ==
  ASSUME NEW S, NEW doc \in Seq(S), NEW h \in S, NEW i \in 1 .. Len(doc) + 1
  PROVE  LET new == InsertAt(doc, i, h)
         IN /\ new \in Seq(S) /\ Len(new) = Len(doc) + 1
            /\ new[i] = h
            /\ \A j \in 1 .. i - 1 : new[j] = doc[j]
            /\ \A j \in i .. Len(doc) : new[j + 1] = doc[j]
<1> DEFINE k == Len(doc)
           before == SubSeq(doc, 1, i - 1)
           after == SubSeq(doc, i, Len(doc))
<1>1. k \in Nat /\ i \in Nat /\ 1 <= i /\ i <= k + 1
  OBVIOUS
<1>2. before \in Seq(S) /\ Len(before) = i - 1 /\ \A j \in 1 .. i - 1 : before[j] = doc[j]
  OBVIOUS
<1>3. after \in Seq(S) /\ Len(after) = k - i + 1 /\ \A j \in 1 .. k - i + 1 : after[j] = doc[i + j - 1]
  OBVIOUS
<1>4. InsertAt(doc, i, h) = before \o <<h>> \o after
  BY DEF InsertAt
<1> HIDE DEF before, after
<1> DEFINE front == before \o <<h>>
<1>5. /\ front \in Seq(S) /\ Len(front) = i /\ front[i] = h
      /\ \A j \in 1 .. i - 1 : front[j] = doc[j]
  BY <1>1, <1>2
<1> HIDE DEF front
<1> DEFINE new == front \o after
<1>6. /\ new \in Seq(S) /\ Len(new) = k + 1
      /\ \A j \in 1 .. i : new[j] = front[j]
      /\ \A j \in i + 1 .. k + 1 : new[j] = after[j - i]
  <2>1. front \in Seq(S) /\ after \in Seq(S)
    BY <1>3, <1>5
  <2>2. /\ new \in Seq(S)
        /\ Len(new) = Len(front) + Len(after)
        /\ \A j \in 1 .. Len(front) : new[j] = front[j]
        /\ \A j \in Len(front) + 1 .. Len(front) + Len(after) : new[j] = after[j - Len(front)]
    BY <2>1, Joined
  <2> HIDE DEF new
  <2>5. Len(front) + Len(after) = k + 1
    BY <1>1, <1>3, <1>5
  <2> QED
    BY <1>5, <2>2, <2>5
<1> HIDE DEF new
<1>7. new[i] = h /\ \A j \in 1 .. i - 1 : new[j] = doc[j]
  BY <1>1, <1>5, <1>6
<1>8. ASSUME NEW j \in i .. k
      PROVE  new[j + 1] = doc[j]
  <2>1. j + 1 \in i + 1 .. k + 1 /\ (j + 1) - i \in 1 .. k - i + 1 /\ i + ((j + 1) - i) - 1 = j
    BY <1>1
  <2> QED
    BY <1>3, <1>6, <2>1
<1>9. InsertAt(doc, i, h) = new
  BY <1>4 DEF new, front
<1> QED
  BY <1>6, <1>7, <1>8, <1>9

LEMMA RemovedDoc ==
  ASSUME NEW S, NEW doc \in Seq(S), NEW i \in DOMAIN doc
  PROVE  RemoveAt(doc, i) \in Seq(S) /\ Len(RemoveAt(doc, i)) = Len(doc) - 1
<1> DEFINE before == SubSeq(doc, 1, i - 1)
           after == SubSeq(doc, i + 1, Len(doc))
<1>1. Len(doc) \in Nat /\ i \in 1 .. Len(doc)
  OBVIOUS
<1>2. before \in Seq(S) /\ Len(before) = i - 1
  BY <1>1
<1>3. after \in Seq(S) /\ Len(after) = Len(doc) - i
  BY <1>1
<1>4. RemoveAt(doc, i) = before \o after
  BY DEF RemoveAt
<1> HIDE DEF before, after
<1> QED
  BY <1>1, <1>2, <1>3, <1>4

WithText(doc, i, t) == [doc EXCEPT ![i].text = t]

LEMMA ChangedHeading ==
  ASSUME NEW k \in Nat, NEW doc \in Docs(k), NEW i \in 1 .. k, NEW t \in Texts
  PROVE  /\ WithText(doc, i, t) \in Docs(k)
         /\ \A j \in 1 .. k : WithText(doc, i, t)[j].num = doc[j].num
<1> DEFINE new == [doc EXCEPT ![i].text = t]
<1>1. DOMAIN doc = 1 .. k /\ \A j \in 1 .. k : doc[j] \in NumberedHeading
  BY DEF Docs
<1>2. /\ new = [j \in 1 .. k |-> new[j]]
      /\ new[i] = [doc[i] EXCEPT !.text = t]
      /\ \A j \in 1 .. k : j # i => new[j] = doc[j]
  BY <1>1
<1> HIDE DEF new
<1>3. [doc[i] EXCEPT !.text = t] \in NumberedHeading /\ [doc[i] EXCEPT !.text = t].num = doc[i].num
  BY <1>1 DEF NumberedHeading, Heading
<1>4. \A j \in 1 .. k : new[j] \in NumberedHeading /\ new[j].num = doc[j].num
  BY <1>1, <1>2, <1>3
<1>5. new \in Docs(k)
  BY <1>2, <1>4 DEF Docs
<1> QED
  BY <1>4, <1>5 DEF new, WithText

LEMMA BlankIsNumbered ==
  ASSUME NEW id \in Ids \cup {NoId}
  PROVE  /\ Blank(id) \in NumberedHeading
         /\ \A locked \in BOOLEAN : [Blank(id) EXCEPT !.locked = locked] \in NumberedHeading
<1>1. SomeText \in Texts
  BY TrackerAssumption DEF SomeText
<1>2. NoNumber \in Seq(Nat)
  BY DEF NoNumber
<1>3. Blank(id) \in NumberedHeading
  BY <1>1, <1>2 DEF Blank, NumberedHeading, Heading
<1>4. ASSUME NEW locked \in BOOLEAN
      PROVE  [Blank(id) EXCEPT !.locked = locked] \in NumberedHeading
  BY <1>1, <1>2 DEF Blank, NumberedHeading, Heading
<1> QED
  BY <1>3, <1>4

LEMMA MergedNumbers ==
  ASSUME NEW k \in Nat, NEW doc \in Docs(k), NEW numbered \in Docs(k)
  PROVE  LET new == WithNumbersOf(doc, numbered)
         IN /\ new \in Docs(k)
            /\ \A j \in 1 .. k : /\ new[j].num = numbered[j].num
                                 /\ new[j].id = doc[j].id /\ new[j].locked = doc[j].locked
<1> DEFINE new == WithNumbersOf(doc, numbered)
<1>1. DOMAIN doc = 1 .. k
  BY DocsFrom
<1>2. new = [j \in 1 .. k |-> [id |-> doc[j].id, text |-> doc[j].text,
                               num |-> numbered[j].num, locked |-> doc[j].locked]]
  BY <1>1 DEF WithNumbersOf
<1> HIDE DEF new
<1>3. ASSUME NEW j \in 1 .. k
      PROVE  /\ new[j] \in NumberedHeading
             /\ new[j].num = numbered[j].num /\ new[j].id = doc[j].id
             /\ new[j].locked = doc[j].locked
  <2>1. doc[j] \in NumberedHeading
    BY DEF Docs
  <2>2. numbered[j].num \in Seq(Nat) /\ (numbered[j].num = NoNumber \/ IsNumber(numbered[j].num))
    BY DocsFrom
  <2> DEFINE n == numbered[j].num
  <2>3. new[j] = [id |-> doc[j].id, text |-> doc[j].text, num |-> n, locked |-> doc[j].locked]
    BY <1>2
  <2> HIDE DEF n
  <2>4. new[j].num = n /\ new[j].id = doc[j].id /\ new[j].locked = doc[j].locked
    BY <2>3
  <2>5. n \in Seq(Nat) /\ (n = NoNumber \/ IsNumber(n))
    BY <2>2 DEF n
  <2>6. new[j] \in NumberedHeading
    BY <2>1, <2>3, <2>5 DEF NumberedHeading, Heading
  <2> QED
    BY <2>4, <2>6 DEF n
<1>4. new \in Docs(k)
  BY <1>2, <1>3 DEF Docs
<1> QED
  BY <1>3, <1>4 DEF new
-----------------------------------------------------------------------------
LEMMA ResetIsNumbered ==
  ASSUME NEW doc \in Seq(NumberedHeading)
  PROVE  ResetScript(doc) \in Seq(NumberedHeading) /\ Len(ResetScript(doc)) = Len(doc)
<1> DEFINE k == Len(doc)
           new == ResetScript(doc)
<1>1. k \in Nat /\ DOMAIN doc = 1 .. k /\ \A i \in 1 .. k : doc[i] \in NumberedHeading
  BY DocsAre
<1>2. new = [i \in 1 .. k |-> [doc[i] EXCEPT !.num = <<i>>, !.locked = FALSE]]
  BY <1>1 DEF ResetScript
<1> HIDE DEF k, new
<1>3. ASSUME NEW i \in 1 .. k
      PROVE  [doc[i] EXCEPT !.num = <<i>>, !.locked = FALSE] \in NumberedHeading
  <2>1. doc[i] \in NumberedHeading
    BY <1>1
  <2> DEFINE n == <<i>>
  <2>2. n \in Seq(Nat) /\ Len(n) = 1 /\ IsNumber(n)
    BY <1>1, DepthAssumption DEF IsNumber
  <2> HIDE DEF n
  <2>3. [doc[i] EXCEPT !.num = n, !.locked = FALSE] \in NumberedHeading
    BY <2>1, <2>2 DEF NumberedHeading, Heading
  <2> QED
    BY <2>3 DEF n
<1>4. new \in Docs(k)
  BY <1>2, <1>3 DEF Docs
<1> QED
  BY <1>1, <1>4, DocsFrom DEF k, new

\* Headings whose numbers are those of the script are numbered as well.
LEMMA SameNumbers ==
  ASSUME NEW k \in Nat, NEW doc, NEW other, RisesTo(doc, k),
         \A j \in 1 .. k : other[j].num = doc[j].num
  PROVE  RisesTo(other, k) /\ (CountsTo(doc, k) => CountsTo(other, k))
<1>1. \A j \in 2 .. k : j \in 1 .. k /\ j - 1 \in 1 .. k
  OBVIOUS
<1>2. k >= 1 => 1 \in 1 .. k
  OBVIOUS
<1> QED
  BY <1>1, <1>2 DEF RisesTo, CountsTo

LEMMA UpdateShows ==
  ASSUME Shown, NEW doc \in Seq(NumberedHeading), Len(doc) <= MaxScenes,
         NEW locked \in BOOLEAN, UpdateOf(doc, locked), scenesLocked' = locked
  PROVE  Shown' /\ Numbering'
BY UpdateNumbers DEF Shown, Numbering

LEMMA InsertionShows ==
  ASSUME Shown, Kept, NEW h \in NumberedHeading, NEW i \in 1 .. Len(script) + 1,
         Len(script) < MaxScenes,
         HandleInserted(InsertAt(script, i, h), i), UNCHANGED <<suppressed, scenesLocked>>
  PROVE  Shown' /\ Numbering'
<1> DEFINE doc == InsertAt(script, i, h)
           k == Len(script) + 1
           r == InsertedScript(doc, i, scenesLocked)
           new == WithNumbersOf(doc, r.doc)
<1>1. script \in Seq(NumberedHeading) /\ Len(script) \in Nat
  BY DEF Shown
<1>2. doc \in Seq(NumberedHeading) /\ Len(doc) = k /\ k \in Nat /\ k <= MaxScenes /\ i \in 1 .. k
  BY <1>1, InsertedDoc, TrackerAssumption
<1>3. doc \in Docs(k)
  BY <1>2, DocsAre
<1>4. r \in Pass(k)
  BY <1>2, <1>3, InsertedNumbers DEF Shown, Kept
<1> HIDE DEF doc, r
<1>5. r.doc \in Docs(k) /\ r.scenes \in SceneMap
  BY <1>4 DEF Pass
<1>6. new \in Docs(k)
  BY <1>2, <1>3, <1>5, MergedNumbers
<1>7. new \in Seq(NumberedHeading) /\ Len(new) = k
  BY <1>2, <1>6, DocsFrom
<1> HIDE DEF new
<1>8. CASE suppressed /\ script' = doc /\ UNCHANGED <<scenes, list, missed>>
  <2>1. ~Quiet'
    BY <1>8 DEF Quiet
  <2>2. Shown'
    BY <1>2, <1>8 DEF Shown, SceneMap
  <2> QED
    BY <2>1, <2>2 DEF Numbering
<1>9. CASE UpdateOf(new, scenesLocked)
  BY <1>2, <1>7, <1>9, UpdateShows DEF Kept
<1>10. CASE script' = new /\ scenes' = r.scenes /\ missed' = TRUE /\ UNCHANGED list
  <2>1. ~Quiet'
    BY <1>10 DEF Quiet
  <2>2. scenes' \in SceneMap' /\ DOMAIN scenes' = DOMAIN scenes
    BY <1>5, <1>10 DEF SceneMap
  <2>3. Shown'
    BY <1>2, <1>7, <1>10, <2>2 DEF Shown
  <2> QED
    BY <2>1, <2>3 DEF Numbering
<1> QED
  BY <1>8, <1>9, <1>10 DEF HandleInserted, doc, r, new

\* A title is changed, and perhaps a scene's.
LEMMA TextShows ==
  ASSUME Shown, Kept, NEW i \in DOMAIN script, NEW t \in Texts,
         script' = [script EXCEPT ![i].text = t],
         scenes' \in SceneMap, UNCHANGED <<list, missed>>,
         ~Quiet' \/ (Numbering /\ Quiet /\ scenesLocked' = scenesLocked)
  PROVE  Shown' /\ Numbering'
<1> DEFINE k == Len(script)
<1>1. k \in Nat /\ DOMAIN script = 1 .. k /\ script \in Docs(k)
  BY DocsAre DEF Shown
<1>2. script' \in Docs(k) /\ \A j \in 1 .. k : script'[j].num = script[j].num
  <2>1. script' = WithText(script, i, t)
    BY DEF WithText
  <2> HIDE DEF k
  <2>2. i \in 1 .. k
    BY <1>1
  <2>3. /\ WithText(script, i, t) \in Docs(k)
        /\ \A j \in 1 .. k : WithText(script, i, t)[j].num = script[j].num
    BY <1>1, <2>2, ChangedHeading
  <2> QED
    BY <2>1, <2>3
<1>3. script' \in Seq(NumberedHeading) /\ Len(script') = k
  BY <1>1, <1>2, DocsFrom
<1>4. scenes' \in SceneMap' /\ DOMAIN scenes' = DOMAIN scenes
  BY DEF SceneMap
<1>5. Shown'
  BY <1>3, <1>4 DEF Shown
<1>6. CASE ~Quiet'
  BY <1>5, <1>6 DEF Numbering
<1>7. CASE Numbering /\ Quiet /\ scenesLocked' = scenesLocked
  <2>1. RisesTo(script, k) /\ (~scenesLocked => CountsTo(script, k))
    BY <1>7 DEF Numbering
  <2>2. RisesTo(script', k) /\ (~scenesLocked' => CountsTo(script', k))
    BY <1>1, <1>2, <1>7, <2>1, SameNumbers
  <2> QED
    BY <1>3, <1>5, <2>2 DEF Numbering
<1> QED
  BY <1>6, <1>7
-----------------------------------------------------------------------------
Ruled == Inv /\ Shown /\ Kept /\ Numbering

LEMMA UpdateRules ==
  ASSUME Ruled, NEW doc \in Seq(NumberedHeading), Len(doc) <= MaxScenes,
         NEW locked \in BOOLEAN, UpdateOf(doc, locked), scenesLocked' = locked
  PROVE  Shown' /\ Numbering'
BY UpdateShows DEF Ruled

\* Nothing of the document or of its scenes changes but what leaves the
\* tracker waiting, or deaf.
LEMMA SameShows ==
  ASSUME Ruled, UNCHANGED <<script, scenes, list, missed>>,
         Quiet' => Quiet /\ scenesLocked' = scenesLocked
  PROVE  Shown' /\ Numbering'
BY DEF Ruled, Shown, Numbering, SceneMap

LEMMA KeptStays ==
  ASSUME Ruled, Next
  PROVE  Kept'
<1> USE DEF documentVars, timers, modes, Unheard, UserActs, Kept, Ruled
<1>1. script \in Seq(NumberedHeading) /\ \A i \in DOMAIN script : script[i] \in NumberedHeading
  BY DocsAre DEF Shown
<1>2. \A i \in DOMAIN script : script[i].id \in Ids \cup {NoId}
  BY <1>1 DEF NumberedHeading, Heading
<1>3. edits < MaxEdits => edits + 1 \in 0 .. MaxEdits
  BY TrackerAssumption
<1>4. ASSUME NEW i \in DOMAIN script, NEW t \in Texts,
             Type(i, t) \/ FillHeading(i, t) \/ OmitScene(i, t)
      PROVE  Kept'
  BY <1>2, <1>3, <1>4 DEF Type, FillHeading, OmitScene
<1>5. ASSUME NEW i \in DOMAIN script, UnmakeHeading(i) \/ Copy(i) \/ Delete(i) \/ DeleteScene(i)
      PROVE  Kept'
  BY <1>1, <1>3, <1>5 DEF UnmakeHeading, Copy, Delete, DeleteScene, OutlineEdit
<1>6. ASSUME NEW i \in DOMAIN script, NEW j \in DOMAIN script, MoveScene(i, j)
      PROVE  Kept'
  BY <1>3, <1>6 DEF MoveScene, OutlineEdit
<1>7. ASSUME NEW i \in 1 .. Len(script) + 1,
             \/ Restore(i) \/ PasteOwn(i) \/ PasteForeign(i)
             \/ MakeHeading(i, Blank(NoId)) \/ MakeHeading(i, clip)
      PROVE  Kept'
  BY <1>3, <1>7 DEF Restore, PasteOwn, PasteForeign, Paste, MakeHeading
<1>8. ASSUME NEW lock \in BOOLEAN, CreateRevision(lock)
      PROVE  Kept'
  BY <1>3, <1>8 DEF CreateRevision
<1>9. CASE LeaveHeading \/ ResetLocking \/ Reopen
  BY <1>3, <1>9 DEF LeaveHeading, ResetLocking, Reopen
<1>10. CASE BeginImport \/ CancelImport \/ ImportScene \/ CloseImport \/ EndImport
  BY <1>3, <1>10 DEF BeginImport, CancelImport, ImportScene, CloseImport, EndImport
<1>11. CASE HeaderTimer \/ RemoveTimer \/ PasteTimer
  BY <1>11 DEF HeaderTimer, RemoveTimer, PasteTimer
<1> QED
  BY <1>4, <1>5, <1>6, <1>7, <1>8, <1>9, <1>10, <1>11 DEF Next, System

LEMMA EditShows ==
  ASSUME Ruled, NEW i \in DOMAIN script, NEW t \in Texts,
         Type(i, t) \/ FillHeading(i, t) \/ OmitScene(i, t)
  PROVE  Shown' /\ Numbering'
<1> USE DEF documentVars, timers, modes, Unheard
<1>1. /\ script \in Seq(NumberedHeading) /\ Len(script) \in Nat /\ DOMAIN script = 1 .. Len(script)
      /\ script \in Docs(Len(script)) /\ scenes \in SceneMap
  BY DocsAre DEF Ruled, Shown
<1> DEFINE doc == WithText(script, i, t)
<1>2. doc \in Docs(Len(script))
  <2>1. i \in 1 .. Len(script)
    BY <1>1
  <2> QED
    BY <1>1, <2>1, ChangedHeading
<1>3. doc \in Seq(NumberedHeading) /\ Len(doc) = Len(script)
  BY <1>1, <1>2, DocsFrom
<1>4. doc = [script EXCEPT ![i].text = t]
  BY DEF WithText
<1> HIDE DEF doc
<1>5. ASSUME Type(i, t)
      PROVE  Shown' /\ Numbering'
  <2>1. CASE suppressed /\ script' = doc /\ Unheard
    <3>1. ~Quiet' /\ scenes' \in SceneMap /\ UNCHANGED <<list, missed>>
      BY <1>1, <1>5, <2>1 DEF Type, Quiet
    <3> QED
      BY <1>4, <2>1, <3>1, TextShows DEF Ruled
  <2>2. CASE /\ script' = doc
             /\ scenes' = IF headerTimer = script[i].id THEN scenes ELSE Titled(doc, headerTimer)
             /\ UNCHANGED <<list, removeTimer, pasteTimer, missed>>
    <3>1. scenes' \in SceneMap /\ UNCHANGED <<list, missed>>
      BY <1>1, <1>3, <2>2, TitledIsMap
    <3>2. UNCHANGED <<scenesLocked, caretIn, suppressed, importing>>
      BY <1>5 DEF Type
    <3>3. ~Quiet' \/ (Numbering /\ Quiet /\ scenesLocked' = scenesLocked)
      BY <2>2, <3>2 DEF Quiet, Ruled
    <3> QED
      BY <1>4, <2>2, <3>1, <3>3, TextShows DEF Ruled
  <2>3. CASE UpdateOf(doc, scenesLocked)
    BY <1>3, <1>5, <2>3, UpdateRules DEF Type, Ruled, Shown, Kept
  <2> QED
    BY <1>4, <1>5, <2>1, <2>2, <2>3 DEF Type
<1>6. ASSUME FillHeading(i, t)
      PROVE  Shown' /\ Numbering'
  <2>1. ~Quiet' /\ scenes' \in SceneMap /\ UNCHANGED <<list, missed>>
    BY <1>1, <1>6 DEF FillHeading, Quiet
  <2>2. script' = [script EXCEPT ![i].text = t]
    BY <1>6 DEF FillHeading
  <2> QED
    BY <2>1, <2>2, TextShows DEF Ruled
<1>7. ASSUME OmitScene(i, t)
      PROVE  Shown' /\ Numbering'
  <2>1. script' = doc /\ scenes' = Titled(doc, script[i].id)
    BY <1>4, <1>7 DEF OmitScene
  <2>2. scenes' \in SceneMap
    BY <1>1, <1>3, <2>1, TitledIsMap
  <2>3. UNCHANGED <<list, missed, scenesLocked>> /\ (Quiet' <=> Quiet)
    BY <1>7 DEF OmitScene, Quiet
  <2> QED
    BY <1>4, <2>1, <2>2, <2>3, TextShows DEF Ruled
<1> QED
  BY <1>5, <1>6, <1>7

LEMMA InsertShows ==
  ASSUME Ruled, NEW i \in 1 .. Len(script) + 1,
         Restore(i) \/ PasteOwn(i) \/ PasteForeign(i)
  PROVE  Shown' /\ Numbering'
<1> USE DEF documentVars, timers, modes
<1>1. ASSUME NEW h \in NumberedHeading, Len(script) < MaxScenes,
             HandleInserted(InsertAt(script, i, h), i), UNCHANGED <<suppressed, scenesLocked>>
      PROVE  Shown' /\ Numbering'
  BY <1>1, InsertionShows DEF Ruled
<1>2. CASE Restore(i)
  BY <1>1, <1>2 DEF Restore, Ruled, Kept
<1>3. CASE PasteOwn(i)
  BY <1>1, <1>3 DEF PasteOwn, Paste, Ruled, Kept
<1>4. CASE PasteForeign(i)
  <2>1. PICK id \in FreeIds(script), locked \in BOOLEAN :
          Paste(i, [Blank(id) EXCEPT !.locked = locked])
    BY <1>4 DEF PasteForeign
  <2>2. [Blank(id) EXCEPT !.locked = locked] \in NumberedHeading
    BY BlankIsNumbered DEF FreeIds
  <2> QED
    BY <1>1, <2>1, <2>2 DEF Paste
<1> QED
  BY <1>2, <1>3, <1>4

LEMMA MakeShows ==
  ASSUME Ruled, NEW i \in 1 .. Len(script) + 1, NEW h \in NumberedHeading, MakeHeading(i, h)
  PROVE  Shown' /\ Numbering'
<1>1. script \in Seq(NumberedHeading) /\ Len(script) \in Nat
  BY DEF Ruled, Shown
<1>2. script' = InsertAt(script, i, h) /\ Len(script) < MaxScenes /\ ~Quiet'
      /\ UNCHANGED <<scenes, list, missed>>
  BY DEF MakeHeading, Unheard, Quiet
<1>3. script' \in Seq(NumberedHeading) /\ Len(script') = Len(script) + 1
  BY <1>1, <1>2, InsertedDoc
<1>4. Len(script') <= MaxScenes
  BY <1>1, <1>2, <1>3, TrackerAssumption
<1> QED
  BY <1>2, <1>3, <1>4 DEF Ruled, Shown, Numbering, SceneMap

LEMMA RemoveShows ==
  ASSUME Ruled, NEW i \in DOMAIN script, UnmakeHeading(i) \/ Delete(i) \/ DeleteScene(i)
  PROVE  Shown' /\ Numbering'
<1> USE DEF documentVars, timers, modes
<1> DEFINE doc == RemoveAt(script, i)
<1>1. script \in Seq(NumberedHeading) /\ Len(script) \in Nat /\ Len(script) <= MaxScenes
      /\ scenesLocked \in BOOLEAN
  BY DEF Ruled, Shown, Kept
<1>2. doc \in Seq(NumberedHeading) /\ Len(doc) = Len(script) - 1
  BY <1>1, RemovedDoc
<1>3. Len(doc) <= MaxScenes
  BY <1>1, <1>2, TrackerAssumption
<1> HIDE DEF doc
<1>4. CASE Delete(i)
  <2>1. script' = doc /\ ~Quiet' /\ UNCHANGED <<scenes, list, missed>>
    BY <1>4 DEF Delete, Quiet, doc, Ruled, Kept
  <2> QED
    BY <1>2, <1>3, <2>1 DEF Ruled, Shown, Numbering, SceneMap
<1>5. CASE UnmakeHeading(i) \/ DeleteScene(i)
  <2>1. UpdateOf(doc, scenesLocked) /\ scenesLocked' = scenesLocked
    BY <1>5 DEF UnmakeHeading, DeleteScene, OutlineEdit, doc
  <2> QED
    BY <1>1, <1>2, <1>3, <2>1, UpdateRules
<1> QED
  BY <1>4, <1>5

LEMMA MoveShows ==
  ASSUME Ruled, NEW i \in DOMAIN script, NEW j \in DOMAIN script, MoveScene(i, j)
  PROVE  Shown' /\ Numbering'
<1> DEFINE rest == RemoveAt(script, i)
           doc == InsertAt(rest, j, script[i])
<1>1. script \in Seq(NumberedHeading) /\ Len(script) \in Nat /\ Len(script) <= MaxScenes
      /\ scenesLocked \in BOOLEAN /\ DOMAIN script = 1 .. Len(script)
      /\ script[i] \in NumberedHeading
  BY DEF Ruled, Shown, Kept
<1>2. rest \in Seq(NumberedHeading) /\ Len(rest) = Len(script) - 1
  BY <1>1, RemovedDoc
<1> HIDE DEF rest
<1>3. j \in 1 .. Len(rest) + 1
  BY <1>1, <1>2
<1>4. doc \in Seq(NumberedHeading) /\ Len(doc) = Len(rest) + 1
  BY <1>1, <1>2, <1>3, InsertedDoc
<1>5. Len(doc) <= MaxScenes
  BY <1>1, <1>2, <1>4, TrackerAssumption
<1>6. UpdateOf(doc, scenesLocked) /\ scenesLocked' = scenesLocked
  BY DEF MoveScene, OutlineEdit, documentVars, rest
<1> HIDE DEF doc
<1> QED
  BY <1>1, <1>4, <1>5, <1>6, UpdateRules

LEMMA RevisionShows ==
  ASSUME Ruled, NEW lock \in BOOLEAN, CreateRevision(lock)
  PROVE  Shown' /\ Numbering'
<1> DEFINE k == Len(script)
<1>1. k \in Nat /\ DOMAIN script = 1 .. k /\ k <= MaxScenes /\ script \in Docs(k)
      /\ script \in Seq(NumberedHeading) /\ scenesLocked \in BOOLEAN
  BY DocsAre DEF Ruled, Shown, Kept
<1>2. /\ UNCHANGED <<scenes, list, missed>> /\ (Quiet' <=> Quiet)
      /\ scenesLocked' = (scenesLocked \/ lock)
      /\ script' = IF lock THEN [i \in DOMAIN script |-> [script[i] EXCEPT !.locked = TRUE]]
                   ELSE script
  BY DEF CreateRevision, Unheard, timers, modes, Quiet
<1> HIDE DEF k
<1>3. script' \in Docs(k) /\ \A j \in 1 .. k : script'[j].num = script[j].num
  <2>1. CASE ~lock
    BY <1>1, <1>2, <2>1
  <2>2. CASE lock
    <3>1. script' = [i \in 1 .. k |-> [script[i] EXCEPT !.locked = TRUE]]
      BY <1>1, <1>2, <2>2
    <3>2. \A i \in 1 .. k : /\ [script[i] EXCEPT !.locked = TRUE] \in NumberedHeading
                            /\ [script[i] EXCEPT !.locked = TRUE].num = script[i].num
      <4> SUFFICES ASSUME NEW i \in 1 .. k
                   PROVE  /\ [script[i] EXCEPT !.locked = TRUE] \in NumberedHeading
                          /\ [script[i] EXCEPT !.locked = TRUE].num = script[i].num
        OBVIOUS
      <4>1. script[i] \in NumberedHeading
        BY <1>1 DEF Docs
      <4> QED
        BY <4>1 DEF NumberedHeading, Heading
    <3> QED
      BY <3>1, <3>2 DEF Docs
  <2> QED
    BY <2>1, <2>2
<1>4. script' \in Seq(NumberedHeading) /\ Len(script') = k
  BY <1>1, <1>3, DocsFrom
<1>5. Shown'
  BY <1>1, <1>2, <1>4 DEF Ruled, Shown, SceneMap
<1>6. ASSUME Quiet'
      PROVE  RisesTo(script', k) /\ (~scenesLocked' => CountsTo(script', k))
  <2>1. RisesTo(script, k) /\ (~scenesLocked' => CountsTo(script, k))
    BY <1>2, <1>6 DEF Ruled, Numbering, k
  <2> QED
    BY <1>1, <1>3, <2>1, SameNumbers
<1> QED
  BY <1>4, <1>5, <1>6 DEF Numbering

LEMMA ShownStays ==
  ASSUME Ruled, Next
  PROVE  Shown' /\ Numbering'
<1> USE DEF documentVars, timers, modes
<1>1. script \in Seq(NumberedHeading) /\ Len(script) \in Nat /\ Len(script) <= MaxScenes
      /\ scenesLocked \in BOOLEAN /\ (importing = "dialog" => suppressed)
  BY DEF Ruled, Shown, Kept, Inv
<1>2. ASSUME UpdateOf(script, scenesLocked), scenesLocked' = scenesLocked
      PROVE  Shown' /\ Numbering'
  BY <1>1, <1>2, UpdateRules
<1>3. CASE LeaveHeading \/ EndImport \/ RemoveTimer \/ PasteTimer
  BY <1>2, <1>3 DEF LeaveHeading, EndImport, RemoveTimer, PasteTimer, Update
<1>4. CASE ResetLocking
  <2>1. UpdateOf(ResetScript(script), FALSE) /\ scenesLocked' = FALSE
    BY <1>4 DEF ResetLocking
  <2> QED
    BY <1>1, <2>1, ResetIsNumbered, UpdateRules
<1>5. CASE Reopen
  <2>1. UpdateOf(IF revised THEN script ELSE ResetScript(script), scenesLocked)
        /\ scenesLocked' = scenesLocked
    BY <1>5 DEF Reopen
  <2> QED
    BY <1>1, <2>1, ResetIsNumbered, UpdateRules
<1>6. CASE BeginImport \/ CloseImport \/ CancelImport
  <2>1. UNCHANGED <<script, scenes, list, missed>> /\ suppressed'
    BY <1>1, <1>6 DEF BeginImport, CloseImport, CancelImport, Unheard
  <2> QED
    BY <2>1, SameShows DEF Quiet
<1>7. CASE ImportScene
  <2>1. script' = Append(script, Blank(NoId)) /\ Len(script) < MaxScenes /\ ~Quiet'
        /\ UNCHANGED <<scenes, list, missed>>
    BY <1>7 DEF ImportScene, Unheard, Quiet
  <2>2. Blank(NoId) \in NumberedHeading
    BY BlankIsNumbered
  <2>3. script' \in Seq(NumberedHeading) /\ Len(script') = Len(script) + 1
    BY <1>1, <2>1, <2>2
  <2>4. Len(script') <= MaxScenes
    BY <1>1, <2>1, <2>3, TrackerAssumption
  <2> QED
    BY <2>1, <2>3, <2>4 DEF Ruled, Shown, Numbering, SceneMap
<1>8. CASE HeaderTimer
  <2>1. scenes' = Titled(script, headerTimer) /\ (Quiet' <=> Quiet)
        /\ UNCHANGED <<script, list, missed, scenesLocked>>
    BY <1>8 DEF HeaderTimer, Quiet
  <2>2. scenes' \in SceneMap /\ DOMAIN scenes' = DOMAIN scenes
    BY <1>1, <2>1, TitledIsMap, TitledDomain DEF Ruled, Shown
  <2> QED
    BY <2>1, <2>2 DEF Ruled, Shown, Numbering, SceneMap
<1>9. ASSUME NEW i \in DOMAIN script, Copy(i)
      PROVE  Shown' /\ Numbering'
  <2>1. UNCHANGED <<script, scenes, list, missed, scenesLocked>> /\ (Quiet' <=> Quiet)
    BY <1>9 DEF Copy, Unheard, Quiet
  <2> QED
    BY <2>1, SameShows
<1>10. ASSUME NEW i \in 1 .. Len(script) + 1,
              MakeHeading(i, Blank(NoId)) \/ MakeHeading(i, clip)
       PROVE  Shown' /\ Numbering'
  <2>1. Blank(NoId) \in NumberedHeading /\ (clip # NoHeading => clip \in NumberedHeading)
    BY BlankIsNumbered DEF Ruled, Kept
  <2>2. MakeHeading(i, clip) => clip # NoHeading
    BY DEF MakeHeading
  <2> QED
    BY <1>10, <2>1, <2>2, MakeShows
<1> QED
  BY <1>3, <1>4, <1>5, <1>6, <1>7, <1>8, <1>9, <1>10, EditShows, InsertShows, RemoveShows,
     MoveShows, RevisionShows DEF Next, System

OneLevel(i) == <<i>>

LEMMA OneLevelNumbers ==
  \A i \in Nat : /\ IsNumber(OneLevel(i)) /\ OneLevel(i) \in Seq(Nat)
                 /\ i > 0 => /\ Before(OneLevel(i - 1), OneLevel(i))
                             /\ Counts(OneLevel(i - 1), OneLevel(i))
<1> SUFFICES ASSUME NEW i \in Nat
             PROVE  /\ IsNumber(<<i>>) /\ <<i>> \in Seq(Nat)
                    /\ i > 0 => Before(<<i - 1>>, <<i>>) /\ Counts(<<i - 1>>, <<i>>)
  BY DEF OneLevel
<1>1. IsNumber(<<i>>) /\ <<i>> \in Seq(Nat)
  BY DepthAssumption DEF IsNumber
<1>2. i > 0 => Before(<<i - 1>>, <<i>>) /\ Counts(<<i - 1>>, <<i>>)
  BY DEF Before, SharedDepth, Counts
<1> QED
  BY <1>1, <1>2

LEMMA InitRules == Init => Ruled
<1> SUFFICES ASSUME Init PROVE Ruled
  OBVIOUS
<1>1. PICK k \in 0 .. MaxScenes :
        script = [i \in 1 .. k |-> [id |-> i, text |-> Blank(i).text, num |-> <<i>>,
                                   locked |-> scenesLocked]]
  BY DEF Init
<1>2. /\ clip = NoHeading /\ headerTimer = NoId /\ importing = "no"
      /\ revised \in BOOLEAN /\ scenesLocked \in BOOLEAN
      /\ removeTimer = FALSE /\ pasteTimer = FALSE /\ caretIn = FALSE /\ suppressed = FALSE
      /\ missed = FALSE /\ edits = 0
      /\ scenes = [x \in DOMAIN script |-> Describe(script[x])]
      /\ list = ListedScenes(script)
  BY DEF Init
<1>3. k \in Nat /\ DOMAIN script = 1 .. k /\ 1 .. k \subseteq Ids /\ k <= MaxScenes
  BY <1>1, TrackerAssumption
<1>4. ASSUME NEW i \in 1 .. k
      PROVE  /\ script[i] \in NumberedHeading /\ script[i].num = OneLevel(i)
             /\ script[i].id \in Ids
  <2> DEFINE n == OneLevel(i)
             t == Blank(i).text
  <2>1. n \in Seq(Nat) /\ IsNumber(n)
    BY <1>3, OneLevelNumbers
  <2>2. t \in Texts
    BY TrackerAssumption DEF Blank, SomeText
  <2>3. script[i] = [id |-> i, text |-> t, num |-> n, locked |-> scenesLocked]
    BY <1>1 DEF OneLevel
  <2> HIDE DEF n, t
  <2>4. script[i] \in NumberedHeading /\ script[i].num = n /\ script[i].id \in Ids
    BY <1>2, <1>3, <2>1, <2>2, <2>3 DEF NumberedHeading, Heading
  <2> QED
    BY <2>1, <2>4 DEF n
<1>5. script \in Docs(k)
  BY <1>1, <1>4 DEF Docs
<1>6. script \in Seq(NumberedHeading) /\ Len(script) = k
  BY <1>3, <1>5, DocsFrom
<1>7. scenes \in SceneMap /\ DOMAIN scenes = 1 .. k
  <2>1. \A x \in 1 .. k : Describe(script[x]) \in Scene
    BY <1>4, DescribedIsScene
  <2> QED
    BY <1>2, <1>3, <2>1 DEF SceneMap
<1>8. list \in Seq(Ids)
  <2>1. list = [i \in 1 .. k |-> script[i].id]
    BY <1>2, <1>3 DEF ListedScenes
  <2>2. \A i \in 1 .. k : script[i].id \in Ids
    BY <1>4
  <2> QED
    BY <1>3, <2>1, <2>2
<1>9. Shown
  BY <1>2, <1>3, <1>6, <1>7, <1>8 DEF Shown
<1>10. Kept
  <2>1. 0 \in 0 .. MaxEdits
    BY TrackerAssumption
  <2> QED
    BY <1>2, <2>1 DEF Kept
<1>11. RisesTo(script, k) /\ CountsTo(script, k)
  <2>1. \A i \in 1 .. k : IsNumber(script[i].num)
    BY <1>3, <1>4, OneLevelNumbers
  <2>2. ASSUME NEW i \in 2 .. k
        PROVE  Before(script[i - 1].num, script[i].num) /\ Counts(script[i - 1].num, script[i].num)
    <3>1. i \in 1 .. k /\ i - 1 \in 1 .. k /\ i \in Nat /\ i > 0
      BY <1>3
    <3>2. script[i].num = OneLevel(i) /\ script[i - 1].num = OneLevel(i - 1)
      BY <1>4, <3>1
    <3> QED
      BY <3>1, <3>2, OneLevelNumbers
  <2>3. k >= 1 => script[1].num = <<1>>
    <3>1. k >= 1 => script[1].num = OneLevel(1)
      BY <1>3, <1>4
    <3> QED
      BY <3>1 DEF OneLevel
  <2> QED
    BY <2>1, <2>2, <2>3 DEF RisesTo, CountsTo
<1>12. Inv
  BY InitFollows
<1> QED
  BY <1>6, <1>9, <1>10, <1>11, <1>12 DEF Ruled, Numbering

LEMMA StepRules == Ruled /\ [Next]_vars => Ruled'
<1> SUFFICES ASSUME Ruled, [Next]_vars PROVE Ruled'
  OBVIOUS
<1>1. Inv'
  BY StepKeeps DEF Ruled
<1>2. CASE Next
  BY <1>1, <1>2, KeptStays, ShownStays DEF Ruled
<1>3. CASE UNCHANGED vars
  <2>1. Kept'
    BY <1>3 DEF vars, documentVars, timers, modes, Ruled, Kept
  <2>2. UNCHANGED <<script, scenes, list, missed, scenesLocked>> /\ (Quiet' <=> Quiet)
    BY <1>3 DEF vars, documentVars, timers, modes, Quiet
  <2> QED
    BY <1>1, <2>1, <2>2, SameShows DEF Ruled
<1> QED
  BY <1>2, <1>3

LEMMA SpecRules == Spec => []Ruled
BY InitRules, StepRules, PTL DEF Spec
-----------------------------------------------------------------------------
(***************************************************************************)
(* The document, the scenes and the list always have their types, and      *)
(* every heading has no number yet or one of the allowed depth, also after *)
(* the renumbering of a script of any length (nsSceneTracker.cpp,          *)
(* nsSceneNumberService.cpp).                                              *)
(***************************************************************************)
THEOREM TrackerTypeCorrect == Spec => []TypeOK
<1>1. Ruled => TypeOK
  <2> SUFFICES ASSUME Ruled PROVE TypeOK
    OBVIOUS
  <2>1. script \in Seq(Heading) /\ (clip \in Heading \cup {NoHeading})
    BY DEF Ruled, Shown, Kept, NumberedHeading
  <2>2. \A i \in DOMAIN script : script[i].num = NoNumber \/ IsNumber(script[i].num)
    BY DocsAre DEF Ruled, Shown
  <2>3. Range(scenes) \subseteq Scene
    BY DEF Ruled, Shown, SceneMap, Range
  <2> QED
    BY <2>1, <2>2, <2>3 DEF TypeOK, Ruled, Shown, Kept
<1> QED
  BY <1>1, SpecRules, PTL

LEMMA RisingNumbers ==
  ASSUME NEW k \in Nat, NEW doc, RisesTo(doc, k)
  PROVE  \A i, j \in 1 .. k : i < j => Before(doc[i].num, doc[j].num)
<1> SUFFICES ASSUME NEW i \in 1 .. k
             PROVE  \A j \in i + 1 .. k : Before(doc[i].num, doc[j].num)
  OBVIOUS
<1> DEFINE S == {j \in i + 1 .. k : Before(doc[i].num, doc[j].num)}
<1>1. \A j \in 1 .. k : doc[j].num \in Seq(Nat)
  BY DEF RisesTo, IsNumber
<1>2. \A j \in 2 .. k : Before(doc[j - 1].num, doc[j].num)
  BY DEF RisesTo
<1>3. i + 1 <= k => i + 1 \in S
  <2> SUFFICES ASSUME i + 1 <= k PROVE Before(doc[i].num, doc[i + 1].num)
    OBVIOUS
  <2>1. i + 1 \in 2 .. k /\ (i + 1) - 1 = i
    OBVIOUS
  <2> QED
    BY <1>2, <2>1
<1>4. ASSUME NEW j \in i + 1 .. k - 1, j \in S
      PROVE  j + 1 \in S
  <2>1. j + 1 \in 2 .. k /\ (j + 1) - 1 = j /\ j \in 1 .. k /\ j + 1 \in 1 .. k /\ j + 1 \in i + 1 .. k
    OBVIOUS
  <2>2. Before(doc[j].num, doc[j + 1].num)
    BY <1>2, <2>1
  <2>3. Before(doc[i].num, doc[j].num)
    BY <1>4
  <2>4. Before(doc[i].num, doc[j + 1].num)
    BY <1>1, <2>1, <2>2, <2>3, BeforeTransitive
  <2> QED
    BY <2>1, <2>4
<1> HIDE DEF S
<1>5. i + 1 .. k \subseteq S
  BY <1>3, <1>4, IntervalInduction
<1> QED
  BY <1>5 DEF S

(***************************************************************************)
(* The numbers of a settled script rise, so that no two scenes share one,  *)
(* whatever was locked, inserted, moved, deleted or imported before:       *)
(* Update() leaves a number only where it is seamless with the prior one,  *)
(* and every number it gives comes after the prior one                     *)
(* (nsSceneTracker::Update, AssignDefaultSceneNumber).                     *)
(***************************************************************************)
THEOREM NumbersAlwaysRise == Spec => []NumbersRise
<1>1. Ruled => NumbersRise
  <2> SUFFICES ASSUME Ruled, Settled
               PROVE  \A i, j \in DOMAIN script : i < j => Before(script[i].num, script[j].num)
    BY DEF NumbersRise
  <2>1. Len(script) \in Nat /\ DOMAIN script = 1 .. Len(script)
    BY DocsAre DEF Ruled, Shown
  <2>2. RisesTo(script, Len(script))
    BY DEF Ruled, Numbering, Settled, Quiet
  <2> QED
    BY <2>1, <2>2, RisingNumbers
<1> QED
  BY <1>1, SpecRules, PTL

LEMMA CountedNumbers ==
  ASSUME NEW k \in Nat, NEW doc, RisesTo(doc, k), CountsTo(doc, k)
  PROVE  \A i \in 1 .. k :
           doc[i].num[1] = Cardinality({j \in 1 .. i : Len(doc[j].num) = 1})
<1> DEFINE Tops(i) == {j \in 1 .. i : Len(doc[j].num) = 1}
           S == {i \in 1 .. k : doc[i].num[1] = Cardinality(Tops(i))}
<1>1. \A i \in Nat : IsFiniteSet(Tops(i)) /\ Cardinality(Tops(i)) \in Nat
  <2> SUFFICES ASSUME NEW i \in Nat PROVE IsFiniteSet(Tops(i)) /\ Cardinality(Tops(i)) \in Nat
    OBVIOUS
  <2>1. IsFiniteSet(1 .. i) /\ Tops(i) \in SUBSET (1 .. i)
    BY FS_Interval
  <2> HIDE DEF Tops
  <2> QED
    BY <2>1, FS_Subset, FS_CardinalityType
<1>2. 1 <= k => 1 \in S
  <2> SUFFICES ASSUME 1 <= k PROVE doc[1].num[1] = Cardinality(Tops(1))
    OBVIOUS
  <2>1. doc[1].num = <<1>>
    BY DEF CountsTo
  <2>2. Tops(1) = {1}
    BY <2>1
  <2>3. Cardinality({1}) = 1
    BY FS_Singleton
  <2>4. <<1>>[1] = 1
    OBVIOUS
  <2> QED
    BY <2>1, <2>2, <2>3, <2>4
<1>3. ASSUME NEW i \in 1 .. k - 1, i \in S
      PROVE  i + 1 \in S
  <2>1. i + 1 \in 2 .. k /\ (i + 1) - 1 = i /\ i \in Nat /\ i + 1 \in 1 .. k
    OBVIOUS
  <2>2. doc[i + 1].num[1] = doc[i].num[1] + (IF Len(doc[i + 1].num) = 1 THEN 1 ELSE 0)
    BY <2>1 DEF CountsTo, Counts
  <2>3. doc[i].num[1] = Cardinality(Tops(i))
    BY <1>3
  <2>4. CASE Len(doc[i + 1].num) = 1
    <3>1. Tops(i + 1) = Tops(i) \cup {i + 1} /\ i + 1 \notin Tops(i)
      BY <2>1, <2>4
    <3> HIDE DEF Tops
    <3>2. Cardinality(Tops(i + 1)) = Cardinality(Tops(i)) + 1
      BY <1>1, <2>1, <3>1, FS_AddElement
    <3>3. doc[i + 1].num[1] = Cardinality(Tops(i + 1))
      BY <2>2, <2>3, <2>4, <3>2
    <3> QED
      BY <2>1, <3>3
  <2>5. CASE Len(doc[i + 1].num) # 1
    <3>1. Tops(i + 1) = Tops(i)
      BY <2>1, <2>5
    <3> HIDE DEF Tops
    <3>2. doc[i + 1].num[1] = Cardinality(Tops(i + 1))
      BY <1>1, <2>1, <2>2, <2>3, <2>5, <3>1
    <3> QED
      BY <2>1, <3>2
  <2> QED
    BY <2>4, <2>5
<1> HIDE DEF S
<1>4. 1 .. k \subseteq S
  BY <1>2, <1>3, IntervalInduction
<1> QED
  BY <1>4 DEF S

(***************************************************************************)
(* While numbers are not locked the headings of a settled script are       *)
(* counted 1, 2, 3, ..., and one that kept a number of locked times in the *)
(* clipboard does not disturb the count: what is left of it stays below    *)
(* the scene before (Update, ResetSceneNumbers).                           *)
(***************************************************************************)
THEOREM UnlockedNumbersCountUp == Spec => []UnlockedCountUp
<1>1. Ruled => UnlockedCountUp
  <2> SUFFICES ASSUME Ruled, Settled, ~scenesLocked
               PROVE  \A i \in DOMAIN script :
                        script[i].num[1] = Cardinality({j \in 1 .. i : Len(script[j].num) = 1})
    BY DEF UnlockedCountUp
  <2>1. Len(script) \in Nat /\ DOMAIN script = 1 .. Len(script)
    BY DocsAre DEF Ruled, Shown
  <2>2. RisesTo(script, Len(script)) /\ CountsTo(script, Len(script))
    BY DEF Ruled, Numbering, Settled, Quiet
  <2> QED
    BY <2>1, <2>2, CountedNumbers
<1> QED
  BY <1>1, SpecRules, PTL
-----------------------------------------------------------------------------
(***************************************************************************)
(* A heading put into a sound, locked script.  The ids show where it is;   *)
(* its number fits between those of its neighbours, so the pass over the   *)
(* headings stops at once, and the update finds nothing to renumber.       *)
(***************************************************************************)
\* Where the headings of the old document are in the new one.
Shifted(j, k) == IF j <= k THEN j ELSE j + 1

LEMMA InsertionNumber ==
  ASSUME NEW n \in Nat, NEW doc \in Docs(n + 1), NEW k \in 1 .. n,
         \A j \in 1 .. n : LET h == doc[Shifted(j, k)]
                           IN IsNumber(h.num) /\ h.locked /\ Len(h.num) < MaxDepth,
         k < n => NumbersAreSeamless(doc[k].num, doc[k + 2].num)
  PROVE  LET a == AssignedNumber(doc, k + 1, TRUE)
         IN /\ a.number \in Seq(Nat) /\ IsNumber(a.number)
            /\ ~a.propagate
            /\ k < n => /\ NumbersAreSeamless(doc[k].num, a.number)
                        /\ NumbersAreSeamless(a.number, doc[k + 2].num)
<1> DEFINE i == k + 1
           I == {j \in i + 1 .. Len(doc) : doc[j].num # NoNumber /\ TRUE /\ doc[j].locked}
           next == IF I # {} THEN Min(I) ELSE 0
           right == IF next = 0 THEN NoNumber ELSE doc[next].num
           left == PriorNumber(doc, i)
           a == AssignedNumber(doc, i, TRUE)
           Fits(b) == /\ b.number \in Seq(Nat) /\ IsNumber(b.number)
                      /\ ~b.propagate
                      /\ k < n => /\ NumbersAreSeamless(doc[k].num, b.number)
                                  /\ NumbersAreSeamless(b.number, doc[k + 2].num)
<1>1. a = NumberBetweenNumbers(left, right)
  BY DEF AssignedNumber, SelectInSubSeq
<1>2. Len(doc) = n + 1 /\ \A j \in 1 .. n + 1 : doc[j].num \in Seq(Nat)
  BY DocsFrom
<1>3. /\ IsNumber(doc[k].num) /\ doc[k].num # NoNumber
      /\ k < n => IsNumber(doc[k + 2].num) /\ doc[k + 2].num # NoNumber
                  /\ doc[k + 2].locked /\ Len(doc[k + 2].num) < MaxDepth
  <2>1. Shifted(k, k) = k /\ (k < n => k + 1 \in 1 .. n /\ Shifted(k + 1, k) = k + 2)
    BY DEF Shifted
  <2> QED
    BY <2>1 DEF IsNumber, NoNumber
<1>4. left = doc[k].num
  <2>1. i \in 1 .. n + 1 /\ n + 1 \in Nat /\ i > 1 /\ i - 1 = k
    OBVIOUS
  <2> HIDE DEF i
  <2> QED
    BY <1>3, <2>1, PriorIsLast
<1>5. ASSUME k < n PROVE Fits(a)
  <2>1. k + 2 \in I
    BY <1>2, <1>3, <1>5
  <2>2. Min(I) = k + 2
    <3>1. \A j \in I : k + 2 <= j
      BY <1>2
    <3>2. I \subseteq Nat
      BY <1>2
    <3> HIDE DEF I
    <3>3. \A x \in I : (\A j \in I : x <= j) => x = k + 2
      BY <2>1, <3>1, <3>2
    <3> QED
      BY <2>1, <3>1, <3>3 DEF Min
  <2>3. right = doc[k + 2].num
    <3> HIDE DEF I
    <3> QED
      BY <2>1, <2>2
  <2>4. k \in 1 .. n + 1 /\ k + 2 \in 1 .. n + 1
    BY <1>5
  <2> HIDE DEF left, right, a, I, next, i
  <2>5. PICK b \in Seq(Nat) : /\ a = Between(b) /\ IsNumber(b)
                              /\ NumbersAreSeamless(left, b) /\ NumbersAreSeamless(b, right)
    BY <1>1, <1>2, <1>3, <1>4, <1>5, <2>3, <2>4, SeamlessHasRoom
  <2> QED
    BY <1>4, <2>3, <2>5 DEF Between
<1>6. ASSUME k = n PROVE Fits(a)
  <2>1. right = NoNumber
    BY <1>2, <1>6
  <2> HIDE DEF left, right, a, I, next, i
  <2>2. a = Between(<<left[1] + 1>>)
    BY <1>1, <1>3, <1>4, <2>1 DEF NumberBetweenNumbers
  <2>3. left[1] \in Nat /\ left[1] + 1 \in Nat
    BY <1>2, <1>3, <1>4 DEF IsNumber
  <2>4. OneLevel(left[1] + 1) \in Seq(Nat) /\ IsNumber(OneLevel(left[1] + 1))
    BY <2>3, OneLevelNumbers
  <2> QED
    BY <1>6, <2>2, <2>4 DEF Between, OneLevel
<1>7. Fits(a)
  <2> HIDE DEF a, Fits
  <2> QED
    BY <1>5, <1>6
<1> HIDE DEF a
<1> QED
  BY <1>7 DEF a

LEMMA NumberedLeaves ==
  ASSUME NEW k \in Nat, NEW doc \in Docs(k), NEW new, NEW locked \in BOOLEAN,
         NEW m \in 0 .. k, \A i \in 1 .. m : ~NeedsNumber(doc, i, i \in new)
  PROVE  \A j \in 1 .. m : Numbered(doc, new, locked)[j] = doc[j]
BY NumberedRises

LEMMA UpdateLeaves ==
  ASSUME NEW m \in Nat, NEW doc \in Docs(m), NEW locked \in BOOLEAN, UpdateOf(doc, locked),
         NeedsId(doc) = {},
         NEW last \in 1 .. m,
         \A j \in 1 .. last : doc[j].num # NoNumber,
         doc[1].num = << 1 >>,
         \A j \in 2 .. last : NumbersAreSeamless(doc[j - 1].num, doc[j].num)
  PROVE  \A j \in 1 .. last : script'[j].num = doc[j].num
<1>1. DOMAIN doc = 1 .. m
  BY DocsFrom
<1>2. PICK f \in GeneratedIds(doc) : script' = UpdatedScript(doc, f, locked)
  BY DEF UpdateOf
<1>3. DOMAIN f = {}
  <2>1. f \in [NeedsId(doc) -> FreeIds(doc)]
    BY <1>2 DEF GeneratedIds, Injection, IsInjective
  <2> QED
    BY <2>1
<1> DEFINE r == Numbered(doc, DOMAIN f, locked)
<1>4. \A j \in 1 .. m : script'[j].num = r[j].num
  BY <1>1, <1>2 DEF UpdatedScript
<1>5. \A j \in 1 .. last : ~NeedsNumber(doc, j, j \in DOMAIN f)
  <2> SUFFICES ASSUME NEW j \in 1 .. last PROVE ~NeedsNumber(doc, j, j \in DOMAIN f)
    OBVIOUS
  <2>1. j > 1 => j \in 2 .. last
    OBVIOUS
  <2> QED
    BY <1>3, <2>1 DEF NeedsNumber
<1>6. last \in 0 .. m
  OBVIOUS
<1>7. \A j \in 1 .. last : r[j] = doc[j]
  <2> DEFINE ids == DOMAIN f
  <2>1. \A j \in 1 .. last : ~NeedsNumber(doc, j, j \in ids)
    BY <1>5
  <2>2. r = Numbered(doc, ids, locked)
    OBVIOUS
  <2> HIDE DEF ids, r
  <2> QED
    BY <1>6, <2>1, <2>2, NumberedLeaves
<1> HIDE DEF r
<1> QED
  BY <1>4, <1>7

\* Where the inserted heading is, also when the update gives it a new id.
LEMMA InsertedIdIsNew ==
  ASSUME NEW m \in Nat, NEW new \in Docs(m), NEW i \in 1 .. m, NEW old,
         new[i].id \notin old, old \subseteq IdsOf(new),
         UpdateOf(new, scenesLocked)
  PROVE  script'[i].id \notin old
<1>1. DOMAIN new = 1 .. m
  BY DocsFrom
<1>2. PICK f \in GeneratedIds(new) : script' = UpdatedScript(new, f, scenesLocked)
  BY DEF UpdateOf
<1>3. f \in [NeedsId(new) -> FreeIds(new)]
  BY <1>2 DEF GeneratedIds, Injection, IsInjective
<1>4. script'[i].id = IF i \in NeedsId(new) THEN f[i] ELSE new[i].id
  BY <1>1, <1>2, <1>3 DEF UpdatedScript
<1> QED
  BY <1>3, <1>4 DEF FreeIds

LEMMA InsertionStays ==
  ASSUME Ruled, NEW h \in NumberedHeading, NEW i \in 1 .. Len(script) + 1,
         h.id \notin IdsOf(script), HandleInserted(InsertAt(script, i, h), i),
         NEW k \in DOMAIN script, InsertionAfter(k)
  PROVE  \A j \in DOMAIN script : script'[Shifted(j, k)].num = script[j].num
<1> DEFINE n == Len(script)
           doc == InsertAt(script, i, h)
           r == InsertedScript(doc, i, scenesLocked)
           a == AssignedNumber(doc, i, scenesLocked)
           new == WithNumbersOf(doc, r.doc)
<1>1. /\ script \in Seq(NumberedHeading) /\ n \in Nat /\ DOMAIN script = 1 .. n
      /\ \A j \in 1 .. n : script[j].num \in Seq(Nat) /\ (script[j].num = NoNumber \/ IsNumber(script[j].num))
      /\ scenes \in SceneMap /\ DOMAIN scenes \subseteq Ids
  BY DocsAre DEF Ruled, Shown
<1>2. /\ ~suppressed /\ scenesLocked = TRUE
      /\ \A j \in 1 .. n : script[j].locked /\ Len(script[j].num) < MaxDepth
      /\ script[1].num = <<1>>
      /\ \A j \in 2 .. n : NumbersAreSeamless(script[j - 1].num, script[j].num)
      /\ \A j \in 1 .. n : script'[Shifted(j, k)].id = script[j].id
  BY <1>1 DEF InsertionAfter, Settled, Sound, Shifted, Ruled, Kept
<1>3. RisesTo(script, n) /\ DistinctIds(script) /\ \A j \in 1 .. n : script[j].id \in Ids
  BY <1>1 DEF Ruled, Numbering, Inv, Following, InsertionAfter, Settled, Quiet
<1>4. \A j \in 1 .. n : IsNumber(script[j].num) /\ script[j].num # NoNumber
  BY <1>3 DEF RisesTo, IsNumber, NoNumber
<1>5. /\ doc \in Seq(NumberedHeading) /\ Len(doc) = n + 1
      /\ doc[i] = h
      /\ \A j \in 1 .. i - 1 : doc[j] = script[j]
      /\ \A j \in i .. n : doc[j + 1] = script[j]
  <2>1. doc \in Seq(NumberedHeading) /\ Len(doc) = n + 1 /\ doc[i] = h
    BY <1>1, InsertedDoc
  <2>2. \A j \in 1 .. i - 1 : doc[j] = script[j]
    BY <1>1, InsertedDoc
  <2>3. \A j \in i .. n : doc[j + 1] = script[j]
    BY <1>1, InsertedDoc
  <2> HIDE DEF doc, n
  <2> QED
    BY <2>1, <2>2, <2>3
<1>6. n + 1 \in Nat /\ i \in 1 .. n + 1 /\ doc \in Docs(n + 1)
  BY <1>1, <1>5, DocsAre
<1> HIDE DEF n, doc
<1>7. /\ r \in Pass(n + 1)
      /\ doc[i].id \notin DOMAIN scenes \/ ~a.propagate =>
           /\ r.failed = (doc[i].id \notin DOMAIN scenes)
           /\ r.doc[i].num = a.number
           /\ \A j \in 1 .. n + 1 : j # i => r.doc[j] = doc[j]
  <2>1. scenesLocked \in BOOLEAN
    BY <1>2
  <2> QED
    BY <1>1, <1>6, <2>1, InsertedNumbers
<1> HIDE DEF r, a
<1>8. r.doc \in Docs(n + 1)
  BY <1>7 DEF Pass
<1>9. /\ new \in Docs(n + 1)
      /\ \A j \in 1 .. n + 1 : new[j].num = r.doc[j].num /\ new[j].id = doc[j].id
  BY <1>6, <1>8, MergedNumbers
<1>10. \/ script' = new
       \/ UpdateOf(new, scenesLocked) /\ ~r.failed
  BY <1>2 DEF HandleInserted, doc, r
<1> HIDE DEF new
<1>11. \A j \in 1 .. n : \E m \in 1 .. n + 1 : m # i /\ doc[m] = script[j]
  <2> SUFFICES ASSUME NEW j \in 1 .. n PROVE \E m \in 1 .. n + 1 : m # i /\ doc[m] = script[j]
    OBVIOUS
  <2>1. CASE j < i
    BY <1>1, <1>5, <1>6, <2>1
  <2>2. CASE j >= i
    <3>1. j + 1 \in 1 .. n + 1 /\ j + 1 # i /\ doc[j + 1] = script[j]
      BY <1>1, <1>5, <1>6, <2>2
    <3> QED
      BY <3>1
  <2> QED
    BY <1>1, <1>6, <2>1, <2>2
<1>12. DOMAIN new = 1 .. n + 1
  BY <1>6, <1>9, DocsFrom
<1>13. IdsOf(script) \subseteq IdsOf(new) /\ new[i].id = h.id
  <2>1. ASSUME NEW j \in 1 .. n
        PROVE  script[j].id \in IdsOf(new)
    <3>1. PICK m \in 1 .. n + 1 : doc[m] = script[j]
      BY <1>11
    <3>2. new[m].id = script[j].id /\ m \in DOMAIN new
      BY <1>9, <1>12, <3>1
    <3> QED
      BY <3>2 DEF IdsOf
  <2> QED
    BY <1>1, <1>5, <1>6, <1>9, <2>1 DEF IdsOf
<1>14. script'[i].id \notin IdsOf(script)
  BY <1>6, <1>9, <1>10, <1>13, InsertedIdIsNew
<1>15. i = k + 1
  <2>1. \A j \in 1 .. n : script[j].id # script'[i].id
    BY <1>1, <1>14 DEF IdsOf
  <2>2. \A j \in 1 .. n : script'[IF j <= k THEN j ELSE j + 1].id = script[j].id
    BY <1>2 DEF Shifted
  <2>3. k \in 1 .. n
    BY <1>1
  <2> HIDE DEF n, Shifted, doc, r, a, new
  <2>4. n \in Nat /\ i \in 1 .. n + 1
    BY <1>1, <1>6
  <2>5. CASE i <= k
    <3>1. i \in 1 .. n /\ (IF i <= k THEN i ELSE i + 1) = i
      BY <2>3, <2>4, <2>5
    <3> QED
      BY <2>1, <2>2, <3>1
  <2>6. CASE i > k + 1
    <3>1. i - 1 \in 1 .. n /\ (IF i - 1 <= k THEN i - 1 ELSE (i - 1) + 1) = i
      BY <2>3, <2>4, <2>6
    <3> QED
      BY <2>1, <2>2, <3>1
  <2> QED
    BY <2>3, <2>4, <2>5, <2>6
<1>16. \A j \in 1 .. n : Shifted(j, k) \in 1 .. n + 1 /\ doc[Shifted(j, k)] = script[j]
                         /\ Shifted(j, k) # i
  <2> SUFFICES ASSUME NEW j \in 1 .. n
               PROVE  Shifted(j, k) \in 1 .. n + 1 /\ doc[Shifted(j, k)] = script[j]
                      /\ Shifted(j, k) # i
    OBVIOUS
  <2>1. CASE j <= k
    BY <1>1, <1>5, <1>15, <2>1 DEF Shifted
  <2>2. CASE j > k
    <3>1. Shifted(j, k) = j + 1 /\ j \in i .. n /\ j + 1 \in 1 .. n + 1 /\ j + 1 # i
      BY <1>1, <1>6, <1>15, <2>2 DEF Shifted
    <3> QED
      BY <1>5, <3>1
  <2> QED
    BY <1>1, <2>1, <2>2
<1>17. /\ a.number \in Seq(Nat) /\ IsNumber(a.number) /\ ~a.propagate
       /\ k < n => /\ NumbersAreSeamless(doc[k].num, a.number)
                   /\ NumbersAreSeamless(a.number, doc[k + 2].num)
  <2>1. k < n => NumbersAreSeamless(doc[k].num, doc[k + 2].num)
    <3> SUFFICES ASSUME k < n PROVE NumbersAreSeamless(doc[k].num, doc[k + 2].num)
      OBVIOUS
    <3>1. k + 1 \in 2 .. n /\ (k + 1) - 1 = k /\ Shifted(k, k) = k /\ Shifted(k + 1, k) = k + 2
          /\ k \in 1 .. n /\ k + 1 \in 1 .. n
      BY <1>1 DEF Shifted
    <3> QED
      BY <1>2, <1>16, <3>1
  <2>2. \A j \in 1 .. n : LET g == doc[Shifted(j, k)]
                          IN IsNumber(g.num) /\ g.locked /\ Len(g.num) < MaxDepth
    BY <1>2, <1>4, <1>16
  <2>3. k \in 1 .. n
    BY <1>1
  <2>4. a = AssignedNumber(doc, k + 1, TRUE)
    BY <1>2, <1>15 DEF a
  <2> QED
    BY <1>1, <1>6, <2>1, <2>2, <2>3, <2>4, InsertionNumber
<1>18. /\ \A j \in 1 .. n : new[Shifted(j, k)].num = script[j].num
       /\ new[i].num = a.number
  BY <1>6, <1>7, <1>9, <1>16, <1>17
<1>19. CASE script' = new
  BY <1>1, <1>18, <1>19
<1>20. CASE UpdateOf(new, scenesLocked) /\ ~r.failed
  <2>1. h.id \in Ids
    BY <1>1, <1>5, <1>7, <1>17, <1>20
  <2> DEFINE last == IF k < n THEN n + 1 ELSE n
  <2>3. last \in 1 .. n + 1 /\ \A j \in 1 .. n : Shifted(j, k) \in 1 .. last
    BY <1>1 DEF Shifted
  <2>4. \A j \in 1 .. n + 1 : j = i \/ \E m \in 1 .. n : j = Shifted(m, k)
    <3> SUFFICES ASSUME NEW j \in 1 .. n + 1, j # i PROVE \E m \in 1 .. n : j = Shifted(m, k)
      OBVIOUS
    <3>1. CASE j <= k
      BY <1>1, <3>1 DEF Shifted
    <3>2. CASE j > k + 1
      <4>1. j - 1 \in 1 .. n /\ j = Shifted(j - 1, k)
        BY <1>1, <3>2 DEF Shifted
      <4> QED
        BY <4>1
    <3> QED
      BY <1>1, <1>15, <3>1, <3>2
  <2>2. NeedsId(new) = {}
    <3>1. \A j \in 1 .. n : new[Shifted(j, k)].id = script[j].id
      BY <1>9, <1>16
    <3>2. new[i].id = h.id
      BY <1>13
    <3>3. \A j \in 1 .. n + 1 : new[j].id # NoId
      <4>1. \A j \in 1 .. n : new[Shifted(j, k)].id # NoId
        BY <1>3, <3>1, TrackerAssumption
      <4>2. new[i].id # NoId
        BY <2>1, <3>2, TrackerAssumption
      <4> QED
        BY <2>4, <4>1, <4>2
    <3>4. ASSUME NEW j \in 1 .. n + 1, NEW m \in 1 .. n + 1, new[m].id = new[j].id
          PROVE  m = j
      <4>1. \A x \in 1 .. n : script[x].id # h.id
        BY <1>1 DEF IdsOf
      <4>2. CASE j = i \/ m = i
        BY <2>4, <3>1, <3>2, <3>4, <4>1, <4>2
      <4>3. CASE j # i /\ m # i
        <5>1. PICK x \in 1 .. n : j = Shifted(x, k)
          BY <2>4, <4>3
        <5>2. PICK y \in 1 .. n : m = Shifted(y, k)
          BY <2>4, <4>3
        <5>3. script[y].id = script[x].id
          BY <3>1, <3>4, <5>1, <5>2
        <5>4. x = y
          BY <1>1, <1>3, <5>3 DEF DistinctIds
        <5> QED
          BY <5>1, <5>2, <5>4
      <4> QED
        BY <4>2, <4>3
    <3>5. ASSUME NEW j \in 1 .. n + 1, NEW m \in 1 .. j - 1
          PROVE  new[m].id # new[j].id
      <4>1. m \in 1 .. n + 1 /\ m # j
        BY <1>1
      <4> QED
        BY <3>4, <4>1
    <3> QED
      BY <1>12, <3>3, <3>5 DEF NeedsId
  <2>5. \A j \in 1 .. last : new[j].num # NoNumber
    <3>1. \A j \in 1 .. n : new[Shifted(j, k)].num # NoNumber
      BY <1>4, <1>18
    <3>2. new[i].num # NoNumber
      BY <1>17, <1>18 DEF IsNumber, NoNumber
    <3>3. \A j \in 1 .. last : j \in 1 .. n + 1
      BY <1>1
    <3> HIDE DEF last
    <3> QED
      BY <2>4, <3>1, <3>2, <3>3
  <2>6. new[1].num = <<1>>
    <3>1. 1 \in 1 .. n /\ Shifted(1, k) = 1
      BY <1>1 DEF Shifted
    <3> QED
      BY <1>2, <1>18, <3>1
  <2>7. ASSUME NEW j \in 2 .. last
        PROVE  NumbersAreSeamless(new[j - 1].num, new[j].num)
    <3>1. k \in 1 .. n /\ Shifted(k, k) = k
      BY <1>1 DEF Shifted
    <3>2. new[k].num = script[k].num /\ doc[k] = script[k]
      BY <1>16, <1>18, <3>1
    <3>3. CASE j <= k
      <4>1. j \in 2 .. n /\ j \in 1 .. n /\ j - 1 \in 1 .. n
            /\ Shifted(j, k) = j /\ Shifted(j - 1, k) = j - 1
        BY <1>1, <3>1, <3>3 DEF Shifted
      <4>2. new[j].num = script[j].num /\ new[j - 1].num = script[j - 1].num
        BY <1>18, <4>1
      <4> QED
        BY <1>2, <4>1, <4>2
    <3>4. CASE j = k + 1
      <4>1. k < n /\ j - 1 = k
        BY <1>1, <3>1, <3>4
      <4> QED
        BY <1>15, <1>17, <1>18, <3>2, <3>4, <4>1
    <3>5. CASE j = k + 2
      <4>1. k < n /\ j - 1 = k + 1 /\ k + 1 \in 1 .. n /\ Shifted(k + 1, k) = k + 2
        BY <1>1, <3>1, <3>5 DEF Shifted
      <4>2. new[k + 2].num = script[k + 1].num /\ doc[k + 2] = script[k + 1]
        BY <1>16, <1>18, <4>1
      <4> QED
        BY <1>15, <1>17, <1>18, <3>5, <4>1, <4>2
    <3>6. CASE j > k + 2
      <4>1. j - 1 \in 2 .. n /\ j - 1 \in 1 .. n /\ (j - 1) - 1 \in 1 .. n
            /\ Shifted(j - 1, k) = j /\ Shifted((j - 1) - 1, k) = j - 1
        BY <1>1, <3>1, <3>6 DEF Shifted
      <4>2. new[j].num = script[j - 1].num /\ new[j - 1].num = script[(j - 1) - 1].num
        BY <1>18, <4>1
      <4> QED
        BY <1>2, <4>1, <4>2
    <3> QED
      BY <1>1, <3>1, <3>3, <3>4, <3>5, <3>6
  <2> HIDE DEF last
  <2>8. \A j \in 1 .. last : script'[j].num = new[j].num
    <3>1. scenesLocked \in BOOLEAN
      BY <1>2
    <3> QED
      BY <1>6, <1>9, <1>20, <2>2, <2>3, <2>5, <2>6, <2>7, <3>1, UpdateLeaves
  <2> QED
    BY <1>1, <1>18, <2>3, <2>8
<1> QED
  BY <1>10, <1>19, <1>20

\* The other actions change no number, or do not make the script longer.
LEMMA OnlyInsertions ==
  ASSUME Ruled, Settled, Next, Len(script') = Len(script) + 1
  PROVE  \E i \in 1 .. Len(script) + 1 :
           \/ Restore(i) \/ PasteOwn(i) \/ PasteForeign(i)
           \/ MakeHeading(i, Blank(NoId)) \/ MakeHeading(i, clip)
<1> USE DEF documentVars, timers, modes, Unheard
<1>1. script \in Seq(NumberedHeading) /\ Len(script) \in Nat
      /\ DOMAIN script = 1 .. Len(script) /\ scenesLocked \in BOOLEAN
      /\ scenes \in SceneMap /\ DOMAIN scenes \subseteq Ids
      /\ \A i \in DOMAIN script : script[i] \in NumberedHeading
  BY DocsAre DEF Ruled, Shown, Kept
<1>2. importing = "no" /\ headerTimer = NoId /\ ~removeTimer /\ ~pasteTimer
  BY DEF Settled
<1>3. ASSUME NEW doc \in Seq(NumberedHeading), NEW locked \in BOOLEAN, UpdateOf(doc, locked),
             Len(doc) <= Len(script)
      PROVE  FALSE
  <2>1. Len(script') = Len(doc)
    BY <1>1, <1>3, UpdateNumbers
  <2>2. Len(doc) \in Nat
    OBVIOUS
  <2> QED
    BY <1>1, <1>3, <2>1, <2>2
<1>4. script' # script
  BY <1>1
<1>5. ASSUME NEW i \in DOMAIN script, NEW t \in Texts,
             Type(i, t) \/ FillHeading(i, t) \/ OmitScene(i, t)
      PROVE  FALSE
  <2> DEFINE doc == WithText(script, i, t)
  <2>1. doc \in Docs(Len(script))
    <3>1. i \in 1 .. Len(script) /\ script \in Docs(Len(script))
      BY <1>1, DocsAre
    <3> QED
      BY <1>1, <3>1, ChangedHeading
  <2>2. doc \in Seq(NumberedHeading) /\ Len(doc) = Len(script)
    BY <1>1, <2>1, DocsFrom
  <2>3. doc = [script EXCEPT ![i].text = t]
    BY DEF WithText
  <2> HIDE DEF doc
  <2>4. script' = doc \/ UpdateOf(doc, scenesLocked)
    BY <1>5, <2>3 DEF Type, FillHeading, OmitScene
  <2> QED
    BY <1>1, <1>3, <2>2, <2>4
<1>6. ASSUME NEW i \in DOMAIN script, UnmakeHeading(i) \/ Delete(i) \/ DeleteScene(i)
      PROVE  FALSE
  <2>1. RemoveAt(script, i) \in Seq(NumberedHeading) /\ Len(RemoveAt(script, i)) = Len(script) - 1
    BY <1>1, RemovedDoc
  <2>2. script' = RemoveAt(script, i) \/ UpdateOf(RemoveAt(script, i), scenesLocked)
    BY <1>6 DEF UnmakeHeading, Delete, DeleteScene, OutlineEdit
  <2>3. Len(RemoveAt(script, i)) <= Len(script) /\ script' # RemoveAt(script, i)
    BY <1>1, <2>1
  <2> QED
    BY <1>1, <1>3, <2>1, <2>2, <2>3
<1>7. ASSUME NEW i \in DOMAIN script, NEW j \in DOMAIN script, MoveScene(i, j)
      PROVE  FALSE
  <2> DEFINE rest == RemoveAt(script, i)
             doc == InsertAt(rest, j, script[i])
  <2>1. rest \in Seq(NumberedHeading) /\ Len(rest) = Len(script) - 1
    BY <1>1, RemovedDoc
  <2> HIDE DEF rest
  <2>2. j \in 1 .. Len(rest) + 1
    BY <1>1, <2>1
  <2>3. doc \in Seq(NumberedHeading) /\ Len(doc) = Len(rest) + 1
    BY <1>1, <2>1, <2>2, InsertedDoc
  <2>4. UpdateOf(doc, scenesLocked)
    BY <1>7 DEF MoveScene, OutlineEdit, rest
  <2> HIDE DEF doc
  <2>5. Len(doc) <= Len(script)
    BY <1>1, <2>1, <2>3
  <2> QED
    BY <1>1, <1>3, <2>3, <2>4, <2>5
<1>8. ASSUME NEW lock \in BOOLEAN, CreateRevision(lock)
      PROVE  FALSE
  <2>1. script' = script \/ script' = [i \in DOMAIN script |-> [script[i] EXCEPT !.locked = TRUE]]
    BY <1>8 DEF CreateRevision
  <2>2. DOMAIN script' = 1 .. Len(script)
    BY <1>1, <2>1
  <2>3. Len(script') = Len(script)
    <3>1. CASE script' = script
      BY <3>1
    <3>2. CASE script' = [i \in 1 .. Len(script) |-> [script[i] EXCEPT !.locked = TRUE]]
      BY <1>1, <3>2
    <3> QED
      BY <1>1, <2>1, <3>1, <3>2
  <2> QED
    BY <1>1, <2>3
<1>9. ASSUME LeaveHeading \/ EndImport \/ RemoveTimer \/ PasteTimer
      PROVE  FALSE
  <2>1. UpdateOf(script, scenesLocked)
    BY <1>9 DEF LeaveHeading, EndImport, RemoveTimer, PasteTimer, Update
  <2> QED
    BY <1>1, <1>3, <2>1
<1>10. ASSUME ResetLocking \/ Reopen
       PROVE  FALSE
  <2>1. UpdateOf(ResetScript(script), FALSE) \/ UpdateOf(ResetScript(script), scenesLocked)
        \/ UpdateOf(script, scenesLocked)
    BY <1>10 DEF ResetLocking, Reopen
  <2>2. ASSUME NEW locked \in BOOLEAN, UpdateOf(ResetScript(script), locked)
        PROVE  FALSE
    <3> DEFINE doc == ResetScript(script)
    <3>1. doc \in Seq(NumberedHeading) /\ Len(doc) = Len(script)
      BY <1>1, ResetIsNumbered
    <3> HIDE DEF doc
    <3>2. UpdateOf(doc, locked)
      BY <2>2 DEF doc
    <3>3. Len(doc) <= Len(script)
      BY <1>1, <3>1
    <3> QED
      BY <1>3, <3>1, <3>2, <3>3
  <2>3. UpdateOf(script, scenesLocked) => FALSE
    BY <1>1, <1>3
  <2>4. FALSE \in BOOLEAN
    OBVIOUS
  <2>5. UpdateOf(ResetScript(script), FALSE) => FALSE
    BY <2>2, <2>4
  <2>6. UpdateOf(ResetScript(script), scenesLocked) => FALSE
    BY <1>1, <2>2
  <2> QED
    BY <2>1, <2>3, <2>5, <2>6
<1>11. ASSUME BeginImport \/ CloseImport \/ CancelImport \/ ImportScene \/ HeaderTimer
       PROVE  FALSE
  BY <1>2, <1>4, <1>11 DEF BeginImport, CloseImport, CancelImport, ImportScene, HeaderTimer
<1>12. ASSUME NEW i \in DOMAIN script, Copy(i)
       PROVE  FALSE
  BY <1>4, <1>12 DEF Copy
<1> QED
  BY <1>5, <1>6, <1>7, <1>8, <1>9, <1>10, <1>11, <1>12 DEF Next, System

LEMMA MadeHeadingStays ==
  ASSUME Ruled, NEW h \in NumberedHeading, NEW i \in 1 .. Len(script) + 1,
         h.id \notin IdsOf(script), script' = InsertAt(script, i, h),
         NEW k \in DOMAIN script, InsertionAfter(k)
  PROVE  \A j \in DOMAIN script : script'[Shifted(j, k)].num = script[j].num
<1> DEFINE n == Len(script)
<1>1. script \in Seq(NumberedHeading) /\ n \in Nat /\ DOMAIN script = 1 .. n
  BY DocsAre DEF Ruled, Shown
<1>2. script'[i] = h
  BY <1>1, InsertedDoc
<1>3. \A j \in 1 .. i - 1 : script'[j] = script[j]
  BY <1>1, InsertedDoc
<1>4. \A j \in i .. n : script'[j + 1] = script[j]
  BY <1>1, InsertedDoc
<1>5. \A j \in 1 .. n : script'[Shifted(j, k)].id = script[j].id
  BY <1>1 DEF InsertionAfter, Shifted
<1>6. i \in 1 .. n + 1 /\ k \in 1 .. n
  BY <1>1
<1> HIDE DEF n
<1>7. \A j \in 1 .. n : script[j].id # script'[i].id
  BY <1>1, <1>2 DEF IdsOf
<1>8. i = k + 1
  <2>1. CASE i <= k
    <3>1. i \in 1 .. n /\ Shifted(i, k) = i
      BY <1>1, <1>6, <2>1 DEF Shifted
    <3> QED
      BY <1>5, <1>7, <3>1
  <2>2. CASE i > k + 1
    <3>1. i - 1 \in 1 .. n /\ Shifted(i - 1, k) = i
      BY <1>1, <1>6, <2>2 DEF Shifted
    <3> QED
      BY <1>5, <1>7, <3>1
  <2> QED
    BY <1>1, <1>6, <2>1, <2>2
<1>9. ASSUME NEW j \in 1 .. n
      PROVE  script'[Shifted(j, k)] = script[j]
  <2>1. CASE j <= k
    <3>1. Shifted(j, k) = j /\ j \in 1 .. i - 1
      BY <1>1, <1>6, <1>8, <2>1 DEF Shifted
    <3> QED
      BY <1>3, <3>1
  <2>2. CASE j > k
    <3>1. Shifted(j, k) = j + 1 /\ j \in i .. n
      BY <1>1, <1>6, <1>8, <2>2 DEF Shifted
    <3> QED
      BY <1>4, <3>1
  <2> QED
    BY <1>1, <1>6, <2>1, <2>2
<1> QED
  BY <1>1, <1>9

(***************************************************************************)
(* A heading put into a locked script leaves every locked number as it     *)
(* is, wherever it comes after the first one, at any depth that leaves a   *)
(* level and in a script of any length: pasted, restored or typed, known   *)
(* to the tracker or not (NumberBetweenNumbers, HandleInsertedEvent,       *)
(* Update).                                                                *)
(***************************************************************************)
THEOREM LockedNumbersAreKept == Spec => LockedNumbersStay
<1>1. ASSUME Ruled, Next, NEW k \in DOMAIN script, InsertionAfter(k), NEW j \in DOMAIN script
      PROVE  script'[Shifted(j, k)].num = script[j].num
  <2>1. Settled /\ Len(script') = Len(script) + 1
        /\ (clip # NoHeading => clip.id \notin IdsOf(script))
    BY <1>1 DEF InsertionAfter
  <2>2. PICK i \in 1 .. Len(script) + 1 :
          \/ Restore(i) \/ PasteOwn(i) \/ PasteForeign(i)
          \/ MakeHeading(i, Blank(NoId)) \/ MakeHeading(i, clip)
    BY <1>1, <2>1, OnlyInsertions
  <2>3. clip # NoHeading => clip \in NumberedHeading
    BY <1>1 DEF Ruled, Kept
  <2>4. NoId \notin IdsOf(script)
    BY <1>1, <2>1, TrackerAssumption DEF Ruled, Inv, Following, Settled, Quiet, IdsOf
  <2>5. ASSUME NEW h \in NumberedHeading, h.id \notin IdsOf(script),
               HandleInserted(InsertAt(script, i, h), i)
        PROVE  script'[Shifted(j, k)].num = script[j].num
    BY <1>1, <2>5, InsertionStays
  <2>6. ASSUME NEW h \in NumberedHeading, h.id \notin IdsOf(script), MakeHeading(i, h)
        PROVE  script'[Shifted(j, k)].num = script[j].num
    <3>1. script' = InsertAt(script, i, h)
      BY <2>6 DEF MakeHeading
    <3> QED
      BY <1>1, <2>6, <3>1, MadeHeadingStays
  <2>7. CASE Restore(i) \/ PasteOwn(i)
    <3>1. clip # NoHeading /\ HandleInserted(InsertAt(script, i, clip), i)
      BY <2>7 DEF Restore, PasteOwn, Paste
    <3> QED
      BY <2>1, <2>3, <2>5, <3>1
  <2>8. CASE PasteForeign(i)
    <3>1. PICK id \in FreeIds(script), locked \in BOOLEAN :
            Paste(i, [Blank(id) EXCEPT !.locked = locked])
      BY <2>8 DEF PasteForeign
    <3> DEFINE h == [Blank(id) EXCEPT !.locked = locked]
    <3>2. h \in NumberedHeading
      BY BlankIsNumbered DEF FreeIds
    <3>3. h.id = id
      BY DEF Blank
    <3>4. HandleInserted(InsertAt(script, i, h), i)
      BY <3>1 DEF Paste
    <3> HIDE DEF h
    <3> QED
      BY <2>5, <3>2, <3>3, <3>4 DEF FreeIds
  <2>9. CASE MakeHeading(i, Blank(NoId))
    <3>1. Blank(NoId) \in NumberedHeading /\ Blank(NoId).id = NoId
      BY BlankIsNumbered DEF Blank
    <3> QED
      BY <2>4, <2>6, <2>9, <3>1
  <2>10. CASE MakeHeading(i, clip)
    <3>1. clip # NoHeading
      BY <2>10 DEF MakeHeading
    <3> QED
      BY <2>1, <2>3, <2>6, <2>10, <3>1
  <2> QED
    BY <2>2, <2>7, <2>8, <2>9, <2>10
<1>2. Ruled /\ [Next]_vars =>
        [\A k \in DOMAIN script :
           InsertionAfter(k) =>
             \A i \in DOMAIN script :
               script'[IF i <= k THEN i ELSE i + 1].num = script[i].num]_vars
  BY <1>1 DEF Shifted
<1> QED
  BY <1>2, SpecRules, PTL DEF Spec, LockedNumbersStay
-----------------------------------------------------------------------------
(***************************************************************************)
(* While numbers are not locked, the headings that a step leaves have      *)
(* numbers of one level, or numbers that a heading had before it.          *)
(***************************************************************************)
Brought(num) ==
  \/ Len(num) <= 1
  \/ \E j \in DOMAIN script : script[j].num = num
  \/ clip # NoHeading /\ clip.num = num

Bringing == {h \in NumberedHeading : Brought(h.num)}

LEMMA BringingAre ==
  ASSUME NEW k \in Nat, NEW doc \in Docs(k)
  PROVE  doc \in Seq(Bringing) <=> \A j \in 1 .. k : Brought(doc[j].num)
<1>1. doc \in [1 .. k -> NumberedHeading] /\ DOMAIN doc = 1 .. k /\ Len(doc) = k
  BY DocsFrom DEF Docs
<1>2. ASSUME doc \in Seq(Bringing), NEW j \in 1 .. k
      PROVE  Brought(doc[j].num)
  <2>1. doc[j] \in Bringing
    BY <1>1, <1>2
  <2> QED
    BY <2>1 DEF Bringing
<1>3. ASSUME \A j \in 1 .. k : Brought(doc[j].num)
      PROVE  doc \in Seq(Bringing)
  <2>1. \A j \in 1 .. k : doc[j] \in Bringing
    BY <1>1, <1>3 DEF Bringing
  <2>2. doc \in [1 .. k -> Bringing]
    BY <1>1, <2>1
  <2> QED
    BY <2>2
<1> QED
  BY <1>2, <1>3

LEMMA PlainBrings ==
  ASSUME NEW k \in Nat, NEW doc \in Docs(k), NEW new \in Docs(k),
         doc \in Seq(Bringing), Plain(new, doc, k)
  PROVE  new \in Seq(Bringing)
<1>1. \A j \in 1 .. k : Brought(doc[j].num)
  BY BringingAre
<1>2. \A j \in 1 .. k : Len(new[j].num) = 1 => Brought(new[j].num)
  BY DEF Brought
<1>3. \A j \in 1 .. k : Brought(new[j].num)
  BY <1>1, <1>2 DEF Plain
<1> QED
  BY <1>3, BringingAre

LEMMA SameNumbersBring ==
  ASSUME NEW k \in Nat, NEW doc \in Docs(k), NEW new \in Docs(k),
         doc \in Seq(Bringing), \A j \in 1 .. k : new[j].num = doc[j].num
  PROVE  new \in Seq(Bringing)
BY PlainBrings DEF Plain

LEMMA BringingIsDoc ==
  ASSUME NEW doc \in Seq(Bringing)
  PROVE  doc \in Seq(NumberedHeading) /\ Len(doc) \in Nat /\ doc \in Docs(Len(doc))
<1>1. Bringing \subseteq NumberedHeading
  BY DEF Bringing
<1>2. doc \in Seq(NumberedHeading)
  BY <1>1
<1> QED
  BY <1>2, DocsAre

LEMMA UpdateBrings ==
  ASSUME Ruled, NEW doc \in Seq(Bringing), NEW locked \in BOOLEAN, UpdateOf(doc, locked),
         ~locked
  PROVE  script' \in Seq(Bringing)
<1> DEFINE k == Len(doc)
<1>1. k \in Nat /\ doc \in Seq(NumberedHeading) /\ doc \in Docs(k) /\ DOMAIN doc = 1 .. k
  BY BringingIsDoc
<1>2. PICK f \in GeneratedIds(doc) : script' = UpdatedScript(doc, f, locked)
  BY DEF UpdateOf
<1> DEFINE ids == DOMAIN f
           r == Numbered(doc, ids, locked)
<1> HIDE DEF k
<1>3. \A j \in 1 .. k : script'[j].num = r[j].num
  BY <1>1, <1>2 DEF UpdatedScript
<1> HIDE DEF ids
<1>4. Plain(r, doc, k)
  BY <1>1, NumberedRises
<1> HIDE DEF r
<1>5. script' \in Seq(NumberedHeading) /\ Len(script') = k
  BY <1>1, UpdateNumbers DEF Ruled, Shown, k
<1>6. script' \in Docs(k)
  BY <1>5, DocsAre
<1>7. Plain(script', doc, k)
  BY <1>3, <1>4 DEF Plain
<1> DEFINE new == script'
<1>8. new \in Docs(k) /\ Plain(new, doc, k)
  BY <1>6, <1>7
<1> HIDE DEF new
<1>9. new \in Seq(Bringing)
  BY <1>1, <1>8, PlainBrings
<1> QED
  BY <1>9 DEF new

LEMMA InsertionBrings ==
  ASSUME Ruled, ~scenesLocked, script \in Seq(Bringing), NEW h \in Bringing,
         NEW i \in 1 .. Len(script) + 1, HandleInserted(InsertAt(script, i, h), i)
  PROVE  script' \in Seq(Bringing)
<1> DEFINE doc == InsertAt(script, i, h)
           k == Len(script) + 1
           r == InsertedScript(doc, i, scenesLocked)
           a == AssignedNumber(doc, i, scenesLocked)
           new == WithNumbersOf(doc, r.doc)
<1>1. doc \in Seq(Bringing) /\ Len(doc) = k
  BY InsertedDoc
<1>2. k \in Nat /\ i \in 1 .. k /\ scenesLocked \in BOOLEAN /\ scenes \in SceneMap
  BY DEF Ruled, Shown, Kept
<1> HIDE DEF doc, k
<1>3. doc \in Docs(k)
  BY <1>1, BringingIsDoc
<1>4. Len(a.number) = 1 /\ ~a.propagate
  BY <1>2, <1>3, AssignedIsAfter
<1>5. r \in Pass(k) /\ r.doc[i].num = a.number /\ \A j \in 1 .. k : j # i => r.doc[j] = doc[j]
  <2>1. /\ r \in Pass(k)
        /\ doc[i].id \notin DOMAIN scenes \/ ~a.propagate =>
             /\ r.doc[i].num = a.number
             /\ \A j \in 1 .. k : j # i => r.doc[j] = doc[j]
    BY <1>2, <1>3, InsertedNumbers
  <2> HIDE DEF a, r
  <2> QED
    BY <1>4, <2>1
<1> HIDE DEF r, a
<1>6. r.doc \in Docs(k) /\ Plain(r.doc, doc, k)
  BY <1>4, <1>5 DEF Pass, Plain
<1>7. new \in Docs(k) /\ \A j \in 1 .. k : new[j].num = r.doc[j].num
  BY <1>2, <1>3, <1>6, MergedNumbers
<1> HIDE DEF new
<1>8. Plain(new, doc, k)
  BY <1>6, <1>7 DEF Plain
<1>9. new \in Seq(Bringing)
  BY <1>1, <1>2, <1>3, <1>7, <1>8, PlainBrings
<1>10. script' = doc \/ script' = new \/ UpdateOf(new, scenesLocked)
  BY DEF HandleInserted, doc, new, r
<1> QED
  BY <1>1, <1>2, <1>9, <1>10, UpdateBrings

LEMMA ResetBrings ==
  ASSUME Ruled
  PROVE  ResetScript(script) \in Seq(Bringing)
<1> DEFINE doc == ResetScript(script)
           k == Len(script)
<1>1. script \in Seq(NumberedHeading) /\ k \in Nat /\ DOMAIN script = 1 .. k
  BY DocsAre DEF Ruled, Shown
<1>2. doc \in Seq(NumberedHeading) /\ Len(doc) = k
  BY <1>1, ResetIsNumbered
<1>3. \A j \in 1 .. k : doc[j].num = OneLevel(j)
  <2> SUFFICES ASSUME NEW j \in 1 .. k PROVE doc[j].num = OneLevel(j)
    OBVIOUS
  <2>1. doc[j] = [script[j] EXCEPT !.num = <<j>>, !.locked = FALSE]
    BY <1>1 DEF ResetScript
  <2>2. script[j] \in NumberedHeading
    BY <1>1
  <2> QED
    BY <2>1, <2>2 DEF NumberedHeading, Heading, OneLevel
<1> HIDE DEF k, doc
<1>4. \A j \in 1 .. k : Len(OneLevel(j)) = 1
  BY DEF OneLevel
<1>5. ASSUME NEW j \in 1 .. k
      PROVE  Brought(doc[j].num)
  <2>1. Len(doc[j].num) = 1
    BY <1>3, <1>4
  <2> QED
    BY <2>1 DEF Brought
<1>6. doc \in Docs(k)
  BY <1>2, DocsAre
<1> QED
  BY <1>1, <1>5, <1>6, BringingAre DEF doc

LEMMA ScriptBrings ==
  ASSUME Ruled
  PROVE  /\ script \in Seq(Bringing) /\ script \in Docs(Len(script))
         /\ Len(script) \in Nat /\ DOMAIN script = 1 .. Len(script)
         /\ \A i \in DOMAIN script : script[i] \in Bringing
         /\ clip # NoHeading => clip \in Bringing
<1> DEFINE k == Len(script)
<1>1. script \in Docs(k) /\ k \in Nat /\ DOMAIN script = 1 .. k
  BY DocsAre DEF Ruled, Shown
<1>2. \A j \in 1 .. k : Brought(script[j].num)
  BY <1>1 DEF Brought
<1> HIDE DEF k
<1>3. script \in Seq(Bringing)
  BY <1>1, <1>2, BringingAre
<1>4. clip # NoHeading => clip \in Bringing
  BY DEF Ruled, Kept, Bringing, Brought
<1>5. \A i \in 1 .. k : script[i] \in Bringing
  BY <1>1, <1>2 DEF Bringing, Docs
<1> QED
  BY <1>1, <1>3, <1>4, <1>5 DEF k

LEMMA BlankBrings ==
  ASSUME NEW id \in Ids \cup {NoId}
  PROVE  /\ Blank(id) \in Bringing
         /\ \A locked \in BOOLEAN : [Blank(id) EXCEPT !.locked = locked] \in Bringing
<1>1. Len(NoNumber) = 0
  BY DEF NoNumber
<1>2. Blank(id).num = NoNumber
      /\ \A locked \in BOOLEAN : [Blank(id) EXCEPT !.locked = locked].num = NoNumber
  BY DEF Blank
<1>3. Brought(NoNumber)
  BY <1>1 DEF Brought
<1> QED
  BY <1>2, <1>3, BlankIsNumbered DEF Bringing

LEMMA EditBrings ==
  ASSUME Ruled, ~scenesLocked, NEW i \in DOMAIN script, NEW t \in Texts,
         Type(i, t) \/ FillHeading(i, t) \/ OmitScene(i, t)
  PROVE  script' \in Seq(Bringing)
<1> DEFINE k == Len(script)
           doc == WithText(script, i, t)
<1>1. script \in Seq(Bringing) /\ script \in Docs(k) /\ k \in Nat /\ i \in 1 .. k
      /\ scenesLocked \in BOOLEAN
  BY ScriptBrings DEF Ruled, Kept
<1> HIDE DEF k
<1>2. doc \in Docs(k) /\ \A j \in 1 .. k : doc[j].num = script[j].num
  BY <1>1, ChangedHeading
<1>3. doc = [script EXCEPT ![i].text = t]
  BY DEF WithText
<1> HIDE DEF doc
<1>4. doc \in Seq(Bringing)
  BY <1>1, <1>2, SameNumbersBring
<1>5. script' = doc \/ UpdateOf(doc, scenesLocked)
  BY <1>3 DEF Type, FillHeading, OmitScene
<1> QED
  BY <1>1, <1>4, <1>5, UpdateBrings

LEMMA PutInBrings ==
  ASSUME Ruled, ~scenesLocked, NEW i \in 1 .. Len(script) + 1,
         \/ Restore(i) \/ PasteOwn(i) \/ PasteForeign(i)
         \/ MakeHeading(i, Blank(NoId)) \/ MakeHeading(i, clip)
  PROVE  script' \in Seq(Bringing)
<1>1. script \in Seq(Bringing) /\ (clip # NoHeading => clip \in Bringing)
  BY ScriptBrings
<1>2. CASE Restore(i) \/ PasteOwn(i)
  <2>1. clip # NoHeading /\ HandleInserted(InsertAt(script, i, clip), i)
    BY <1>2 DEF Restore, PasteOwn, Paste
  <2> QED
    BY <1>1, <2>1, InsertionBrings
<1>3. CASE PasteForeign(i)
  <2>1. PICK id \in FreeIds(script), locked \in BOOLEAN :
          Paste(i, [Blank(id) EXCEPT !.locked = locked])
    BY <1>3 DEF PasteForeign
  <2> DEFINE h == [Blank(id) EXCEPT !.locked = locked]
  <2>2. h \in Bringing
    BY BlankBrings DEF FreeIds
  <2>3. HandleInserted(InsertAt(script, i, h), i)
    BY <2>1 DEF Paste
  <2> HIDE DEF h
  <2> QED
    BY <1>1, <2>2, <2>3, InsertionBrings
<1>4. CASE MakeHeading(i, Blank(NoId)) \/ MakeHeading(i, clip)
  <2>1. PICK h \in Bringing : script' = InsertAt(script, i, h)
    BY <1>1, <1>4, BlankBrings DEF MakeHeading
  <2> QED
    BY <1>1, <2>1, InsertedDoc
<1> QED
  BY <1>2, <1>3, <1>4

LEMMA TakenOutBrings ==
  ASSUME Ruled, ~scenesLocked, NEW i \in DOMAIN script,
         \/ UnmakeHeading(i) \/ Delete(i) \/ DeleteScene(i)
         \/ \E j \in DOMAIN script : MoveScene(i, j)
  PROVE  script' \in Seq(Bringing)
<1> DEFINE rest == RemoveAt(script, i)
<1>1. script \in Seq(Bringing) /\ Len(script) \in Nat /\ DOMAIN script = 1 .. Len(script)
      /\ script[i] \in Bringing /\ scenesLocked \in BOOLEAN
  BY ScriptBrings DEF Ruled, Kept
<1>2. rest \in Seq(Bringing) /\ Len(rest) = Len(script) - 1
  BY <1>1, RemovedDoc
<1> HIDE DEF rest
<1>3. CASE UnmakeHeading(i) \/ Delete(i) \/ DeleteScene(i)
  <2>1. script' = rest \/ UpdateOf(rest, scenesLocked)
    BY <1>3 DEF UnmakeHeading, Delete, DeleteScene, OutlineEdit, rest
  <2> QED
    BY <1>1, <1>2, <2>1, UpdateBrings
<1>4. ASSUME NEW j \in DOMAIN script, MoveScene(i, j)
      PROVE  script' \in Seq(Bringing)
  <2> DEFINE doc == InsertAt(rest, j, script[i])
  <2>1. j \in 1 .. Len(rest) + 1
    BY <1>1, <1>2
  <2>2. doc \in Seq(Bringing)
    BY <1>1, <1>2, <2>1, InsertedDoc
  <2>3. UpdateOf(doc, scenesLocked)
    BY <1>4 DEF MoveScene, OutlineEdit, rest
  <2> HIDE DEF doc
  <2> QED
    BY <1>1, <2>2, <2>3, UpdateBrings
<1> QED
  BY <1>3, <1>4

LEMMA StepBrings ==
  ASSUME Ruled, Next, ~scenesLocked'
  PROVE  script' \in Seq(Bringing)
<1> USE DEF documentVars, timers, modes, Unheard
<1>1. script \in Seq(Bringing) /\ scenesLocked \in BOOLEAN
  BY ScriptBrings DEF Ruled, Kept
<1>2. ASSUME NEW locked \in BOOLEAN, ~locked,
             UpdateOf(script, locked) \/ UpdateOf(ResetScript(script), locked)
      PROVE  script' \in Seq(Bringing)
  <2> DEFINE doc == ResetScript(script)
  <2>1. doc \in Seq(Bringing)
    BY ResetBrings
  <2>2. UpdateOf(script, locked) \/ UpdateOf(doc, locked)
    BY <1>2
  <2> HIDE DEF doc
  <2> QED
    BY <1>1, <1>2, <2>1, <2>2, UpdateBrings
<1>3. CASE ResetLocking
  <2>1. scenesLocked' \in BOOLEAN /\ UpdateOf(ResetScript(script), scenesLocked')
    BY <1>3 DEF ResetLocking
  <2> DEFINE locked == scenesLocked'
  <2>2. locked \in BOOLEAN /\ ~locked /\ UpdateOf(ResetScript(script), locked)
    BY <2>1
  <2> HIDE DEF locked
  <2> QED
    BY <1>2, <2>2
<1>4. CASE LeaveHeading \/ Reopen \/ EndImport \/ RemoveTimer \/ PasteTimer
  <2>1. ~scenesLocked
        /\ (UpdateOf(script, scenesLocked) \/ UpdateOf(ResetScript(script), scenesLocked))
    BY <1>4 DEF LeaveHeading, Reopen, EndImport, RemoveTimer, PasteTimer, Update
  <2> QED
    BY <1>1, <1>2, <2>1
<1>5. CASE ImportScene
  <2>1. script' = Append(script, Blank(NoId))
    BY <1>5 DEF ImportScene
  <2>2. Blank(NoId) \in Bringing
    BY BlankBrings
  <2> QED
    BY <1>1, <2>1, <2>2
<1>6. CASE BeginImport \/ CancelImport \/ CloseImport \/ HeaderTimer
  <2>1. script' = script
    BY <1>6 DEF BeginImport, CancelImport, CloseImport, HeaderTimer
  <2> QED
    BY <1>1, <2>1
<1>7. ASSUME NEW i \in DOMAIN script, Copy(i)
      PROVE  script' \in Seq(Bringing)
  BY <1>1, <1>7 DEF Copy
<1>8. ASSUME NEW lock \in BOOLEAN, CreateRevision(lock)
      PROVE  script' \in Seq(Bringing)
  BY <1>1, <1>8 DEF CreateRevision
<1>9. ASSUME NEW i \in DOMAIN script, NEW t \in Texts,
             Type(i, t) \/ FillHeading(i, t) \/ OmitScene(i, t)
      PROVE  script' \in Seq(Bringing)
  <2>1. scenesLocked' = scenesLocked
    BY <1>9 DEF Type, FillHeading, OmitScene
  <2> QED
    BY <1>9, <2>1, EditBrings
<1>10. ASSUME NEW i \in DOMAIN script,
              \/ UnmakeHeading(i) \/ Delete(i) \/ DeleteScene(i)
              \/ \E j \in DOMAIN script : MoveScene(i, j)
       PROVE  script' \in Seq(Bringing)
  <2>1. scenesLocked' = scenesLocked
    BY <1>10 DEF UnmakeHeading, Delete, DeleteScene, MoveScene, OutlineEdit
  <2> QED
    BY <1>10, <2>1, TakenOutBrings
<1>11. ASSUME NEW i \in 1 .. Len(script) + 1,
              \/ Restore(i) \/ PasteOwn(i) \/ PasteForeign(i)
              \/ MakeHeading(i, Blank(NoId)) \/ MakeHeading(i, clip)
       PROVE  script' \in Seq(Bringing)
  <2>1. scenesLocked' = scenesLocked
    BY <1>11 DEF Restore, PasteOwn, PasteForeign, Paste, MakeHeading
  <2> QED
    BY <1>11, <2>1, PutInBrings
<1> QED
  BY <1>3, <1>4, <1>5, <1>6, <1>7, <1>8, <1>9, <1>10, <1>11 DEF Next, System

(***************************************************************************)
(* While numbers are not locked no heading gets a number of several        *)
(* levels: after every edit, update, timer and import it has one level or  *)
(* a number that a heading of the script, or the one that came back, had   *)
(* before, in a script of any length and with numbers of any depth         *)
(* (AssignDefaultSceneNumber, Update, HandleInsertedEvent).                *)
(***************************************************************************)
THEOREM LevelsOnlyComeBack == Spec => LevelsAreForLocked
<1>1. ASSUME Ruled, Next, ~scenesLocked', NEW i \in DOMAIN script', Len(script'[i].num) > 1
      PROVE  \/ \E j \in DOMAIN script : script[j].num = script'[i].num
             \/ clip # NoHeading /\ clip.num = script'[i].num
  <2> DEFINE h == script'[i]
  <2>1. script' \in Seq(Bringing)
    BY <1>1, StepBrings
  <2>2. h \in Bringing
    BY <1>1, <2>1
  <2>3. h.num \in Seq(Nat) /\ Len(h.num) > 1
    BY <1>1, <2>2 DEF Bringing, NumberedHeading, Heading
  <2>4. Len(h.num) \in Nat /\ Brought(h.num)
    BY <2>2, <2>3 DEF Bringing
  <2> QED
    BY <2>3, <2>4 DEF Brought
<1>2. Ruled /\ [Next]_vars =>
        [~scenesLocked' =>
           \A i \in DOMAIN script' :
             Len(script'[i].num) > 1 =>
               \/ \E j \in DOMAIN script : script[j].num = script'[i].num
               \/ clip # NoHeading /\ clip.num = script'[i].num]_vars
  BY <1>1
<1> QED
  BY <1>2, SpecRules, PTL DEF Spec, LevelsAreForLocked
===============================================================================
