-------------------------- MODULE SceneNumbersProofs --------------------------
(***************************************************************************)
(* Theorems about the numbers of scenes, for every depth and every number. *)
(***************************************************************************)
EXTENDS SceneNumbers, Induction

LEMMA SharedDepthIsMin ==
  ASSUME NEW left \in Seq(Nat), NEW right \in Seq(Nat)
  PROVE  /\ SharedDepth(left, right) \in Nat
         /\ SharedDepth(left, right) <= Len(left)
         /\ SharedDepth(left, right) <= Len(right)
         /\ Len(left) <= Len(right) => SharedDepth(left, right) = Len(left)
         /\ Len(left) >= Len(right) => SharedDepth(left, right) = Len(right)
BY DEF SharedDepth

(***************************************************************************)
(* What Update() accepts as it is, a number that is seamless with the one  *)
(* before it, sorts after that one (NumbersAreSeamless and the sortord of  *)
(* UpdateSceneNumberLiterals).                                             *)
(***************************************************************************)
THEOREM SeamlessIncreases ==
  ASSUME NEW left \in Seq(Nat), NEW right \in Seq(Nat),
         left # NoNumber, right # NoNumber, NumbersAreSeamless(left, right)
  PROVE  Before(left, right)
<1> DEFINE s == SharedDepth(left, right)
<1>1. Len(left) \in Nat \ {0} /\ Len(right) \in Nat \ {0}
  BY DEF NoNumber
<1>2. /\ \A i \in 1 .. s - 1 : left[i] = right[i]
      /\ IF Len(left) >= Len(right) THEN right[s] = left[s] + 1
         ELSE right[s] = left[s]
  BY DEF NumbersAreSeamless
<1>3. CASE Len(left) >= Len(right)
  <2>1. s = Len(right) /\ s \in 1 .. Len(left)
    BY <1>1, <1>3, SharedDepthIsMin
  <2>2. left[s] < right[s]
    BY <1>2, <1>3, <2>1
  <2> QED
    BY <1>2, <2>1, <2>2 DEF Before
<1>4. CASE Len(left) < Len(right)
  <2>1. s = Len(left) /\ s >= 1
    BY <1>1, <1>4, SharedDepthIsMin
  <2>2. \A i \in 1 .. Len(left) : left[i] = right[i]
    BY <1>1, <1>2, <1>4, <2>1
  <2> QED
    BY <1>4, <2>2 DEF Before
<1> QED
  BY <1>1, <1>3, <1>4

LEMMA IncrementType ==
  ASSUME NEW n \in Seq(Nat), n # NoNumber
  PROVE  /\ Increment(n) \in Seq(Nat)
         /\ Len(Increment(n)) = Len(n)
         /\ Increment(n)[Len(n)] = n[Len(n)] + 1
         /\ \A i \in 1 .. Len(n) - 1 : Increment(n)[i] = n[i]
<1>a. Len(n) \in Nat \ {0}
  BY DEF NoNumber
<1>1. Len(n) \in 1 .. Len(n) /\ DOMAIN n = 1 .. Len(n)
  BY <1>a
<1> DEFINE m == [i \in 1 .. Len(n) |-> IF i = Len(n) THEN n[i] + 1 ELSE n[i]]
<1>2. Increment(n) = m
  BY <1>1 DEF Increment
<1>3. m \in [1 .. Len(n) -> Nat]
  BY <1>1
<1>4. m \in Seq(Nat) /\ Len(m) = Len(n)
  BY <1>3
<1>5. m[Len(n)] = n[Len(n)] + 1
  BY <1>1
<1>6. \A i \in 1 .. Len(n) - 1 : m[i] = n[i]
  <2> TAKE i \in 1 .. Len(n) - 1
  <2>1. i \in 1 .. Len(n) /\ i # Len(n)
    BY <1>a
  <2> QED
    BY <2>1
<1> HIDE DEF m
<1> QED
  BY <1>2, <1>4, <1>5, <1>6

(***************************************************************************)
(* Extending the left number: the new one follows it and its last level    *)
(* leaves the right one the successor it was.                              *)
(***************************************************************************)
LEMMA ExtendingFits ==
  ASSUME NEW left \in Seq(Nat), NEW right \in Seq(Nat),
         IsNumber(left), IsNumber(right), NumbersAreSeamless(left, right),
         Len(left) > Len(right), Len(right) < MaxDepth
  PROVE  /\ Extending(left, right) = Between(Increment(left))
         /\ IsNumber(Increment(left))
         /\ NumbersAreSeamless(left, Increment(left))
         /\ NumbersAreSeamless(Increment(left), right)
<1> DEFINE b == Increment(left)
<1>1. Len(left) \in 1 .. MaxDepth /\ Len(right) \in 1 .. MaxDepth /\ MaxDepth \in Nat
  BY DepthAssumption DEF IsNumber
<1>2. left # NoNumber
  BY <1>1 DEF NoNumber
<1>3. /\ b \in Seq(Nat) /\ Len(b) = Len(left)
      /\ b[Len(left)] = left[Len(left)] + 1
      /\ \A i \in 1 .. Len(left) - 1 : b[i] = left[i]
  BY <1>2, IncrementType
<1>4. Extending(left, right) = Between(b)
  BY <1>1 DEF Extending
<1>5. IsNumber(b)
  BY <1>1, <1>3 DEF IsNumber
<1> HIDE DEF b
<1>6. NumbersAreSeamless(left, b)
  <2>1. SharedDepth(left, b) = Len(left)
    BY <1>3, SharedDepthIsMin
  <2> QED
    BY <1>1, <1>3, <2>1 DEF NumbersAreSeamless
<1>7. NumbersAreSeamless(b, right)
  <2>1. SharedDepth(left, right) = Len(right) /\ SharedDepth(b, right) = Len(right)
    <3>1. Len(left) >= Len(right) /\ Len(b) >= Len(right)
      BY <1>1, <1>3
    <3> QED
      BY <1>3, <3>1, SharedDepthIsMin
  <2>2. /\ Len(left) <= Len(right) + 1
        /\ \A i \in 1 .. Len(right) - 1 : left[i] = right[i]
        /\ right[Len(right)] = left[Len(right)] + 1
    BY <2>1, <1>1 DEF NumbersAreSeamless
  <2>3. \A i \in 1 .. Len(right) : b[i] = left[i]
    BY <1>1, <1>3, <2>2
  <2> QED
    BY <1>1, <1>3, <2>1, <2>2, <2>3 DEF NumbersAreSeamless
<1> QED
  BY <1>4, <1>5, <1>6, <1>7 DEF b

(***************************************************************************)
(* A number one level below the left one, padded with zeros to the depth   *)
(* of the right one.                                                       *)
(***************************************************************************)
LEMMA DescendingFits ==
  ASSUME NEW left \in Seq(Nat), NEW right \in Seq(Nat),
         IsNumber(left), IsNumber(right), NumbersAreSeamless(left, right),
         Len(left) <= Len(right), Len(right) < MaxDepth
  PROVE  \E b \in Seq(Nat) :
           /\ Descending(left, right) = Between(b)
           /\ IsNumber(b)
           /\ NumbersAreSeamless(left, b)
           /\ NumbersAreSeamless(b, right)
<1> DEFINE m == Len(right) + 1
           b == [i \in 1 .. Len(right) + 1 |->
                   IF i <= Len(left) THEN left[i]
                   ELSE IF i <= Len(right) THEN 0 ELSE 1]
<1>1. Len(left) \in 1 .. MaxDepth /\ Len(right) \in 1 .. MaxDepth /\ MaxDepth \in Nat
  BY DepthAssumption DEF IsNumber
<1>2. Descending(left, right) = Between(b)
  BY <1>1 DEF Descending
<1>3. b \in Seq(Nat) /\ Len(b) = m
  <2>1. \A i \in 1 .. m : b[i] \in Nat
    BY <1>1
  <2>2. b \in [1 .. m -> Nat] /\ m \in Nat
    BY <1>1, <2>1
  <2> QED
    BY <2>2
<1>4. /\ \A i \in 1 .. Len(left) : b[i] = left[i]
      /\ \A i \in Len(left) + 1 .. Len(right) : b[i] = 0
      /\ b[m] = 1
  BY <1>1
<1>5. IsNumber(b)
  BY <1>1, <1>3 DEF IsNumber
<1> HIDE DEF b
<1>6. NumbersAreSeamless(left, b)
  <2>1. SharedDepth(left, b) = Len(left)
    BY <1>1, <1>3, SharedDepthIsMin
  <2> QED
    BY <1>1, <1>3, <1>4, <2>1 DEF NumbersAreSeamless
<1>7. NumbersAreSeamless(b, right)
  <2>1. SharedDepth(left, right) = Len(left) /\ SharedDepth(b, right) = Len(right)
    BY <1>1, <1>3, SharedDepthIsMin
  <2>2. \A i \in 1 .. Len(left) - 1 : left[i] = right[i]
    BY <2>1 DEF NumbersAreSeamless
  <2>3. CASE Len(left) = Len(right)
    <3>1. right[Len(right)] = left[Len(right)] + 1
      BY <1>1, <2>1, <2>3 DEF NumbersAreSeamless
    <3> QED
      BY <1>1, <1>3, <1>4, <2>1, <2>2, <2>3, <3>1 DEF NumbersAreSeamless
  <2>4. CASE Len(left) < Len(right)
    <3>1. /\ right[Len(left)] = left[Len(left)]
          /\ \A i \in Len(left) + 1 .. Len(right) - 1 : right[i] = 0
          /\ right[Len(right)] = 1
      BY <1>1, <2>1, <2>4 DEF NumbersAreSeamless
    <3>2. \A i \in 1 .. Len(right) - 1 : b[i] = right[i]
      <4> TAKE i \in 1 .. Len(right) - 1
      <4>1. CASE i < Len(left)
        <5>1. i \in 1 .. Len(left) - 1 /\ i \in 1 .. Len(left)
          BY <1>1, <4>1
        <5> QED
          BY <1>4, <2>2, <5>1
      <4>2. CASE i = Len(left)
        BY <1>1, <1>4, <3>1, <4>2
      <4>3. CASE i > Len(left)
        <5>1. i \in Len(left) + 1 .. Len(right) - 1 /\ i \in Len(left) + 1 .. Len(right)
          BY <1>1, <4>3
        <5> QED
          BY <1>4, <3>1, <5>1
      <4> QED
        BY <1>1, <4>1, <4>2, <4>3
    <3>3. right[Len(right)] = b[Len(right)] + 1
      BY <1>1, <1>4, <2>4, <3>1
    <3> QED
      BY <1>1, <1>3, <2>1, <2>4, <3>2, <3>3 DEF NumbersAreSeamless
  <2> QED
    BY <1>1, <2>3, <2>4
<1> QED
  BY <1>2, <1>3, <1>5, <1>6, <1>7

(***************************************************************************)
(* Between two seamless numbers there is room while a level is left: the   *)
(* new number is seamless with both, so that neither they nor any later    *)
(* one has to change.  This is why a heading put into a locked script      *)
(* leaves its numbers alone (NumberBetweenNumbers).                        *)
(***************************************************************************)
THEOREM SeamlessHasRoom ==
  ASSUME NEW left \in Seq(Nat), NEW right \in Seq(Nat),
         IsNumber(left), IsNumber(right), NumbersAreSeamless(left, right),
         Len(right) < MaxDepth
  PROVE  \E b \in Seq(Nat) :
           /\ NumberBetweenNumbers(left, right) = Between(b)
           /\ IsNumber(b)
           /\ NumbersAreSeamless(left, b)
           /\ NumbersAreSeamless(b, right)
<1>1. left # NoNumber /\ right # NoNumber
  BY DEF IsNumber, NoNumber
<1>2. Len(left) \in Nat /\ Len(right) \in Nat
  OBVIOUS
<1>3. CASE Len(left) > Len(right)
  <2>1. NumberBetweenNumbers(left, right) = Extending(left, right)
    BY <1>1, <1>3 DEF NumberBetweenNumbers
  <2> QED
    BY <2>1, <1>3, ExtendingFits DEF IsNumber
<1>4. CASE Len(left) <= Len(right)
  <2>1. NumberBetweenNumbers(left, right) = Descending(left, right)
    BY <1>1, <1>2, <1>4 DEF NumberBetweenNumbers
  <2> QED
    BY <2>1, <1>4, DescendingFits
<1> QED
  BY <1>2, <1>3, <1>4

(***************************************************************************)
(* So its place in the order of sortord strings is between the two.        *)
(***************************************************************************)
COROLLARY RoomIsBetween ==
  ASSUME NEW left \in Seq(Nat), NEW right \in Seq(Nat),
         IsNumber(left), IsNumber(right), NumbersAreSeamless(left, right),
         Len(right) < MaxDepth
  PROVE  /\ Before(left, NumberBetweenNumbers(left, right).number)
         /\ Before(NumberBetweenNumbers(left, right).number, right)
         /\ ~NumberBetweenNumbers(left, right).propagate
<1>1. PICK b \in Seq(Nat) :
        /\ NumberBetweenNumbers(left, right) = Between(b)
        /\ IsNumber(b)
        /\ NumbersAreSeamless(left, b)
        /\ NumbersAreSeamless(b, right)
  BY SeamlessHasRoom
<1>2. left # NoNumber /\ right # NoNumber /\ b # NoNumber
  BY <1>1 DEF IsNumber, NoNumber
<1> QED
  BY <1>1, <1>2, SeamlessIncreases DEF Between
-----------------------------------------------------------------------------
LEMMA BeforeTransitive ==
  ASSUME NEW a \in Seq(Nat), NEW b \in Seq(Nat), NEW c \in Seq(Nat),
         Before(a, b), Before(b, c)
  PROVE  Before(a, c)
<1> DEFINE Forks(l, r, k) == /\ k \in 1 .. Len(l) /\ k \in 1 .. Len(r)
                             /\ l[k] < r[k] /\ \A i \in 1 .. k - 1 : l[i] = r[i]
           Extends(l, r) == Len(l) < Len(r) /\ \A i \in 1 .. Len(l) : l[i] = r[i]
<1>1. /\ Len(a) \in Nat /\ Len(b) \in Nat /\ Len(c) \in Nat
      /\ \A i \in 1 .. Len(a) : a[i] \in Nat
      /\ \A i \in 1 .. Len(b) : b[i] \in Nat
      /\ \A i \in 1 .. Len(c) : c[i] \in Nat
  OBVIOUS
<1>2. ASSUME NEW l \in Seq(Nat), NEW r \in Seq(Nat)
      PROVE  Before(l, r) <=> Extends(l, r) \/ \E k \in Nat : Forks(l, r, k)
  <2>1. /\ Len(l) \in Nat /\ Len(r) \in Nat
        /\ \A k \in Nat : k \in 1 .. SharedDepth(l, r) <=> k \in 1 .. Len(l) /\ k \in 1 .. Len(r)
        /\ 1 .. SharedDepth(l, r) \subseteq Nat
    BY DEF SharedDepth
  <2> QED
    BY <2>1 DEF Before
<1>3. CASE Extends(a, b) /\ Extends(b, c)
  <2>1. Extends(a, c)
    BY <1>1, <1>3
  <2> QED
    BY <1>2, <2>1
<1>4. ASSUME Extends(a, b), NEW k \in Nat, Forks(b, c, k)
      PROVE  Before(a, c)
  <2>a. /\ Len(a) < Len(b) /\ \A i \in 1 .. Len(a) : a[i] = b[i]
        /\ k \in 1 .. Len(b) /\ k \in 1 .. Len(c) /\ b[k] < c[k]
        /\ \A i \in 1 .. k - 1 : b[i] = c[i]
    BY <1>4
  <2>1. CASE k <= Len(a)
    <3>2. k \in 1 .. Len(a) /\ a[k] < c[k]
      BY <1>1, <2>a, <2>1
    <3>3. \A i \in 1 .. k - 1 : a[i] = c[i]
      BY <1>1, <2>a, <2>1
    <3>1. Forks(a, c, k)
      BY <2>a, <3>2, <3>3
    <3> QED
      BY <1>2, <3>1
  <2>2. CASE k > Len(a)
    <3>2. Len(a) < Len(c)
      BY <1>1, <2>a, <2>2
    <3>3. \A i \in 1 .. Len(a) : a[i] = c[i]
      BY <1>1, <2>a, <2>2
    <3>1. Extends(a, c)
      BY <3>2, <3>3
    <3> QED
      BY <1>2, <3>1
  <2> QED
    BY <1>1, <2>1, <2>2
<1>5. ASSUME Extends(b, c), NEW k \in Nat, Forks(a, b, k)
      PROVE  Before(a, c)
  <2>1. Forks(a, c, k)
    BY <1>1, <1>5
  <2> QED
    BY <1>2, <2>1
<1>6. ASSUME NEW k \in Nat, Forks(a, b, k), NEW m \in Nat, Forks(b, c, m)
      PROVE  Before(a, c)
  <2>1. /\ k \in 1 .. Len(a) /\ k \in 1 .. Len(b) /\ a[k] < b[k]
        /\ \A i \in 1 .. k - 1 : a[i] = b[i]
    BY <1>6
  <2>2. /\ m \in 1 .. Len(b) /\ m \in 1 .. Len(c) /\ b[m] < c[m]
        /\ \A i \in 1 .. m - 1 : b[i] = c[i]
    BY <1>6
  <2>3. CASE k <= m
    <3>0. k \in 1 .. Len(c)
      BY <1>1, <2>1, <2>2, <2>3
    <3>1. a[k] \in Nat /\ b[k] \in Nat /\ c[k] \in Nat /\ k \in 1 .. Len(c)
      BY <1>1, <2>1, <3>0
    <3>2. b[k] <= c[k]
      <4>1. CASE k = m
        BY <2>2, <3>1, <4>1
      <4>2. CASE k < m
        <5>1. k \in 1 .. m - 1
          BY <4>2, <2>1, <2>2
        <5> QED
          BY <2>2, <3>1, <5>1
      <4> QED
        BY <2>3, <4>1, <4>2
    <3>3. a[k] < c[k]
      BY <2>1, <3>1, <3>2
    <3>4. \A i \in 1 .. k - 1 : a[i] = c[i]
      BY <1>1, <2>1, <2>2, <2>3
    <3>5. Forks(a, c, k)
      BY <2>1, <3>1, <3>3, <3>4
    <3> QED
      BY <1>2, <3>5
  <2>4. CASE m < k
    <3>1. m \in 1 .. Len(a) /\ a[m] < c[m]
      BY <1>1, <2>1, <2>2, <2>4
    <3>2. \A i \in 1 .. m - 1 : a[i] = c[i]
      BY <1>1, <2>1, <2>2, <2>4
    <3>3. Forks(a, c, m)
      BY <2>2, <3>1, <3>2
    <3> QED
      BY <1>2, <3>3
  <2> QED
    BY <2>3, <2>4
<1> HIDE DEF Forks, Extends
<1> QED
  BY <1>2, <1>3, <1>4, <1>5, <1>6

LEMMA PrefixType ==
  ASSUME NEW n \in Seq(Nat), NEW k \in 1 .. Len(n)
  PROVE  /\ SubSeq(n, 1, k) \in Seq(Nat) /\ Len(SubSeq(n, 1, k)) = k
         /\ SubSeq(n, 1, k) # NoNumber
         /\ \A i \in 1 .. k : SubSeq(n, 1, k)[i] = n[i]
BY DEF NoNumber

LEMMA CountedUpIsAfter ==
  ASSUME NEW left \in Seq(Nat), NEW k \in 1 .. Len(left)
  PROVE  /\ Increment(SubSeq(left, 1, k)) \in Seq(Nat)
         /\ Len(Increment(SubSeq(left, 1, k))) = k
         /\ Before(left, Increment(SubSeq(left, 1, k)))
<1> DEFINE cut == SubSeq(left, 1, k)
           up == Increment(cut)
<1>1. /\ Len(left) \in Nat /\ k \in Nat \ {0} /\ k <= Len(left)
      /\ left[k] \in Nat
  OBVIOUS
<1>2. cut \in Seq(Nat) /\ Len(cut) = k /\ cut # NoNumber /\ \A i \in 1 .. k : cut[i] = left[i]
  BY PrefixType
<1> HIDE DEF cut
<1>3. up \in Seq(Nat) /\ Len(up) = k /\ up[k] = cut[k] + 1 /\ \A i \in 1 .. k - 1 : up[i] = cut[i]
  BY <1>2, IncrementType
<1> HIDE DEF up
<1>4. left[k] < up[k] /\ \A i \in 1 .. k - 1 : left[i] = up[i]
  BY <1>1, <1>2, <1>3
<1>5. k \in 1 .. SharedDepth(left, up)
  BY <1>1, <1>3 DEF SharedDepth
<1>6. Before(left, up)
  BY <1>4, <1>5 DEF Before
<1> QED
  BY <1>3, <1>6 DEF up, cut

LEMMA LongerIsAfter ==
  ASSUME NEW left \in Seq(Nat), IsNumber(left)
  PROVE  LET n == Fit(left \o <<1>>)
         IN n \in Seq(Nat) /\ IsNumber(n) /\ Before(left, n)
<1> DEFINE n == left \o <<1>>
<1>1. Len(left) \in 1 .. MaxDepth /\ MaxDepth \in Nat \ {0}
  BY DepthAssumption DEF IsNumber
<1>2. n \in Seq(Nat) /\ Len(n) = Len(left) + 1 /\ \A i \in 1 .. Len(left) : n[i] = left[i]
  OBVIOUS
<1> HIDE DEF n
<1>3. CASE Len(left) < MaxDepth
  <2>1. Fit(n) = n
    BY <1>1, <1>2, <1>3 DEF Fit
  <2>2. IsNumber(n)
    BY <1>1, <1>2, <1>3 DEF IsNumber
  <2>3. Before(left, n)
    BY <1>1, <1>2 DEF Before
  <2> QED
    BY <1>2, <2>1, <2>2, <2>3 DEF n
<1>4. CASE Len(left) = MaxDepth
  <2>1. SubSeq(n, 1, MaxDepth) = left
    <3>1. MaxDepth \in 1 .. Len(n)
      BY <1>1, <1>2, <1>4
    <3> DEFINE cut == SubSeq(n, 1, MaxDepth)
    <3>2. cut \in Seq(Nat) /\ Len(cut) = MaxDepth /\ \A i \in 1 .. MaxDepth : cut[i] = n[i]
      BY <1>2, <3>1, PrefixType
    <3> HIDE DEF cut
    <3>3. cut = left
      BY <1>2, <1>4, <3>2, SameSequence
    <3> QED
      BY <3>3 DEF cut
  <2>2. SubSeq(left, 1, Len(left)) = left
    OBVIOUS
  <2>3. Fit(n) = Increment(left)
    <3>1. ~(Len(n) <= MaxDepth)
      BY <1>1, <1>2, <1>4
    <3> QED
      BY <2>1, <3>1 DEF Fit
  <2>4. /\ Increment(left) \in Seq(Nat) /\ Len(Increment(left)) = Len(left)
        /\ Before(left, Increment(left))
    <3>1. Len(left) \in 1 .. Len(left)
      BY <1>1
    <3> QED
      BY <2>2, <3>1, CountedUpIsAfter
  <2>5. IsNumber(Increment(left))
    BY <1>1, <2>4 DEF IsNumber
  <2> QED
    BY <2>3, <2>4, <2>5 DEF n
<1> QED
  BY <1>1, <1>3, <1>4

(***************************************************************************)
(* On the way from left to a number that it is not seamless with, the next *)
(* number comes after left, whichever of the two is the greater.           *)
(***************************************************************************)
LEMMA GapNumberIsAfter ==
  ASSUME NEW left \in Seq(Nat), NEW right \in Seq(Nat),
         IsNumber(left), IsNumber(right)
  PROVE  LET n == NumberForGap(left, right)
         IN n \in Seq(Nat) /\ IsNumber(n) /\ Before(left, n)
<1> DEFINE target == IF IsPrefix(right, left) THEN <<left[1] + 1>> ELSE right
           s == SharedDepth(left, target)
           fork == {i \in 1 .. s : left[i] # target[i]}
           k == CHOOSE i \in fork : \A j \in fork : i <= j
           Counted(m) == Increment(SubSeq(left, 1, m))
<1>1. /\ Len(left) \in 1 .. MaxDepth /\ Len(right) \in 1 .. MaxDepth
      /\ MaxDepth \in Nat \ {0} /\ left[1] \in Nat
  BY DepthAssumption DEF IsNumber
<1>2. target \in Seq(Nat) /\ Len(target) \in 1 .. MaxDepth
  BY <1>1
<1>3. ASSUME NEW m \in 1 .. Len(left)
      PROVE  LET n == Fit(Counted(m))
             IN n \in Seq(Nat) /\ IsNumber(n) /\ Before(left, n)
  <2>1. Counted(m) \in Seq(Nat) /\ Len(Counted(m)) = m /\ Before(left, Counted(m))
    BY CountedUpIsAfter
  <2> HIDE DEF Counted
  <2>2. m <= MaxDepth /\ m >= 1 /\ m \in Nat
    BY <1>1
  <2> QED
    BY <2>1, <2>2 DEF Fit, IsNumber
<1>4. s \in Nat /\ s <= Len(left) /\ s <= Len(target)
      /\ (Len(left) <= Len(target) => s = Len(left))
      /\ (Len(left) >= Len(target) => s = Len(target))
  <2> HIDE DEF target
  <2> QED
    BY <1>2, SharedDepthIsMin
<1>5. CASE fork = {}
  <2>1. \A i \in 1 .. s : left[i] = target[i]
    BY <1>5
  <2>2. Len(left) <= Len(target)
    <3> SUFFICES ASSUME Len(left) > Len(target) PROVE FALSE
      BY <1>1, <1>2
    <3>1. s = Len(target)
      BY <1>1, <1>2, <1>4
    <3>2. CASE IsPrefix(right, left)
      <4>1. target = <<left[1] + 1>> /\ s = 1
        BY <3>1, <3>2
      <4> QED
        BY <1>1, <2>1, <4>1
    <3>3. CASE ~IsPrefix(right, left)
      <4>1. target = right /\ s = Len(right)
        BY <3>1, <3>3
      <4>a. /\ Len(right) \in Nat \ {0} /\ Len(left) \in Nat /\ Len(right) < Len(left)
            /\ \A i \in 1 .. Len(right) : left[i] = right[i]
        <5> HIDE DEF target, s, fork, k, Counted
        <5> QED
          BY <1>1, <2>1, <4>1
      <4> HIDE DEF target, s, fork, k, Counted
      <4>2. SubSeq(right, 1, Len(right)) = SubSeq(left, 1, Len(right))
        <5>1. Len(right) \in 1 .. Len(left) /\ Len(right) \in 1 .. Len(right)
          BY <4>a
        <5> DEFINE r == SubSeq(right, 1, Len(right))
                   l == SubSeq(left, 1, Len(right))
        <5>2. r \in Seq(Nat) /\ Len(r) = Len(right) /\ \A i \in 1 .. Len(right) : r[i] = right[i]
          BY <5>1, PrefixType
        <5>3. l \in Seq(Nat) /\ Len(l) = Len(right) /\ \A i \in 1 .. Len(right) : l[i] = left[i]
          BY <5>1, PrefixType
        <5> HIDE DEF r, l
        <5>4. r = l
          BY <4>a, <5>2, <5>3, SameSequence
        <5> QED
          BY <5>4 DEF r, l
      <4>3. IsPrefix(right, left)
        BY <4>a, <4>2 DEF IsPrefix
      <4> QED
        BY <3>3, <4>3
    <3> QED
      BY <3>2, <3>3
  <2>3. SubSeq(left, 1, s) = left
    BY <1>4, <2>2
  <2>4. NumberForGap(left, right) = Fit(left \o <<1>>)
    BY <1>5, <2>3 DEF NumberForGap
  <2> QED
    BY <2>4, LongerIsAfter
<1>6. CASE fork # {}
  <2>1. k \in fork
    <3>1. fork \subseteq Nat
      BY <1>4
    <3> HIDE DEF fork
    <3>2. \E i \in fork : \A j \in fork : i <= j
      BY <1>6, <3>1, LeastOf
    <3> QED
      BY <3>2
  <2>2. k \in 1 .. s /\ k \in 1 .. Len(left)
    BY <1>1, <1>4, <2>1
  <2>3. CASE k = s /\ target[k] = left[k] + 1 /\ Len(left) > Len(target)
    <3>1. NumberForGap(left, right) = Fit(Counted(k + 1))
      BY <1>6, <2>3 DEF NumberForGap
    <3> HIDE DEF Counted, k, fork, s, target
    <3>2. k + 1 \in 1 .. Len(left)
      BY <1>1, <1>2, <1>4, <2>2, <2>3
    <3> QED
      BY <1>3, <3>1, <3>2
  <2>4. CASE ~(k = s /\ target[k] = left[k] + 1 /\ Len(left) > Len(target))
    <3>1. NumberForGap(left, right) = Fit(Counted(k))
      BY <1>6, <2>4 DEF NumberForGap
    <3> HIDE DEF Counted, k
    <3> QED
      BY <1>3, <2>2, <3>1
  <2> QED
    BY <2>3, <2>4
<1> QED
  BY <1>5, <1>6

(***************************************************************************)
(* NumberBetweenNumbers always finds a number of the allowed depth, and it *)
(* comes after the left one, also where no level is left and where the two *)
(* numbers are out of order, so that renumbering goes forward.             *)
(***************************************************************************)
THEOREM FoundNumberIsAfter ==
  ASSUME NEW left \in Seq(Nat), NEW right \in Seq(Nat),
         left = NoNumber \/ IsNumber(left), right = NoNumber \/ IsNumber(right)
  PROVE  LET found == NumberBetweenNumbers(left, right)
         IN /\ found.number \in Seq(Nat) /\ IsNumber(found.number)
            /\ found.propagate \in BOOLEAN
            /\ left # NoNumber => Before(left, found.number)
<1> DEFINE found == NumberBetweenNumbers(left, right)
           Good(n) == n \in Seq(Nat) /\ IsNumber(n) /\ (left # NoNumber => Before(left, n))
<1>a. SUFFICES Good(found.number) /\ found.propagate \in BOOLEAN
  OBVIOUS
<1>b. MaxDepth \in Nat \ {0}
  BY DepthAssumption
<1>c. ASSUME NEW n, Good(n), found = Between(n) \/ found = Overflow(n)
      PROVE  Good(found.number) /\ found.propagate \in BOOLEAN
  <2>1. found.number = n /\ found.propagate \in BOOLEAN
    <3> HIDE DEF found, Good
    <3>1. CASE found = Between(n)
      BY <3>1 DEF Between
    <3>2. CASE found = Overflow(n)
      BY <3>2 DEF Overflow
    <3> QED
      BY <1>c, <3>1, <3>2
  <2> HIDE DEF Good, found
  <2> QED
    BY <1>c, <2>1
<1>1. CASE right = NoNumber /\ left = NoNumber
  <2>1. found = Between(<<1>>)
    BY <1>1 DEF NumberBetweenNumbers
  <2>2. Good(<<1>>)
    BY <1>1, <1>b DEF IsNumber
  <2> QED
    BY <1>c, <2>1, <2>2
<1>2. CASE right = NoNumber /\ left # NoNumber
  <2>1. found = Between(<<left[1] + 1>>)
    BY <1>2 DEF NumberBetweenNumbers
  <2>2. Len(left) \in Nat \ {0} /\ left[1] \in Nat
    BY <1>2 DEF NoNumber
  <2>3. <<left[1] + 1>> \in Seq(Nat) /\ Len(<<left[1] + 1>>) = 1 /\ IsNumber(<<left[1] + 1>>)
    BY <1>b, <2>2 DEF IsNumber
  <2>4. Before(left, <<left[1] + 1>>)
    <3> DEFINE n == <<left[1] + 1>>
    <3>1. 1 \in 1 .. SharedDepth(left, n)
      BY <2>2, <2>3 DEF SharedDepth
    <3>2. left[1] < n[1] /\ \A i \in 1 .. 1 - 1 : left[i] = n[i]
      BY <2>2
    <3> HIDE DEF n
    <3>3. Before(left, n)
      BY <3>1, <3>2 DEF Before
    <3> QED
      BY <3>3 DEF n
  <2> QED
    BY <1>c, <2>1, <2>3, <2>4
<1>3. CASE right # NoNumber /\ left = NoNumber
  <2>1. found = BeforeFirst(right)
    BY <1>3 DEF NumberBetweenNumbers
  <2>2. Len(right) \in 1 .. MaxDepth /\ IsNumber(right)
    BY <1>3 DEF IsNumber
  <2>3. Good(<<1>>)
    BY <1>3, <1>b DEF IsNumber
  <2>4. Good(right)
    BY <1>3
  <2>5. Len(right) # MaxDepth => Good([right EXCEPT ![Len(right)] = 0] \o <<1>>)
    <3> DEFINE n == [right EXCEPT ![Len(right)] = 0]
    <3>1. n \in Seq(Nat) /\ Len(n) = Len(right)
      BY <2>2
    <3> HIDE DEF n
    <3>2. n \o <<1>> \in Seq(Nat) /\ Len(n \o <<1>>) = Len(right) + 1
      BY <3>1
    <3>3. Len(right) # MaxDepth => Good(n \o <<1>>)
      BY <1>3, <1>b, <2>2, <3>2 DEF IsNumber
    <3> QED
      BY <3>3 DEF n
  <2>6. \/ found = Between(<<1>>)
        \/ found = Overflow(right)
        \/ Len(right) # MaxDepth /\ found = Between([right EXCEPT ![Len(right)] = 0] \o <<1>>)
    BY <2>1 DEF BeforeFirst
  <2> HIDE DEF Good, found
  <2> QED
    BY <1>c, <2>3, <2>4, <2>5, <2>6
<1>4. CASE right # NoNumber /\ left # NoNumber /\ ~NumbersAreSeamless(left, right)
  <2>1. found = Between(NumberForGap(left, right))
    BY <1>4 DEF NumberBetweenNumbers
  <2>2. Good(NumberForGap(left, right))
    BY <1>4, GapNumberIsAfter
  <2> HIDE DEF Good, found
  <2> QED
    BY <1>c, <2>1, <2>2
<1>5. CASE right # NoNumber /\ left # NoNumber /\ NumbersAreSeamless(left, right)
  <2>1. IsNumber(left) /\ IsNumber(right)
    BY <1>5
  <2>2. CASE Len(right) < MaxDepth
    <3>1. PICK b \in Seq(Nat) : found = Between(b) /\ IsNumber(b) /\ NumbersAreSeamless(left, b)
      BY <1>5, <2>1, <2>2, SeamlessHasRoom
    <3>2. b # NoNumber
      BY <3>1 DEF IsNumber, NoNumber
    <3>3. Good(b)
      BY <1>5, <3>1, <3>2, SeamlessIncreases
    <3> HIDE DEF Good, found
    <3> QED
      BY <1>c, <3>1, <3>3
  <2>3. CASE Len(right) = MaxDepth
    <3>1. Len(left) <= Len(right)
      BY <1>b, <2>1, <2>3 DEF IsNumber
    <3>2. found = Overflow(right)
      BY <1>5, <1>b, <2>1, <2>3, <3>1 DEF NumberBetweenNumbers, Descending, IsNumber
    <3>3. Good(right)
      BY <1>5, <2>1, SeamlessIncreases
    <3> HIDE DEF Good, found
    <3> QED
      BY <1>c, <3>2, <3>3
  <2> QED
    BY <1>b, <2>1, <2>2, <2>3 DEF IsNumber
<1> QED
  BY <1>1, <1>2, <1>3, <1>4, <1>5
===============================================================================
