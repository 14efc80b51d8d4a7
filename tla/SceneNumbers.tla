----------------------------- MODULE SceneNumbers -----------------------------
(***************************************************************************)
(* The numbers of scenes (nsSceneNumberService.cpp).  A number is a        *)
(* sequence of naturals, one per level: 1, 1.1, 1.0.1, ...  When the       *)
(* numbers of a script are locked, a scene added between two others gets a *)
(* number between theirs, one level deeper if need be.                     *)
(***************************************************************************)
EXTENDS Integers, SequencesExt

CONSTANT MaxDepth   \* DEFAULT_MAX_SCENE_DEPTH, 8 in nsISceneNumberService.idl

ASSUME DepthAssumption == MaxDepth \in Nat \ {0}

NoNumber == <<>>   \* no scenenumber attribute, or no scene

IsNumber(n) == n \in Seq(Nat) /\ Len(n) \in 1 .. MaxDepth

SharedDepth(left, right) == IF Len(left) < Len(right) THEN Len(left) ELSE Len(right)

(***************************************************************************)
(* The order of the sortord strings: every component is padded to four     *)
(* digits, so strings compare as the sequences do, prefixes first (up to   *)
(* 9999 scenes).                                                           *)
(***************************************************************************)
Before(left, right) ==
  \/ /\ Len(left) < Len(right)
     /\ \A i \in 1 .. Len(left) : left[i] = right[i]
  \/ \E k \in 1 .. SharedDepth(left, right) :
       /\ left[k] < right[k]
       /\ \A i \in 1 .. k - 1 : left[i] = right[i]

\* A fault: a gap between two numbers of one level is overlooked.
NumbersAreInOrder(left, right) ==
  LET s == SharedDepth(left, right)
  IN /\ Len(left) <= Len(right) + 1
     /\ \A i \in 1 .. s - 1 : left[i] = right[i]
     /\ IF Len(left) >= Len(right)
        THEN right[s] > left[s]
        ELSE /\ right[s] = left[s]
             /\ \A i \in s + 1 .. Len(right) - 1 : right[i] = 0
             /\ right[Len(right)] = 1

\* Nothing is missing between the two numbers: right is the successor of
\* left, or its first descendant (as 1.1 or 1.0.1 of 1).
NumbersAreSeamless(left, right) ==
  LET s == SharedDepth(left, right)
  IN /\ Len(left) <= Len(right) + 1
     /\ \A i \in 1 .. s - 1 : left[i] = right[i]
     /\ IF Len(left) >= Len(right)
        THEN right[s] = left[s] + 1
        ELSE /\ right[s] = left[s]
             /\ \A i \in s + 1 .. Len(right) - 1 : right[i] = 0
             /\ right[Len(right)] = 1

Increment(n) == [n EXCEPT ![Len(n)] = @ + 1]

\* A number that is too deep is cut and its last level counted up.
Fit(n) == IF Len(n) <= MaxDepth THEN n ELSE Increment(SubSeq(n, 1, MaxDepth))

(***************************************************************************)
(* NumberForGap: the number after left on the way to right, when they are  *)
(* not seamless.  If right is a prefix of left (out of order, or equal),   *)
(* the way leads to the next number of the top level instead.              *)
(***************************************************************************)
NumberForGap(left, right) ==
  LET target == IF IsPrefix(right, left) THEN <<left[1] + 1>> ELSE right
      s == SharedDepth(left, target)
      fork == {i \in 1 .. s : left[i] # target[i]}
      k == CHOOSE i \in fork : \A j \in fork : i <= j
  IN Fit(IF fork = {} THEN SubSeq(left, 1, s) \o <<1>>
         ELSE IF k = s /\ target[k] = left[k] + 1 /\ Len(left) > Len(target)
         THEN Increment(SubSeq(left, 1, k + 1))
         ELSE Increment(SubSeq(left, 1, k)))

(***************************************************************************)
(* NumberBetweenNumbers: the number for a scene between two others (either *)
(* may be missing), and whether the scenes that follow must be renumbered  *)
(* because no level was left.                                              *)
(***************************************************************************)
Between(number) == [number |-> number, propagate |-> FALSE]
Overflow(number) == [number |-> number, propagate |-> TRUE]

BeforeFirst(right) ==
  IF right[1] > 1 \/ (right[1] = 1 /\ Len(right) > 1) THEN Between(<<1>>)
  ELSE IF Len(right) = MaxDepth THEN Overflow(right)
  ELSE Between([right EXCEPT ![Len(right)] = 0] \o <<1>>)

Extending(left, right) ==
  IF Len(right) = MaxDepth THEN Overflow(Increment(SubSeq(left, 1, MaxDepth)))
  ELSE Between(Increment(left))

\* A fault: no level is left and one is added.
DescendingTooDeep(left, right) ==
  Between([i \in 1 .. Len(right) + 1 |->
             IF i <= Len(left) THEN left[i] ELSE IF i <= Len(right) THEN 0 ELSE 1])

Descending(left, right) ==
  IF Len(right) = MaxDepth THEN Overflow(right)
  ELSE Between([i \in 1 .. Len(right) + 1 |->
                  IF i <= Len(left) THEN left[i]
                  ELSE IF i <= Len(right) THEN 0 ELSE 1])

NumberBetweenNumbers(left, right) ==
  IF right = NoNumber
  THEN Between(<<IF left = NoNumber THEN 1 ELSE left[1] + 1>>)
  ELSE IF left = NoNumber THEN BeforeFirst(right)
  ELSE IF ~NumbersAreSeamless(left, right) THEN Between(NumberForGap(left, right))
  ELSE IF Len(left) > Len(right) THEN Extending(left, right)
  ELSE Descending(left, right)
===============================================================================
