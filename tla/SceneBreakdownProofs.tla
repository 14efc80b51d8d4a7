------------------------- MODULE SceneBreakdownProofs -------------------------
(***************************************************************************)
(* The lists of the breakdown, for any items, departments, scenes and      *)
(* edits: they are well formed, complete and free of removed items; and    *)
(* the loop that strips a list while it enumerates it strips at least half *)
(* of what it should.                                                      *)
(***************************************************************************)
EXTENDS SceneBreakdown, Induction, FiniteSetTheorems

\* RemoveElement(): the element goes, those behind it move up.
LEMMA RemovedElement ==
  ASSUME NEW S, NEW q \in Distinct(S), NEW p \in 1 .. Len(q)
  PROVE  LET r == RemoveElement(q, q[p])
         IN /\ r \in Distinct(S) /\ Len(r) = Len(q) - 1
            /\ \A i \in 1 .. p - 1 : r[i] = q[i]
            /\ \A i \in p .. Len(q) - 1 : r[i] = q[i + 1]
            /\ ToSet(r) = ToSet(q) \ {q[p]}
BY RemovedFirst DEF RemoveElement

LEMMA AnyRemoved ==
  ASSUME NEW S, NEW q \in Distinct(S), NEW x
  PROVE  RemoveElement(q, x) \in Distinct(S) /\ ToSet(RemoveElement(q, x)) = ToSet(q) \ {x}
<1>1. CASE x \in ToSet(q)
  <2>1. PICK p \in 1 .. Len(q) : q[p] = x
    BY <1>1, DistinctAre
  <2> QED
    BY <2>1, RemovedElement
<1>2. CASE x \notin ToSet(q)
  BY <1>2, NothingRemoved DEF RemoveElement
<1> QED
  BY <1>1, <1>2

LEMMA AppendedDistinct ==
  ASSUME NEW S, NEW q \in Distinct(S), NEW x \in S
  PROVE  AppendElement(q, x) \in Distinct(S) /\ ToSet(AppendElement(q, x)) = ToSet(q) \cup {x}
<1> DEFINE n == Len(q)
<1>1. /\ q \in Seq(S) /\ n \in Nat /\ DOMAIN q = 1 .. n
      /\ \A i, j \in 1 .. n : q[i] = q[j] => i = j
      /\ ToSet(q) = {q[i] : i \in 1 .. n}
  BY DistinctAre
<1>2. CASE Contains(q, x)
  BY <1>1, <1>2 DEF Contains, AppendElement
<1>3. CASE ~Contains(q, x)
  <2> DEFINE r == Append(q, x)
  <2>1. AppendElement(q, x) = r
    BY <1>3 DEF AppendElement
  <2>2. /\ r \in Seq(S) /\ Len(r) = n + 1 /\ DOMAIN r = 1 .. n + 1
        /\ \A i \in 1 .. n : r[i] = q[i]
        /\ r[n + 1] = x
    BY <1>1
  <2>3. \A i \in 1 .. n : q[i] # x
    BY <1>3 DEF Contains
  <2> HIDE DEF r, n
  <2>4. \A i \in 1 .. n + 1 : i \in 1 .. n \/ i = n + 1
    BY <1>1
  <2>5. IsInjective(r)
    BY <1>1, <2>2, <2>3, <2>4 DEF IsInjective
  <2>6. ToSet(r) = ToSet(q) \cup {x}
    <3>1. \A i \in 1 .. n : i \in 1 .. n + 1
      BY <1>1
    <3>2. n + 1 \in 1 .. n + 1
      BY <1>1
    <3>3. ToSet(r) = {r[i] : i \in 1 .. n + 1}
      BY <2>2 DEF ToSet
    <3> QED
      BY <1>1, <2>2, <2>4, <3>1, <3>2, <3>3
  <2> QED
    BY <2>1, <2>2, <2>5, <2>6 DEF Distinct
<1> QED
  BY <1>2, <1>3
-----------------------------------------------------------------------------
(***************************************************************************)
(* The department lists of a scene.                                        *)
(***************************************************************************)
GoodLists ==
  {d \in DepartmentList : /\ d.items # <<>> /\ IsInjective(d.items)
                          /\ d.size = Len(d.items)
                          /\ \A i \in ToSet(d.items) : DeptOf[i] = d.dept}

WellFormed(depts) ==
  /\ depts \in Seq(GoodLists)
  /\ \A j, k \in 1 .. Len(depts) : depts[j].dept = depts[k].dept => j = k

LEMMA GoodListsAre ==
  ASSUME NEW d \in GoodLists
  PROVE  /\ d \in DepartmentList /\ d.items \in Distinct(Items) /\ d.items # <<>>
         /\ d.dept \in Range(DeptOf)
         /\ \A i \in ToSet(d.items) : i \in Items /\ DeptOf[i] = d.dept
         /\ d = [dept |-> d.dept, items |-> d.items, size |-> d.size]
BY DistinctAre DEF GoodLists, DepartmentList, Distinct

LEMMA MadeGood ==
  ASSUME NEW dept \in Range(DeptOf), NEW q \in Distinct(Items), q # <<>>,
         \A i \in ToSet(q) : DeptOf[i] = dept
  PROVE  [dept |-> dept, items |-> q, size |-> Len(q)] \in GoodLists
<1> DEFINE d == [dept |-> dept, items |-> q, size |-> Len(q)]
<1>1. q \in Seq(Items) /\ IsInjective(q) /\ Len(q) \in Nat
  BY DistinctAre DEF Distinct
<1>2. d.dept = dept /\ d.items = q /\ d.size = Len(q)
  OBVIOUS
<1>3. d \in DepartmentList
  BY <1>1 DEF DepartmentList
<1> HIDE DEF d
<1> QED
  BY <1>1, <1>2, <1>3 DEF GoodLists, d

LEMMA DeptsAre ==
  ASSUME NEW depts, WellFormed(depts)
  PROVE  /\ Len(depts) \in Nat /\ DOMAIN depts = 1 .. Len(depts)
         /\ \A k \in 1 .. Len(depts) : depts[k] \in GoodLists
BY DEF WellFormed

LEMMA ListedAre ==
  ASSUME NEW depts, NEW n \in Nat, DOMAIN depts = 1 .. n, NEW x
  PROVE  x \in Listed(depts) <=> \E k \in 1 .. n : x \in ToSet(depts[k].items)
BY DEF Listed

\* GetDeptSequence(): the list of the item's department is the only one that
\* can hold it.
LEMMA DeptOfItem ==
  ASSUME NEW depts, WellFormed(depts), NEW item \in Items
  PROVE  LET k == DeptSequence(depts, item)
         IN \/ /\ k = 0 /\ item \notin Listed(depts)
               /\ \A j \in 1 .. Len(depts) : depts[j].dept # DeptOf[item]
            \/ /\ k \in 1 .. Len(depts) /\ depts[k].dept = DeptOf[item]
               /\ \A j \in 1 .. Len(depts) : item \in ToSet(depts[j].items) => j = k
<1> DEFINE n == Len(depts)
           I == {i \in 1 .. Len(depts) : depts[i].dept = DeptOf[item]}
           k == DeptSequence(depts, item)
<1>1. /\ n \in Nat /\ DOMAIN depts = 1 .. n
      /\ \A j \in 1 .. n : depts[j] \in GoodLists
      /\ \A i, j \in 1 .. n : depts[i].dept = depts[j].dept => i = j
  BY DeptsAre DEF WellFormed
<1>2. k = IF I # {} THEN Min(I) ELSE 0
  BY DEF DeptSequence, SelectInSeq
<1>3. \A j \in 1 .. n : item \in ToSet(depts[j].items) => depts[j].dept = DeptOf[item]
  BY <1>1, GoodListsAre
<1> HIDE DEF k
<1>4. CASE I = {}
  <2>1. k = 0 /\ \A j \in 1 .. n : depts[j].dept # DeptOf[item]
    BY <1>2, <1>4
  <2>2. item \notin Listed(depts)
    BY <1>1, <1>3, <2>1, ListedAre
  <2> QED
    BY <2>1, <2>2 DEF k
<1>5. CASE I # {}
  <2>1. Min(I) \in I
    <3>1. I \subseteq 1 .. n
      OBVIOUS
    <3> HIDE DEF I, n
    <3> QED
      BY <1>1, <1>5, <3>1, LeastIndex
  <2>2. k \in 1 .. n /\ depts[k].dept = DeptOf[item]
    BY <1>2, <1>5, <2>1
  <2>3. \A j \in 1 .. n : item \in ToSet(depts[j].items) => j = k
    BY <1>1, <1>3, <2>2
  <2> QED
    BY <2>2, <2>3 DEF k
<1> QED
  BY <1>4, <1>5

\* A list is replaced by one of the same department.
Replaced(depts, k, d) == [depts EXCEPT ![k] = d]

LEMMA ReplacedList ==
  ASSUME NEW depts, WellFormed(depts), NEW k \in 1 .. Len(depts),
         NEW d \in GoodLists, d.dept = depts[k].dept
  PROVE  /\ WellFormed(Replaced(depts, k, d))
         /\ \A x : x \in Listed(Replaced(depts, k, d)) <=>
                     \/ x \in ToSet(d.items)
                     \/ \E j \in 1 .. Len(depts) : j # k /\ x \in ToSet(depts[j].items)
<1> DEFINE n == Len(depts)
           new == Replaced(depts, k, d)
<1>1. /\ depts \in Seq(GoodLists) /\ n \in Nat /\ DOMAIN depts = 1 .. n
      /\ \A j \in 1 .. n : depts[j] \in GoodLists
      /\ \A i, j \in 1 .. n : depts[i].dept = depts[j].dept => i = j
  BY DeptsAre DEF WellFormed
<1>2. /\ new \in Seq(GoodLists) /\ Len(new) = n /\ DOMAIN new = 1 .. n
      /\ new[k] = d /\ \A j \in 1 .. n : j # k => new[j] = depts[j]
  BY <1>1 DEF Replaced
<1> HIDE DEF new, n
<1>3. \A j \in 1 .. n : new[j].dept = depts[j].dept
  BY <1>2
<1>4. WellFormed(new)
  BY <1>1, <1>2, <1>3 DEF WellFormed
<1>5. ASSUME NEW x
      PROVE  x \in Listed(new) <=>
               \/ x \in ToSet(d.items)
               \/ \E j \in 1 .. n : j # k /\ x \in ToSet(depts[j].items)
  <2>1. x \in Listed(new) <=> \E j \in 1 .. n : x \in ToSet(new[j].items)
    BY <1>1, <1>2, ListedAre
  <2>2. k \in 1 .. n
    BY DEF n
  <2> QED
    BY <1>2, <2>1, <2>2
<1> QED
  BY <1>4, <1>5 DEF new, n

\* AddItem(): the item is listed, whatever was.
LEMMA AddedItem ==
  ASSUME NEW depts, WellFormed(depts), NEW item \in Items
  PROVE  /\ WellFormed(AddItem(depts, item))
         /\ Listed(AddItem(depts, item)) = Listed(depts) \cup {item}
<1> DEFINE n == Len(depts)
           k == DeptSequence(depts, item)
           new == AddItem(depts, item)
<1>1. /\ depts \in Seq(GoodLists) /\ n \in Nat /\ DOMAIN depts = 1 .. n
      /\ \A j \in 1 .. n : depts[j] \in GoodLists
      /\ \A i, j \in 1 .. n : depts[i].dept = depts[j].dept => i = j
  BY DeptsAre DEF WellFormed
<1>2. DeptOf[item] \in Range(DeptOf)
  BY BreakdownAssumption DEF Range
<1>3. CASE k = 0
  <2> DEFINE d == [dept |-> DeptOf[item], items |-> <<item>>, size |-> 1]
  <2>1. new = Append(depts, d)
    BY <1>3 DEF AddItem
  <2>2. <<item>> \in Distinct(Items) /\ <<item>> # <<>> /\ Len(<<item>>) = 1
        /\ ToSet(<<item>>) = {item}
    BY DEF Distinct, IsInjective, ToSet
  <2>3. d \in GoodLists
    BY <1>2, <2>2, MadeGood
  <2>4. d.dept = DeptOf[item] /\ ToSet(d.items) = {item}
    BY <2>2
  <2>5. \A j \in 1 .. n : depts[j].dept # DeptOf[item]
    BY <1>3, DeptOfItem
  <2> HIDE DEF d, new
  <2>6. /\ new \in Seq(GoodLists) /\ Len(new) = n + 1 /\ DOMAIN new = 1 .. n + 1
        /\ new[n + 1] = d /\ \A j \in 1 .. n : new[j] = depts[j]
    BY <1>1, <2>1, <2>3
  <2>7. \A j \in 1 .. n + 1 : j \in 1 .. n \/ j = n + 1
    BY <1>1
  <2> HIDE DEF n
  <2>8. WellFormed(new)
    BY <1>1, <2>4, <2>5, <2>6, <2>7 DEF WellFormed
  <2>9. ASSUME NEW x
        PROVE  x \in Listed(new) <=> x \in Listed(depts) \cup {item}
    <3>1. x \in Listed(new) <=> \E j \in 1 .. n + 1 : x \in ToSet(new[j].items)
      BY <1>1, <2>6, ListedAre
    <3>2. x \in Listed(depts) <=> \E j \in 1 .. n : x \in ToSet(depts[j].items)
      BY <1>1, ListedAre
    <3>3. n + 1 \in 1 .. n + 1 /\ \A j \in 1 .. n : j \in 1 .. n + 1
      BY <1>1
    <3> QED
      BY <2>4, <2>6, <2>7, <3>1, <3>2, <3>3
  <2> QED
    BY <2>8, <2>9 DEF new
<1>4. CASE k # 0
  <2> DEFINE q == AppendElement(depts[k].items, item)
             d == [dept |-> depts[k].dept, items |-> q, size |-> Len(q)]
  <2>1. k \in 1 .. n /\ depts[k].dept = DeptOf[item]
    BY <1>4, DeptOfItem
  <2>2. /\ depts[k].items \in Distinct(Items)
        /\ \A i \in ToSet(depts[k].items) : DeptOf[i] = depts[k].dept
        /\ depts[k] = [dept |-> depts[k].dept, items |-> depts[k].items, size |-> depts[k].size]
    BY <1>1, <2>1, GoodListsAre
  <2>3. new = Replaced(depts, k, d)
    <3>1. Sized(depts[k], q) = d
      BY DEF Sized
    <3>2. new = Replaced(depts, k, Sized(depts[k], q))
      BY <1>1, <1>4, <2>1 DEF AddItem, Replaced
    <3> QED
      BY <3>1, <3>2
  <2>4. q \in Distinct(Items) /\ ToSet(q) = ToSet(depts[k].items) \cup {item}
    BY <2>2, AppendedDistinct
  <2>5. q # <<>>
    BY <2>4 DEF ToSet
  <2>6. d \in GoodLists
    <3> HIDE DEF q, k
    <3>1. \A i \in ToSet(q) : DeptOf[i] = depts[k].dept
      BY <2>1, <2>2, <2>4
    <3> QED
      BY <1>2, <2>1, <2>4, <2>5, <3>1, MadeGood
  <2>7. d.dept = depts[k].dept /\ d.items = q
    OBVIOUS
  <2> HIDE DEF d, q, new, k
  <2>8. /\ WellFormed(new)
        /\ \A x : x \in Listed(new) <=>
                    \/ x \in ToSet(q)
                    \/ \E j \in 1 .. n : j # k /\ x \in ToSet(depts[j].items)
    BY <2>1, <2>3, <2>6, <2>7, ReplacedList
  <2>9. \A x : x \in Listed(depts) <=> \E j \in 1 .. n : x \in ToSet(depts[j].items)
    BY <1>1, ListedAre
  <2> HIDE DEF n
  <2> QED
    BY <2>1, <2>4, <2>8, <2>9 DEF new
<1> QED
  BY <1>3, <1>4

\* RemoveItem(): the item is listed no more, the others are; an item without
\* a type stays.
LEMMA RemovedItem ==
  ASSUME NEW depts, WellFormed(depts), NEW item \in Items
  PROVE  /\ WellFormed(RemoveItem(depts, item))
         /\ Listed(RemoveItem(depts, item)) = Listed(depts) \ ({item} \cap live)
<1> DEFINE n == Len(depts)
           k == DeptSequence(depts, item)
           new == RemoveItem(depts, item)
           rest == RemoveElement(depts[k].items, item)
<1>1. /\ depts \in Seq(GoodLists) /\ n \in Nat /\ DOMAIN depts = 1 .. n
      /\ \A j \in 1 .. n : depts[j] \in GoodLists
      /\ \A i, j \in 1 .. n : depts[i].dept = depts[j].dept => i = j
  BY DeptsAre DEF WellFormed
<1>2. CASE k = 0 \/ item \notin live
  <2>1. new = depts
    BY <1>2 DEF RemoveItem
  <2>2. item \notin Listed(depts) \/ item \notin live
    BY <1>2, DeptOfItem
  <2> QED
    BY <2>1, <2>2
<1>3. ASSUME k # 0, item \in live
      PROVE  WellFormed(new) /\ Listed(new) = Listed(depts) \ {item}
  <2>1. /\ k \in 1 .. n /\ depts[k].dept = DeptOf[item]
        /\ \A j \in 1 .. n : item \in ToSet(depts[j].items) => j = k
    BY <1>3, DeptOfItem
  <2>2. /\ depts[k].items \in Distinct(Items) /\ depts[k].dept \in Range(DeptOf)
        /\ \A i \in ToSet(depts[k].items) : DeptOf[i] = depts[k].dept
        /\ depts[k] = [dept |-> depts[k].dept, items |-> depts[k].items, size |-> depts[k].size]
    BY <1>1, <2>1, GoodListsAre
  <2>3. rest \in Distinct(Items) /\ ToSet(rest) = ToSet(depts[k].items) \ {item}
    BY <2>2, AnyRemoved
  <2>4. \A x : x \in Listed(depts) <=> \E j \in 1 .. n : x \in ToSet(depts[j].items)
    BY <1>1, ListedAre
  <2>5. ASSUME rest # <<>>
        PROVE  WellFormed(new) /\ Listed(new) = Listed(depts) \ {item}
    <3> DEFINE d == [dept |-> depts[k].dept, items |-> rest, size |-> Len(rest)]
    <3>1. new = Replaced(depts, k, d)
      <4>1. Sized(depts[k], rest) = d
        BY DEF Sized
      <4>2. new = Replaced(depts, k, Sized(depts[k], rest))
        BY <1>1, <1>3, <2>1, <2>5 DEF RemoveItem, Replaced
      <4> QED
        BY <4>1, <4>2
    <3>2. d.dept = depts[k].dept /\ d.items = rest
      OBVIOUS
    <3> HIDE DEF rest, new, k
    <3>3. d \in GoodLists
      BY <2>2, <2>3, <2>5, MadeGood
    <3> HIDE DEF d
    <3>4. /\ WellFormed(new)
          /\ \A x : x \in Listed(new) <=>
                      \/ x \in ToSet(rest)
                      \/ \E j \in 1 .. n : j # k /\ x \in ToSet(depts[j].items)
      BY <2>1, <3>1, <3>2, <3>3, ReplacedList
    <3> HIDE DEF n
    <3> QED
      BY <2>1, <2>3, <2>4, <3>4
  <2>6. ASSUME rest = <<>>
        PROVE  WellFormed(new) /\ Listed(new) = Listed(depts) \ {item}
    <3>1. new = RemoveAt(depts, k)
      BY <1>3, <2>6 DEF RemoveItem
    <3>2. ToSet(rest) = {}
      BY <2>6 DEF ToSet
    <3> HIDE DEF rest, new, k, n
    <3>3. k \in 1 .. Len(depts)
      BY <2>1 DEF n
    <3>4. /\ new \in Seq(GoodLists) /\ Len(new) = n - 1
          /\ \A i \in 1 .. k - 1 : new[i] = depts[i]
          /\ \A i \in k .. n - 1 : new[i] = depts[i + 1]
      BY <1>1, <3>1, <3>3, WithoutElement DEF n
    <3> DEFINE Was(i) == IF i < k THEN i ELSE i + 1
    <3>5. \A i \in 1 .. n - 1 : Was(i) \in 1 .. n /\ Was(i) # k /\ new[i] = depts[Was(i)]
      BY <1>1, <2>1, <3>4
    <3>6. \A i, j \in 1 .. n - 1 : Was(i) = Was(j) => i = j
      BY <1>1, <2>1
    <3>7. \A i \in 1 .. n : i # k => \E j \in 1 .. n - 1 : Was(j) = i
      <4> SUFFICES ASSUME NEW i \in 1 .. n, i # k PROVE \E j \in 1 .. n - 1 : Was(j) = i
        OBVIOUS
      <4>1. CASE i < k
        <5>1. i \in 1 .. n - 1 /\ Was(i) = i
          BY <1>1, <2>1, <4>1
        <5> QED
          BY <5>1
      <4>2. CASE i > k
        <5>1. i - 1 \in 1 .. n - 1 /\ Was(i - 1) = i
          BY <1>1, <2>1, <4>2
        <5> QED
          BY <5>1
      <4> QED
        BY <1>1, <2>1, <4>1, <4>2
    <3> HIDE DEF Was
    <3>8. WellFormed(new)
      <4>1. \A i, j \in 1 .. n - 1 : new[i].dept = new[j].dept => i = j
        BY <1>1, <3>5, <3>6
      <4> QED
        BY <3>4, <4>1 DEF WellFormed
    <3>9. n - 1 \in Nat /\ DOMAIN new = 1 .. n - 1
      BY <1>1, <2>1, <3>4
    <3>10. \A x : x \in Listed(new) <=> \E j \in 1 .. n - 1 : x \in ToSet(new[j].items)
      BY <3>9, ListedAre
    <3> QED
      BY <2>1, <2>3, <2>4, <3>2, <3>5, <3>7, <3>8, <3>10
  <2> QED
    BY <2>5, <2>6
<1> QED
  BY <1>2, <1>3
-----------------------------------------------------------------------------
(***************************************************************************)
(* The loop that strips a list.  A visit that removes an element makes the *)
(* enumerator pass over one element, so that of the elements it should     *)
(* have removed it has passed over at most as many as it removed.          *)
(***************************************************************************)
StaleTo(q, m, keep) == {q[i] : i \in 1 .. m} \ keep

LEMMA StaleToAre ==
  ASSUME NEW S, IsFiniteSet(S), NEW q \in Seq(S), NEW keep
  PROVE  /\ StaleTo(q, 0, keep) = {} /\ Cardinality(StaleTo(q, 0, keep)) = 0
         /\ \A m \in 0 .. Len(q) : /\ IsFiniteSet(StaleTo(q, m, keep))
                                   /\ Cardinality(StaleTo(q, m, keep)) \in Nat
         /\ StaleTo(q, Len(q), keep) = ToSet(q) \ keep
<1>1. StaleTo(q, 0, keep) = {}
  BY DEF StaleTo
<1>2. ASSUME NEW m \in 0 .. Len(q)
      PROVE  IsFiniteSet(StaleTo(q, m, keep)) /\ Cardinality(StaleTo(q, m, keep)) \in Nat
  <2>1. StaleTo(q, m, keep) \in SUBSET S
    BY DEF StaleTo
  <2> QED
    BY <2>1, FS_Subset, FS_CardinalityType
<1>3. StaleTo(q, Len(q), keep) = ToSet(q) \ keep
  BY DEF StaleTo, ToSet
<1> QED
  BY <1>1, <1>2, <1>3, FS_EmptySet

LEMMA StaleGrows ==
  ASSUME NEW S, IsFiniteSet(S), NEW q \in Seq(S), NEW keep, NEW m \in 1 .. Len(q)
  PROVE  /\ Cardinality(StaleTo(q, m, keep)) <= Cardinality(StaleTo(q, m - 1, keep)) + 1
         /\ q[m] \in keep => StaleTo(q, m, keep) = StaleTo(q, m - 1, keep)
<1> DEFINE before == StaleTo(q, m - 1, keep)
           after == StaleTo(q, m, keep)
<1>1. Len(q) \in Nat /\ m \in Nat /\ m - 1 \in 0 .. Len(q)
  OBVIOUS
<1>2. IsFiniteSet(before) /\ Cardinality(before) \in Nat
  BY <1>1, StaleToAre
<1>3. after = IF q[m] \in keep THEN before ELSE before \cup {q[m]}
  <2>1. \A i \in 1 .. m : i \in 1 .. m - 1 \/ i = m
    BY <1>1
  <2>2. m \in 1 .. m /\ \A i \in 1 .. m - 1 : i \in 1 .. m
    BY <1>1
  <2> QED
    BY <2>1, <2>2 DEF StaleTo
<1> HIDE DEF before, after
<1>4. CASE q[m] \in keep
  BY <1>2, <1>3, <1>4 DEF before, after
<1>5. CASE q[m] \notin keep
  <2>1. Cardinality(before \cup {q[m]}) <= Cardinality(before) + 1
    <3>1. Cardinality(before \cup {q[m]}) =
            IF q[m] \in before THEN Cardinality(before) ELSE Cardinality(before) + 1
      BY <1>2, FS_AddElement
    <3> QED
      BY <1>2, <3>1
  <2> QED
    BY <1>3, <1>5, <2>1 DEF before, after
<1> QED
  BY <1>4, <1>5

LEMMA SameStale ==
  ASSUME NEW q, NEW r, NEW keep, NEW m \in Int, \A i \in 1 .. m : q[i] = r[i]
  PROVE  StaleTo(q, m, keep) = StaleTo(r, m, keep)
BY DEF StaleTo

\* Only one element behind those counted can be passed over.
LEMMA PassedOver ==
  ASSUME NEW S, IsFiniteSet(S), NEW q \in Seq(S), NEW keep, NEW k \in 0 .. Len(q),
         NEW debt \in {0, 1}, NEW c \in Nat,
         Cardinality(StaleTo(q, k, keep)) + debt <= c,
         NEW m \in k .. k + debt, m <= Len(q)
  PROVE  Cardinality(StaleTo(q, m, keep)) <= c
<1>1. Cardinality(StaleTo(q, k, keep)) \in Nat /\ k \in Nat /\ m \in Nat
  <2>1. Cardinality(StaleTo(q, k, keep)) \in Nat
    BY StaleToAre
  <2>2. Len(q) \in Nat /\ k \in Nat /\ debt \in Int
    OBVIOUS
  <2> QED
    BY <2>1, <2>2
<1>2. CASE m = k
  BY <1>1, <1>2
<1>3. CASE m = k + 1
  <2>1. m \in 1 .. Len(q) /\ m - 1 = k /\ debt = 1 /\ m \in 0 .. Len(q)
    BY <1>1, <1>3
  <2>2. Cardinality(StaleTo(q, m, keep)) \in Nat
    BY <2>1, StaleToAre
  <2>3. Cardinality(StaleTo(q, m, keep)) <= Cardinality(StaleTo(q, k, keep)) + 1
    BY <2>1, StaleGrows
  <2> QED
    BY <1>1, <2>1, <2>2, <2>3
<1> QED
  BY <1>1, <1>2, <1>3

\* The state of the loop.
Loop(left, x, next, gone) ==
  [left |-> left, at |-> [queued |-> x, next |-> next], gone |-> gone]

\* After j visits: what is gone was not to be kept, and the enumerator has
\* fetched x, at place p, one or two places before the next one; or it is at
\* the end.
Removing(list, keep, left, gone) ==
  /\ ToSet(gone) \subseteq ToSet(list) \ keep
  /\ ToSet(left) = ToSet(list) \ ToSet(gone)
  /\ Len(left) + Cardinality(ToSet(gone)) = Len(list)

Passing(keep, left, x, next, c, p, debt) ==
  /\ left[p] = x /\ next = p + 1 + debt
  /\ Cardinality(StaleTo(left, p - 1, keep)) + debt <= c

Ended(keep, left, c) == Cardinality(StaleTo(left, Len(left), keep)) <= c

VisitedTo(list, keep, r, j, left, x, next, gone) ==
  /\ r = Loop(left, x, next, gone)
  /\ Removing(list, keep, left, gone)
  /\ \/ x = NoElement /\ Ended(keep, left, Cardinality(ToSet(gone)))
     \/ /\ x # NoElement /\ next >= j + 2
        /\ \E p \in 1 .. Len(left), debt \in {0, 1} :
             Passing(keep, left, x, next, Cardinality(ToSet(gone)), p, debt)

Visited(S, list, keep, r, j) ==
  \E left \in Distinct(S), x \in S \cup {NoElement}, next \in Nat \ {0}, gone \in Seq(S) :
    VisitedTo(list, keep, r, j, left, x, next, gone)

\* The queued element and the next place after an element was fetched.
Fetched(q, next) == IF next > Len(q) THEN NoElement ELSE q[next]
After(q, next) == IF next > Len(q) THEN next ELSE next + 1

LEMMA HasMoreIs ==
  ASSUME NEW q, NEW next
  PROVE  HasMoreElements([queued |-> NoElement, next |-> next], q)
           = [queued |-> Fetched(q, next), next |-> After(q, next)]
BY DEF HasMoreElements, Fetched, After

LEMMA VisitKeeps ==
  ASSUME NEW left, NEW x, x # NoElement, NEW next, NEW gone, NEW keep, x \in keep
  PROVE  Visit(Loop(left, x, next, gone), keep)
           = Loop(left, Fetched(left, next), After(left, next), gone)
<1> DEFINE at == [queued |-> x, next |-> next]
           r == Loop(left, x, next, gone)
<1>1. r.left = left /\ r.at = at /\ r.gone = gone /\ r.at.queued = x
  BY DEF Loop
<1>2. [at EXCEPT !.queued = NoElement] = [queued |-> NoElement, next |-> next]
  OBVIOUS
<1>3. Advance(at, left) = [queued |-> Fetched(left, next), next |-> After(left, next)]
  BY <1>2, HasMoreIs DEF Advance
<1> HIDE DEF r, at
<1>4. Visit(r, keep) = [at |-> Advance(at, left), left |-> left, gone |-> gone]
  BY <1>1 DEF Visit
<1> QED
  BY <1>3, <1>4 DEF Loop, r

LEMMA VisitRemoves ==
  ASSUME NEW left, NEW x, x # NoElement, NEW next, NEW gone, NEW keep, x \notin keep
  PROVE  Visit(Loop(left, x, next, gone), keep)
           = Loop(RemoveElement(left, x), Fetched(left, next), After(left, next),
                  Append(gone, x))
<1> DEFINE at == [queued |-> x, next |-> next]
           r == Loop(left, x, next, gone)
<1>1. r.left = left /\ r.at = at /\ r.gone = gone /\ r.at.queued = x
  BY DEF Loop
<1>2. [at EXCEPT !.queued = NoElement] = [queued |-> NoElement, next |-> next]
  OBVIOUS
<1>3. Advance(at, left) = [queued |-> Fetched(left, next), next |-> After(left, next)]
  BY <1>2, HasMoreIs DEF Advance
<1> HIDE DEF r, at
<1>4. Visit(r, keep) = [at |-> Advance(at, left), left |-> RemoveElement(left, x),
                        gone |-> Append(gone, x)]
  BY <1>1 DEF Visit
<1> QED
  BY <1>3, <1>4 DEF Loop, r

LEMMA FirstVisited ==
  ASSUME NEW S, IsFiniteSet(S), NoElement \notin S, NEW list \in Distinct(S), NEW keep
  PROVE  Visited(S, list, keep, [left |-> list, at |-> GetElements(list), gone |-> <<>>], 0)
<1> DEFINE x == Fetched(list, 1)
           next == After(list, 1)
           gone == <<>>
           r == [left |-> list, at |-> GetElements(list), gone |-> <<>>]
<1>1. list \in Seq(S) /\ Len(list) \in Nat /\ \A i \in 1 .. Len(list) : list[i] \in S
  BY DistinctAre
<1>2. r = Loop(list, x, next, gone)
  BY HasMoreIs DEF GetElements, Loop
<1>3. ToSet(gone) = {} /\ Cardinality(ToSet(gone)) = 0 /\ gone \in Seq(S)
  BY FS_EmptySet DEF ToSet
<1> HIDE DEF r, gone
<1>4. Removing(list, keep, list, gone)
  BY <1>1, <1>3 DEF Removing
<1>5. Cardinality(StaleTo(list, 0, keep)) = 0
  BY <1>1, StaleToAre
<1>6. CASE Len(list) = 0
  <2>1. x = NoElement /\ next = 1
    BY <1>6 DEF Fetched, After
  <2>2. Ended(keep, list, Cardinality(ToSet(gone)))
    BY <1>3, <1>5, <1>6 DEF Ended
  <2>3. VisitedTo(list, keep, r, 0, list, x, next, gone)
    BY <1>2, <1>4, <2>1, <2>2 DEF VisitedTo
  <2>4. x \in S \cup {NoElement} /\ next \in Nat \ {0}
    BY <2>1
  <2> HIDE DEF x, next
  <2> QED
    BY <1>3, <2>3, <2>4 DEF Visited, r
<1>7. CASE Len(list) > 0
  <2>1. x = list[1] /\ next = 2 /\ 1 \in 1 .. Len(list)
    BY <1>1, <1>7 DEF Fetched, After
  <2>2. x \in S /\ x # NoElement
    BY <1>1, <2>1
  <2> HIDE DEF x, next
  <2>3. Passing(keep, list, x, next, Cardinality(ToSet(gone)), 1, 0)
    BY <1>3, <1>5, <2>1 DEF Passing
  <2>4. next >= 0 + 2 /\ next \in Nat \ {0}
    BY <2>1
  <2>5. 0 \in {0, 1}
    OBVIOUS
  <2>6. \E p \in 1 .. Len(list), debt \in {0, 1} :
          Passing(keep, list, x, next, Cardinality(ToSet(gone)), p, debt)
    BY <2>1, <2>3, <2>5
  <2>7. VisitedTo(list, keep, r, 0, list, x, next, gone)
    BY <1>2, <1>4, <2>2, <2>4, <2>6 DEF VisitedTo, x, next
  <2> QED
    BY <1>3, <2>2, <2>4, <2>7 DEF Visited, r
<1> QED
  BY <1>1, <1>6, <1>7

\* What an element that stays leaves behind the enumerator.
LEMMA KeptVisited ==
  ASSUME NEW S, IsFiniteSet(S), NoElement \notin S, NEW keep, NEW left \in Distinct(S),
         NEW c \in Nat, NEW next \in Nat,
         NEW p \in 1 .. Len(left), NEW debt \in {0, 1}, left[p] \in keep,
         Passing(keep, left, left[p], next, c, p, debt)
  PROVE  \/ Fetched(left, next) = NoElement /\ Ended(keep, left, c)
         \/ /\ Fetched(left, next) \in S /\ next \in 1 .. Len(left)
            /\ Passing(keep, left, Fetched(left, next), After(left, next), c, next, 0)
<1>1. left \in Seq(S) /\ Len(left) \in Nat /\ \A i \in 1 .. Len(left) : left[i] \in S
  BY DistinctAre
<1>2. next = p + 1 + debt /\ Cardinality(StaleTo(left, p, keep)) + debt <= c
  BY <1>1, StaleGrows DEF Passing
<1>3. p \in 0 .. Len(left) /\ c \in Nat
  BY <1>1
<1>4. \A m \in p .. p + debt : m <= Len(left) => Cardinality(StaleTo(left, m, keep)) <= c
  BY <1>1, <1>2, <1>3, PassedOver
<1>5. CASE next > Len(left)
  <2>1. Len(left) \in p .. p + debt
    BY <1>1, <1>2, <1>5
  <2>2. Cardinality(StaleTo(left, Len(left), keep)) <= c
    BY <1>1, <1>4, <2>1
  <2> QED
    BY <1>5, <2>2 DEF Fetched, Ended
<1>6. CASE next <= Len(left)
  <2>1. next - 1 \in p .. p + debt /\ next - 1 <= Len(left) /\ next \in 1 .. Len(left)
        /\ next - 1 \in 0 .. Len(left)
    BY <1>1, <1>2, <1>6
  <2>2. Cardinality(StaleTo(left, next - 1, keep)) <= c
    BY <1>4, <2>1
  <2>3. Cardinality(StaleTo(left, next - 1, keep)) \in Nat
    BY <1>1, <2>1, StaleToAre
  <2>4. Fetched(left, next) = left[next] /\ After(left, next) = next + 1
    BY <1>1, <1>6 DEF Fetched, After
  <2>5. Cardinality(StaleTo(left, next - 1, keep)) + 0 <= c /\ next + 1 = next + 1 + 0
    BY <2>2, <2>3
  <2>6. Passing(keep, left, left[next], next + 1, c, next, 0)
    BY <2>5 DEF Passing
  <2> QED
    BY <1>1, <2>1, <2>4, <2>6
<1> QED
  BY <1>1, <1>5, <1>6

RemovalLeaves(S, keep, left, next, rest, c) ==
  \/ Fetched(left, next) = NoElement /\ Ended(keep, rest, c)
  \/ /\ Fetched(left, next) \in S /\ next - 1 \in 1 .. Len(rest)
     /\ Passing(keep, rest, Fetched(left, next), After(left, next), c, next - 1, 1)

\* And one that goes: the next one has been fetched, the one between is
\* passed over.
LEMMA RemovedVisited ==
  ASSUME NEW S, IsFiniteSet(S), NoElement \notin S, NEW keep, NEW left \in Distinct(S),
         NEW c \in Nat, NEW next \in Nat,
         NEW p \in 1 .. Len(left), NEW debt \in {0, 1},
         Passing(keep, left, left[p], next, c, p, debt)
  PROVE  RemovalLeaves(S, keep, left, next, RemoveElement(left, left[p]), c + 1)
<1> DEFINE n == Len(left)
           rest == RemoveElement(left, left[p])
<1>1. left \in Seq(S) /\ n \in Nat /\ \A i \in 1 .. n : left[i] \in S
  BY DistinctAre
<1>2. /\ rest \in Distinct(S) /\ Len(rest) = n - 1
      /\ \A i \in 1 .. p - 1 : rest[i] = left[i]
      /\ \A i \in p .. n - 1 : rest[i] = left[i + 1]
  BY RemovedElement
<1>3. next = p + 1 + debt /\ Cardinality(StaleTo(left, p - 1, keep)) + debt <= c
  BY DEF Passing
<1>4. rest \in Seq(S)
  BY <1>2, DistinctAre
<1> HIDE DEF n, rest
<1>5. p \in Nat /\ 1 <= p /\ p <= n /\ p - 1 \in 0 .. Len(rest) /\ c \in Nat /\ p - 1 \in Int
  BY <1>1, <1>2 DEF n
<1>6. StaleTo(rest, p - 1, keep) = StaleTo(left, p - 1, keep)
  BY <1>2, <1>5, SameStale
<1>7. \A m \in p - 1 .. (p - 1) + debt :
        m <= Len(rest) => Cardinality(StaleTo(rest, m, keep)) <= c
  BY <1>3, <1>4, <1>5, <1>6, PassedOver
<1>8. CASE next > n
  <2>1. Len(rest) \in p - 1 .. (p - 1) + debt /\ Len(rest) \in 0 .. Len(rest)
    BY <1>1, <1>2, <1>3, <1>5, <1>8
  <2>2. Cardinality(StaleTo(rest, Len(rest), keep)) <= c
    BY <1>7, <2>1
  <2>3. Cardinality(StaleTo(rest, Len(rest), keep)) \in Nat
    BY <1>4, <2>1, StaleToAre
  <2>4. Cardinality(StaleTo(rest, Len(rest), keep)) <= c + 1
    BY <1>5, <2>2, <2>3
  <2> QED
    BY <1>8, <2>4 DEF Fetched, Ended, RemovalLeaves, n, rest
<1>9. CASE next <= n
  <2>1. /\ next - 2 \in p - 1 .. (p - 1) + debt /\ next - 2 <= Len(rest)
        /\ next - 2 \in 0 .. Len(rest) /\ next - 1 \in 1 .. Len(rest) /\ next - 1 \in p .. n - 1
        /\ (next - 1) + 1 = next /\ (next - 1) - 1 = next - 2 /\ next \in 1 .. n
        /\ next + 1 = (next - 1) + 1 + 1
    BY <1>1, <1>2, <1>3, <1>5, <1>9
  <2>2. Cardinality(StaleTo(rest, next - 2, keep)) <= c
    BY <1>7, <2>1
  <2>3. Cardinality(StaleTo(rest, next - 2, keep)) \in Nat
    BY <1>4, <2>1, StaleToAre
  <2>4. Cardinality(StaleTo(rest, (next - 1) - 1, keep)) + 1 <= c + 1
    BY <1>5, <2>1, <2>2, <2>3
  <2>5. rest[next - 1] = left[next]
    BY <1>2, <2>1
  <2>6. Fetched(left, next) = left[next] /\ After(left, next) = next + 1
    BY <1>1, <1>9 DEF Fetched, After, n
  <2>7. Passing(keep, rest, left[next], next + 1, c + 1, next - 1, 1)
    BY <2>1, <2>4, <2>5 DEF Passing
  <2> QED
    BY <1>1, <2>1, <2>6, <2>7 DEF RemovalLeaves, rest
<1> QED
  BY <1>1, <1>8, <1>9

\* One more visit.
LEMMA NextVisited ==
  ASSUME NEW S, IsFiniteSet(S), NoElement \notin S, NEW list \in Distinct(S), NEW keep,
         NEW r, NEW j \in Nat, Visited(S, list, keep, r, j)
  PROVE  Visited(S, list, keep, Visit(r, keep), j + 1)
<1>1. PICK left \in Distinct(S), x \in S \cup {NoElement}, next \in Nat \ {0}, gone \in Seq(S) :
        /\ r = Loop(left, x, next, gone)
        /\ Removing(list, keep, left, gone)
        /\ \/ x = NoElement /\ Ended(keep, left, Cardinality(ToSet(gone)))
           \/ /\ x # NoElement /\ next >= j + 2
              /\ \E p \in 1 .. Len(left), debt \in {0, 1} :
                   Passing(keep, left, x, next, Cardinality(ToSet(gone)), p, debt)
  BY DEF Visited, VisitedTo
<1>2. CASE x = NoElement
  <2>1. Visit(r, keep) = r
    BY <1>1, <1>2 DEF Visit, Loop
  <2>2. VisitedTo(list, keep, r, j + 1, left, x, next, gone)
    BY <1>1, <1>2 DEF VisitedTo
  <2> QED
    BY <2>1, <2>2 DEF Visited
<1>3. CASE x # NoElement
  <2> DEFINE c == Cardinality(ToSet(gone))
             y == Fetched(left, next)
             then == After(left, next)
             rest == RemoveElement(left, x)
             all == Append(gone, x)
  <2>1. PICK p \in 1 .. Len(left), debt \in {0, 1} : Passing(keep, left, x, next, c, p, debt)
    BY <1>1, <1>3
  <2>2. /\ left \in Seq(S) /\ Len(left) \in Nat /\ \A i \in 1 .. Len(left) : left[i] \in S
        /\ x = left[p] /\ x \in S /\ x \in ToSet(left) /\ next \in Nat /\ next >= j + 2
    BY <1>1, <1>3, <2>1, DistinctAre DEF Passing
  <2>3. IsFiniteSet(ToSet(gone)) /\ Cardinality(ToSet(gone)) \in Nat
    <3>1. ToSet(gone) \in SUBSET S
      BY DEF ToSet
    <3> QED
      BY <3>1, FS_Subset, FS_CardinalityType
  <2>4. ASSUME y \in S, next <= Len(left)
        PROVE  y # NoElement /\ then = next + 1 /\ then \in Nat \ {0} /\ then >= (j + 1) + 2
    <3>1. then = next + 1
      BY <2>2, <2>4 DEF After
    <3>2. then \in Nat \ {0} /\ then >= (j + 1) + 2
      BY <2>2, <3>1
    <3> HIDE DEF y, then
    <3> QED
      BY <2>4, <3>1, <3>2
  <2>5. then \in Nat \ {0}
    BY <2>2 DEF After
  <2>6. CASE x \in keep
    <3>1. Visit(r, keep) = Loop(left, y, then, gone)
      <4>1. Visit(Loop(left, x, next, gone), keep)
              = Loop(left, Fetched(left, next), After(left, next), gone)
        BY <1>3, <2>6, VisitKeeps
      <4> QED
        BY <1>1, <4>1
    <3>2. \/ y = NoElement /\ Ended(keep, left, c)
          \/ /\ y \in S /\ next \in 1 .. Len(left)
             /\ Passing(keep, left, y, then, c, next, 0)
      BY <2>1, <2>2, <2>3, <2>6, KeptVisited
    <3> HIDE DEF y, then
    <3>3. CASE y = NoElement /\ Ended(keep, left, c)
      <4>1. VisitedTo(list, keep, Visit(r, keep), j + 1, left, y, then, gone)
        BY <1>1, <3>1, <3>3 DEF VisitedTo
      <4> QED
        BY <2>5, <3>3, <4>1 DEF Visited
    <3>4. CASE /\ y \in S /\ next \in 1 .. Len(left)
               /\ Passing(keep, left, y, then, c, next, 0)
      <4>1. next <= Len(left) /\ 0 \in {0, 1}
        BY <2>2, <3>4
      <4>2. y # NoElement /\ then >= (j + 1) + 2
        BY <2>4, <3>4, <4>1
      <4>3. \E a \in 1 .. Len(left), debt1 \in {0, 1} : Passing(keep, left, y, then, c, a, debt1)
        BY <3>4, <4>1
      <4>4. VisitedTo(list, keep, Visit(r, keep), j + 1, left, y, then, gone)
        BY <1>1, <3>1, <4>2, <4>3 DEF VisitedTo
      <4> QED
        BY <2>5, <3>4, <4>4 DEF Visited
    <3> QED
      BY <3>2, <3>3, <3>4
  <2>7. CASE x \notin keep
    <3>1. Visit(r, keep) = Loop(rest, y, then, all)
      BY <1>1, <1>3, <2>7, VisitRemoves
    <3>2. /\ rest \in Distinct(S) /\ Len(rest) = Len(left) - 1
          /\ ToSet(rest) = ToSet(left) \ {x}
      BY <2>2, RemovedElement
    <3>3. all \in Seq(S) /\ ToSet(all) = ToSet(gone) \cup {x}
      <4>1. Len(gone) \in Nat /\ DOMAIN gone = 1 .. Len(gone)
        OBVIOUS
      <4>2. /\ all \in Seq(S) /\ DOMAIN all = 1 .. Len(gone) + 1
            /\ \A i \in 1 .. Len(gone) : all[i] = gone[i]
            /\ all[Len(gone) + 1] = x
        BY <2>2, <4>1
      <4>3. /\ \A i \in 1 .. Len(gone) + 1 : i \in 1 .. Len(gone) \/ i = Len(gone) + 1
            /\ \A i \in 1 .. Len(gone) : i \in 1 .. Len(gone) + 1
            /\ Len(gone) + 1 \in 1 .. Len(gone) + 1
        BY <4>1
      <4> HIDE DEF all
      <4> QED
        BY <4>1, <4>2, <4>3 DEF ToSet
    <3>4. Cardinality(ToSet(all)) = Cardinality(ToSet(gone)) + 1
      <4>1. x \notin ToSet(gone)
        BY <1>1, <2>2 DEF Removing
      <4> QED
        BY <2>3, <3>3, <4>1, FS_AddElement
    <3>5. Removing(list, keep, rest, all)
      <4>1. Len(rest) + Cardinality(ToSet(all)) = Len(list)
        <5>1. Len(left) + Cardinality(ToSet(gone)) = Len(list)
          BY <1>1 DEF Removing
        <5> HIDE DEF rest, all
        <5> QED
          BY <2>2, <2>3, <3>2, <3>4, <5>1
      <4>2. x \in ToSet(list) \ keep
        BY <1>1, <2>2, <2>7 DEF Removing
      <4> HIDE DEF rest, all
      <4> QED
        BY <1>1, <3>2, <3>3, <4>1, <4>2 DEF Removing
    <3>6. Passing(keep, left, left[p], next, c, p, debt)
      BY <2>1, <2>2
    <3>7. rest = RemoveElement(left, left[p])
      BY <2>2
    <3> HIDE DEF rest, all
    <3>8. \/ y = NoElement /\ Ended(keep, rest, c + 1)
          \/ /\ y \in S /\ next - 1 \in 1 .. Len(rest)
             /\ Passing(keep, rest, y, then, c + 1, next - 1, 1)
      <4>1. y = Fetched(left, next) /\ then = After(left, next)
        OBVIOUS
      <4>2. \/ Fetched(left, next) = NoElement /\ Ended(keep, rest, c + 1)
            \/ /\ Fetched(left, next) \in S /\ next - 1 \in 1 .. Len(rest)
               /\ Passing(keep, rest, Fetched(left, next), After(left, next), c + 1, next - 1, 1)
        <5>1. left \in Distinct(S) /\ next \in Nat /\ c \in Nat
          BY <2>2, <2>3
        <5> HIDE DEF y, then, c
        <5>2. RemovalLeaves(S, keep, left, next, RemoveElement(left, left[p]), c + 1)
          BY <3>6, <5>1, RemovedVisited
        <5> QED
          BY <3>7, <5>2 DEF RemovalLeaves
      <4> HIDE DEF y, then
      <4> QED
        BY <4>1, <4>2
    <3> HIDE DEF y, then
    <3>9. CASE y = NoElement /\ Ended(keep, rest, c + 1)
      <4>1. VisitedTo(list, keep, Visit(r, keep), j + 1, rest, y, then, all)
        BY <3>1, <3>4, <3>5, <3>9 DEF VisitedTo
      <4> QED
        BY <2>5, <3>2, <3>3, <3>9, <4>1 DEF Visited
    <3>10. CASE /\ y \in S /\ next - 1 \in 1 .. Len(rest)
                /\ Passing(keep, rest, y, then, c + 1, next - 1, 1)
      <4>1. next <= Len(left) /\ 1 \in {0, 1}
        BY <2>2, <3>2, <3>10
      <4>2. y # NoElement /\ then >= (j + 1) + 2
        BY <2>4, <3>10, <4>1
      <4>3. \E a \in 1 .. Len(rest), debt1 \in {0, 1} : Passing(keep, rest, y, then, c + 1, a, debt1)
        BY <3>10, <4>1
      <4>4. VisitedTo(list, keep, Visit(r, keep), j + 1, rest, y, then, all)
        BY <3>1, <3>4, <3>5, <4>2, <4>3 DEF VisitedTo
      <4> QED
        BY <2>5, <3>2, <3>3, <3>10, <4>4 DEF Visited
    <3> QED
      BY <3>8, <3>9, <3>10
  <2> QED
    BY <2>6, <2>7
<1> QED
  BY <1>2, <1>3

\* What the loop may reach in any order of its visits.
Loops(S) == [left : Distinct(S), at : [queued : S \cup {NoElement}, next : Nat \ {0}], gone : Seq(S)]

LEMMA LoopIn ==
  ASSUME NEW S, NEW left \in Distinct(S), NEW x \in S \cup {NoElement},
         NEW next \in Nat \ {0}, NEW gone \in Seq(S)
  PROVE  Loop(left, x, next, gone) \in Loops(S)
BY DEF Loop, Loops

LEMMA LoopIs ==
  ASSUME NEW S, NEW r \in Loops(S)
  PROVE  \E left \in Distinct(S), x \in S \cup {NoElement}, next \in Nat \ {0}, gone \in Seq(S) :
           r = Loop(left, x, next, gone)
<1>1. /\ r.left \in Distinct(S) /\ r.at.queued \in S \cup {NoElement}
      /\ r.at.next \in Nat \ {0} /\ r.gone \in Seq(S)
  BY DEF Loops
<1>2. r = [left |-> r.left, at |-> r.at, gone |-> r.gone]
      /\ r.at = [queued |-> r.at.queued, next |-> r.at.next]
  BY DEF Loops
<1>3. r = Loop(r.left, r.at.queued, r.at.next, r.gone)
  BY <1>2 DEF Loop
<1> QED
  BY <1>1, <1>3

LEMMA FetchedIn ==
  ASSUME NEW S, NEW q \in Distinct(S), NEW next \in Nat \ {0}
  PROVE  Fetched(q, next) \in S \cup {NoElement} /\ After(q, next) \in Nat \ {0}
<1>1. Len(q) \in Nat /\ \A i \in 1 .. Len(q) : q[i] \in S
  BY DistinctAre
<1> QED
  BY <1>1 DEF Fetched, After

LEMMA VisitIn ==
  ASSUME NEW S, NEW keep, NEW r \in Loops(S)
  PROVE  Visit(r, keep) \in Loops(S)
<1>1. PICK left \in Distinct(S), x \in S \cup {NoElement}, next \in Nat \ {0}, gone \in Seq(S) :
        r = Loop(left, x, next, gone)
  BY LoopIs
<1>2. Fetched(left, next) \in S \cup {NoElement} /\ After(left, next) \in Nat \ {0}
  BY FetchedIn
<1>3. CASE x = NoElement
  <2>1. Visit(r, keep) = r
    BY <1>1, <1>3 DEF Visit, Loop
  <2> QED
    BY <2>1
<1>4. CASE x # NoElement /\ x \in keep
  <2>1. Visit(r, keep) = Loop(left, Fetched(left, next), After(left, next), gone)
    BY <1>1, <1>4, VisitKeeps
  <2> QED
    BY <1>2, <2>1, LoopIn
<1>5. CASE x # NoElement /\ x \notin keep
  <2>1. RemoveElement(left, x) \in Distinct(S)
    BY AnyRemoved
  <2>2. Append(gone, x) \in Seq(S)
    BY <1>5
  <2>3. Visit(r, keep) = Loop(RemoveElement(left, x), Fetched(left, next), After(left, next),
                              Append(gone, x))
    BY <1>1, <1>5, VisitRemoves
  <2> QED
    BY <1>2, <2>1, <2>2, <2>3, LoopIn
<1> QED
  BY <1>3, <1>4, <1>5

\* After as many visits as there were elements the enumerator is at the end.
LEMMA StripEnds ==
  ASSUME NEW S, IsFiniteSet(S), NoElement \notin S, NEW list \in Distinct(S), NEW keep
  PROVE  Visited(S, list, keep, Strip(list, keep), Len(list))
<1> DEFINE n == Len(list)
           base == [left |-> list, at |-> GetElements(list), gone |-> <<>>]
           IsUp(f) == f = [k \in 0 .. n |-> IF k = 0 THEN base ELSE Visit(f[k - 1], keep)]
           up == CHOOSE f : IsUp(f)
<1>1. Strip(list, keep) = up[n]
  BY DEF Strip
<1>2. list \in Seq(S) /\ n \in Nat
  BY DistinctAre
<1>3. base \in Loops(S)
  <2>1. GetElements(list) = [queued |-> Fetched(list, 1), next |-> After(list, 1)]
    BY HasMoreIs DEF GetElements
  <2>2. Fetched(list, 1) \in S \cup {NoElement} /\ After(list, 1) \in Nat \ {0}
    BY FetchedIn
  <2>3. base = Loop(list, Fetched(list, 1), After(list, 1), <<>>)
    BY <2>1 DEF Loop
  <2>4. <<>> \in Seq(S)
    OBVIOUS
  <2> QED
    BY <2>2, <2>3, <2>4, LoopIn
<1>4. Visited(S, list, keep, base, 0)
  BY FirstVisited
<1> HIDE DEF base, n
<1>5. \E f : IsUp(f)
  <2> DEFINE D == Loops(S)
             step == [r \in D |-> Visit(r, keep)]
             g == [k \in 1 .. n |-> step]
  <2>1. step \in [D -> D]
    <3> HIDE DEF D
    <3>1. \A r \in D : Visit(r, keep) \in D
      BY VisitIn DEF D
    <3> QED
      BY <3>1
  <2>2. \A k \in 0 + 1 .. n : g[k] \in [D -> D]
    <3> HIDE DEF step, D
    <3> QED
      BY <2>1
  <2>3. \A k \in 1 .. n, r \in D : g[k][r] = Visit(r, keep)
    OBVIOUS
  <2> HIDE DEF g, D
  <2>4. PICK f : IsStepwise(f, 0, n, D, base, g)
    <3>1. 0 \in Int /\ n \in Int /\ 0 <= n /\ base \in D
      BY <1>2, <1>3 DEF D
    <3> QED
      BY <2>2, <3>1, StepwiseExists
  <2>5. /\ f \in [0 .. n -> D] /\ f[0] = base
        /\ \A k \in 0 + 1 .. n : f[k] = g[k][f[k - 1]]
    BY <2>4 DEF IsStepwise
  <2>6. ASSUME NEW k \in 0 .. n
        PROVE  f[k] = IF k = 0 THEN base ELSE Visit(f[k - 1], keep)
    <3>1. CASE k = 0
      BY <2>5, <3>1
    <3>2. CASE k # 0
      <4>1. k \in 1 .. n /\ k \in 0 + 1 .. n /\ k - 1 \in 0 .. n
        BY <1>2, <3>2
      <4> QED
        BY <2>3, <2>5, <3>2, <4>1
    <3> QED
      BY <3>1, <3>2
  <2>7. f = [k \in 0 .. n |-> f[k]]
    BY <2>5
  <2>8. IsUp(f)
    BY <2>6, <2>7
  <2> QED
    BY <2>8
<1>6. IsUp(up)
  <2> HIDE DEF IsUp
  <2> QED
    BY <1>5
<1>7. up[0] = base /\ \A k \in 1 .. n : up[k] = Visit(up[k - 1], keep)
  <2> HIDE DEF up
  <2>1. 0 \in 0 .. n /\ \A k \in 1 .. n : k \in 0 .. n /\ k # 0
    BY <1>2
  <2> QED
    BY <1>6, <2>1
<1> HIDE DEF IsUp, up
<1> DEFINE T == {k \in 0 .. n : Visited(S, list, keep, up[k], k)}
<1>8. 0 \in T
  BY <1>2, <1>4, <1>7
<1>9. ASSUME NEW k \in 0 .. n - 1, k \in T
      PROVE  k + 1 \in T
  <2>1. k + 1 \in 1 .. n /\ (k + 1) - 1 = k /\ k \in Nat /\ k + 1 \in 0 .. n
    BY <1>2
  <2>2. Visited(S, list, keep, Visit(up[k], keep), k + 1)
    BY <1>9, <2>1, NextVisited
  <2>3. up[k + 1] = Visit(up[k], keep)
    BY <1>7, <2>1
  <2> QED
    BY <2>1, <2>2, <2>3
<1> HIDE DEF T
<1>10. 0 .. n \subseteq T
  BY <1>2, <1>8, <1>9, IntervalInduction
<1>11. n \in T
  BY <1>2, <1>10
<1> QED
  BY <1>1, <1>11 DEF T, n

LEMMA StripIs ==
  ASSUME NEW S, IsFiniteSet(S), NoElement \notin S, NEW list \in Distinct(S), NEW keep
  PROVE  LET r == Strip(list, keep)
         IN /\ r.left \in Distinct(S) /\ r.gone \in Seq(S)
            /\ ToSet(r.gone) \subseteq ToSet(list) \ keep
            /\ ToSet(r.left) = ToSet(list) \ ToSet(r.gone)
            /\ 2 * Cardinality(ToSet(r.left) \ keep) <= Cardinality(ToSet(list) \ keep)
<1> DEFINE n == Len(list)
           r == Strip(list, keep)
<1>1. Visited(S, list, keep, r, n)
  BY StripEnds
<1>2. list \in Seq(S) /\ n \in Nat
  BY DistinctAre
<1> HIDE DEF r, n
<1>3. PICK left \in Distinct(S), x \in S \cup {NoElement}, next \in Nat \ {0}, gone \in Seq(S) :
        VisitedTo(list, keep, r, n, left, x, next, gone)
  BY <1>1 DEF Visited
<1>4. r.left = left /\ r.gone = gone
  BY <1>3 DEF VisitedTo, Loop
<1>5. /\ ToSet(gone) \subseteq ToSet(list) \ keep
      /\ ToSet(left) = ToSet(list) \ ToSet(gone)
      /\ Len(left) + Cardinality(ToSet(gone)) = n
  BY <1>3 DEF VisitedTo, Removing, n
<1>6. left \in Seq(S) /\ Len(left) \in Nat /\ Len(left) \in 0 .. Len(left)
  BY DistinctAre
<1>7. /\ IsFiniteSet(ToSet(gone)) /\ Cardinality(ToSet(gone)) \in Nat
      /\ IsFiniteSet(ToSet(left) \ keep) /\ Cardinality(ToSet(left) \ keep) \in Nat
  <2>1. ToSet(gone) \in SUBSET S /\ ToSet(left) \ keep \in SUBSET S
    BY <1>6 DEF ToSet
  <2> QED
    BY <2>1, FS_Subset, FS_CardinalityType
<1>8. Ended(keep, left, Cardinality(ToSet(gone)))
  <2>1. SUFFICES ASSUME x # NoElement PROVE FALSE
    BY <1>3 DEF VisitedTo
  <2>2. /\ next >= n + 2
        /\ \E p \in 1 .. Len(left), debt \in {0, 1} :
             Passing(keep, left, x, next, Cardinality(ToSet(gone)), p, debt)
    BY <1>3, <2>1 DEF VisitedTo
  <2>3. PICK p \in 1 .. Len(left), debt \in {0, 1} :
          Passing(keep, left, x, next, Cardinality(ToSet(gone)), p, debt)
    BY <2>2
  <2>4. p - 1 \in 0 .. Len(left) /\ p \in Nat /\ debt \in Nat
    BY <1>6
  <2>5. Cardinality(StaleTo(left, p - 1, keep)) \in Nat
    BY <1>6, <2>4, StaleToAre
  <2>6. next = p + 1 + debt /\ debt <= Cardinality(ToSet(gone))
    <3>1. next = p + 1 + debt
          /\ Cardinality(StaleTo(left, p - 1, keep)) + debt <= Cardinality(ToSet(gone))
      BY <2>3 DEF Passing
    <3> QED
      BY <1>7, <2>4, <2>5, <3>1
  <2>7. p <= Len(left)
    BY <1>6
  <2> QED
    BY <1>2, <1>5, <1>6, <1>7, <2>2, <2>4, <2>6, <2>7
<1>9. Cardinality(ToSet(left) \ keep) <= Cardinality(ToSet(gone))
  BY <1>6, <1>8, StaleToAre DEF Ended
<1>10. Cardinality(ToSet(list) \ keep)
         = Cardinality(ToSet(left) \ keep) + Cardinality(ToSet(gone))
  <2>1. ToSet(list) \ keep = (ToSet(left) \ keep) \cup ToSet(gone)
        /\ (ToSet(left) \ keep) \cap ToSet(gone) = {}
    BY <1>5
  <2>2. Cardinality((ToSet(left) \ keep) \cup ToSet(gone))
          = Cardinality(ToSet(left) \ keep) + Cardinality(ToSet(gone))
    <3> DEFINE a == ToSet(left) \ keep
               b == ToSet(gone)
    <3>1. a \cap b = {}
      BY <2>1
    <3>2. IsFiniteSet(a) /\ IsFiniteSet(b) /\ Cardinality(a) \in Nat /\ Cardinality(b) \in Nat
      BY <1>7
    <3> HIDE DEF a, b
    <3>3. Cardinality(a \cup b) = Cardinality(a) + Cardinality(b) - Cardinality({})
      BY <3>1, <3>2, FS_Union
    <3>4. Cardinality(a \cup b) = Cardinality(a) + Cardinality(b)
      BY <3>2, <3>3, FS_EmptySet
    <3> QED
      BY <3>4 DEF a, b
  <2> QED
    BY <2>1, <2>2
<1>11. 2 * Cardinality(ToSet(left) \ keep) <= Cardinality(ToSet(list) \ keep)
  BY <1>7, <1>9, <1>10
<1> QED
  BY <1>4, <1>5, <1>11 DEF r
-----------------------------------------------------------------------------
(***************************************************************************)
(* What extraction adds and takes away.                                    *)
(***************************************************************************)
WellFormedLists == {depts \in Seq(GoodLists) : WellFormed(depts)}

LEMMA WellFormedListsAre ==
  ASSUME NEW depts
  PROVE  depts \in WellFormedLists <=> WellFormed(depts)
BY DEF WellFormedLists, WellFormed

LEMMA UpToIs ==
  ASSUME NEW q, NEW m \in Nat
  PROVE  /\ {q[i] : i \in 1 .. 0} = {}
         /\ {q[i] : i \in 1 .. m + 1} = {q[i] : i \in 1 .. m} \cup {q[m + 1]}
<1>1. \A i \in 1 .. m + 1 : i \in 1 .. m \/ i = m + 1
  OBVIOUS
<1>2. m + 1 \in 1 .. m + 1 /\ \A i \in 1 .. m : i \in 1 .. m + 1
  OBVIOUS
<1> QED
  BY <1>1, <1>2

\* The items that are found are listed, and in the markup.
LEMMA AddFoundIs ==
  ASSUME NEW s, markup[s] \in Distinct(Items), WellFormed(members[s]), NEW order \in Seq(Items)
  PROVE  LET all == AddFound(s, order)
         IN /\ all.markup \in Distinct(Items)
            /\ ToSet(all.markup) = ToSet(markup[s]) \cup ToSet(order)
            /\ WellFormed(all.members)
            /\ Listed(all.members) = Listed(members[s]) \cup ToSet(order)
<1> DEFINE n == Len(order)
           base == [markup |-> markup[s], members |-> members[s]]
           Step(r, k) == [markup |-> AppendElement(r.markup, order[k]),
                          members |-> AddItem(r.members, order[k])]
           IsUp(f) == f = [k \in 0 .. n |->
                             IF k = 0 THEN base
                             ELSE [markup |-> AppendElement(f[k - 1].markup, order[k]),
                                   members |-> AddItem(f[k - 1].members, order[k])]]
           up == CHOOSE f : IsUp(f)
           D == [markup : Distinct(Items), members : WellFormedLists]
<1>1. AddFound(s, order) = up[n]
  BY DEF AddFound
<1>2. n \in Nat /\ ToSet(order) = {order[i] : i \in 1 .. n} /\ \A k \in 1 .. n : order[k] \in Items
  BY DEF ToSet
<1>3. base \in D
  BY WellFormedListsAre
<1>4. ASSUME NEW r \in D, NEW k \in 1 .. n
      PROVE  /\ Step(r, k) \in D
             /\ ToSet(Step(r, k).markup) = ToSet(r.markup) \cup {order[k]}
             /\ Listed(Step(r, k).members) = Listed(r.members) \cup {order[k]}
  <2>1. order[k] \in Items /\ r.markup \in Distinct(Items) /\ r.members \in WellFormedLists
    BY <1>2
  <2>2. /\ AppendElement(r.markup, order[k]) \in Distinct(Items)
        /\ ToSet(AppendElement(r.markup, order[k])) = ToSet(r.markup) \cup {order[k]}
    BY <2>1, AppendedDistinct
  <2>3. /\ AddItem(r.members, order[k]) \in WellFormedLists
        /\ Listed(AddItem(r.members, order[k])) = Listed(r.members) \cup {order[k]}
    BY <2>1, AddedItem, WellFormedListsAre
  <2> QED
    BY <2>2, <2>3
<1>5. \E f : IsUp(f)
  <2> DEFINE g == [k \in 1 .. n |-> [r \in D |-> Step(r, k)]]
  <2>1. \A k \in 0 + 1 .. n : g[k] \in [D -> D]
    <3>1. \A k \in 1 .. n, r \in D : Step(r, k) \in D
      BY <1>4
    <3> HIDE DEF Step, D
    <3> QED
      BY <3>1
  <2>2. \A k \in 1 .. n, r \in D : g[k][r] = Step(r, k)
    OBVIOUS
  <2> HIDE DEF g, D, base, n
  <2>3. 0 \in Int /\ n \in Int /\ 0 <= n
    BY <1>2
  <2>4. PICK f : IsStepwise(f, 0, n, D, base, g)
    BY <1>3, <2>1, <2>3, StepwiseExists
  <2>5. /\ f \in [0 .. n -> D] /\ f[0] = base
        /\ \A k \in 0 + 1 .. n : f[k] = g[k][f[k - 1]]
    BY <2>4 DEF IsStepwise
  <2>6. ASSUME NEW k \in 0 .. n
        PROVE  f[k] = IF k = 0 THEN base
                      ELSE [markup |-> AppendElement(f[k - 1].markup, order[k]),
                            members |-> AddItem(f[k - 1].members, order[k])]
    <3>1. CASE k = 0
      BY <2>5, <3>1
    <3>2. CASE k # 0
      <4>1. k \in 1 .. n /\ k \in 0 + 1 .. n /\ k - 1 \in 0 .. n
        BY <1>2, <3>2
      <4>2. f[k] = Step(f[k - 1], k)
        BY <2>2, <2>5, <4>1
      <4> QED
        BY <3>2, <4>2
    <3> QED
      BY <3>1, <3>2
  <2>7. f = [k \in 0 .. n |-> f[k]]
    BY <2>5
  <2>8. IsUp(f)
    BY <2>6, <2>7
  <2> QED
    BY <2>8
<1>6. IsUp(up)
  <2> HIDE DEF IsUp
  <2> QED
    BY <1>5
<1>7. up[0] = base /\ \A k \in 1 .. n : up[k] = Step(up[k - 1], k)
  <2> HIDE DEF up
  <2>1. 0 \in 0 .. n /\ \A k \in 1 .. n : k \in 0 .. n /\ k # 0
    BY <1>2
  <2> QED
    BY <1>6, <2>1
<1> HIDE DEF IsUp, up, Step, n
<1> DEFINE To(k) == {order[i] : i \in 1 .. k}
           Good(r, k) == /\ r \in D
                         /\ ToSet(r.markup) = ToSet(markup[s]) \cup To(k)
                         /\ Listed(r.members) = Listed(members[s]) \cup To(k)
           T == {k \in 0 .. n : Good(up[k], k)}
<1>8. 0 \in T
  <2>1. To(0) = {}
    BY UpToIs
  <2>2. 0 \in 0 .. n
    BY <1>2
  <2> QED
    BY <1>3, <1>7, <2>1, <2>2
<1>9. ASSUME NEW k \in 0 .. n - 1, k \in T
      PROVE  k + 1 \in T
  <2>1. k + 1 \in 1 .. n /\ (k + 1) - 1 = k /\ k \in Nat /\ k + 1 \in 0 .. n
    BY <1>2
  <2>2. up[k + 1] = Step(up[k], k + 1)
    BY <1>7, <2>1
  <2>3. To(k + 1) = To(k) \cup {order[k + 1]}
    BY <2>1, UpToIs
  <2>4. Good(up[k], k)
    BY <1>9
  <2> HIDE DEF To, D
  <2>5. /\ Step(up[k], k + 1) \in D
        /\ ToSet(Step(up[k], k + 1).markup) = ToSet(up[k].markup) \cup {order[k + 1]}
        /\ Listed(Step(up[k], k + 1).members) = Listed(up[k].members) \cup {order[k + 1]}
    BY <1>4, <2>1, <2>4
  <2>6. Good(up[k + 1], k + 1)
    BY <2>2, <2>3, <2>4, <2>5
  <2> QED
    BY <2>1, <2>6
<1>10. Good(up[n], n)
  <2> HIDE DEF T, Good, To, D
  <2>0. 0 \in Int /\ n \in Int
    BY <1>2
  <2>1. 0 .. n \subseteq T
    BY <1>8, <1>9, <2>0, IntervalInduction
  <2>2. n \in T
    BY <1>2, <2>1
  <2> QED
    BY <2>2 DEF T
<1> HIDE DEF base
<1> QED
  BY <1>1, <1>2, <1>10, WellFormedListsAre

\* The items that are stripped are listed no more; those without a type stay.
LEMMA RemoveGoneIs ==
  ASSUME NEW depts, WellFormed(depts), NEW gone \in Seq(Items)
  PROVE  /\ WellFormed(RemoveGone(depts, gone))
         /\ Listed(RemoveGone(depts, gone)) = Listed(depts) \ (ToSet(gone) \cap live)
<1> DEFINE n == Len(gone)
           D == WellFormedLists
           Step(r, k) == RemoveItem(r, gone[k])
           IsUp(f) == f = [k \in 0 .. n |->
                             IF k = 0 THEN depts ELSE RemoveItem(f[k - 1], gone[k])]
           up == CHOOSE f : IsUp(f)
<1>1. RemoveGone(depts, gone) = up[n]
  BY DEF RemoveGone
<1>2. n \in Nat /\ ToSet(gone) = {gone[i] : i \in 1 .. n} /\ \A k \in 1 .. n : gone[k] \in Items
  BY DEF ToSet
<1>3. depts \in D
  BY WellFormedListsAre
<1>4. ASSUME NEW r \in D, NEW k \in 1 .. n
      PROVE  /\ Step(r, k) \in D
             /\ Listed(Step(r, k)) = Listed(r) \ ({gone[k]} \cap live)
  BY <1>2, RemovedItem, WellFormedListsAre
<1>5. \E f : IsUp(f)
  <2> DEFINE g == [k \in 1 .. n |-> [r \in D |-> Step(r, k)]]
  <2>1. \A k \in 0 + 1 .. n : g[k] \in [D -> D]
    <3>1. \A k \in 1 .. n, r \in D : Step(r, k) \in D
      BY <1>4
    <3> HIDE DEF Step, D
    <3> QED
      BY <3>1
  <2>2. \A k \in 1 .. n, r \in D : g[k][r] = Step(r, k)
    OBVIOUS
  <2> HIDE DEF g, D, n
  <2>3. 0 \in Int /\ n \in Int /\ 0 <= n
    BY <1>2
  <2>4. PICK f : IsStepwise(f, 0, n, D, depts, g)
    BY <1>3, <2>1, <2>3, StepwiseExists
  <2>5. /\ f \in [0 .. n -> D] /\ f[0] = depts
        /\ \A k \in 0 + 1 .. n : f[k] = g[k][f[k - 1]]
    BY <2>4 DEF IsStepwise
  <2>6. ASSUME NEW k \in 0 .. n
        PROVE  f[k] = IF k = 0 THEN depts ELSE RemoveItem(f[k - 1], gone[k])
    <3>1. CASE k = 0
      BY <2>5, <3>1
    <3>2. CASE k # 0
      <4>1. k \in 1 .. n /\ k \in 0 + 1 .. n /\ k - 1 \in 0 .. n
        BY <1>2, <3>2
      <4>2. f[k] = Step(f[k - 1], k)
        BY <2>2, <2>5, <4>1
      <4> QED
        BY <3>2, <4>2
    <3> QED
      BY <3>1, <3>2
  <2>7. f = [k \in 0 .. n |-> f[k]]
    BY <2>5
  <2>8. IsUp(f)
    BY <2>6, <2>7
  <2> QED
    BY <2>8
<1>6. IsUp(up)
  <2> HIDE DEF IsUp
  <2> QED
    BY <1>5
<1>7. up[0] = depts /\ \A k \in 1 .. n : up[k] = Step(up[k - 1], k)
  <2> HIDE DEF up
  <2>1. 0 \in 0 .. n /\ \A k \in 1 .. n : k \in 0 .. n /\ k # 0
    BY <1>2
  <2> QED
    BY <1>6, <2>1
<1> HIDE DEF IsUp, up, Step, n
<1> DEFINE To(k) == {gone[i] : i \in 1 .. k}
           Good(r, k) == r \in D /\ Listed(r) = Listed(depts) \ (To(k) \cap live)
           T == {k \in 0 .. n : Good(up[k], k)}
<1>8. 0 \in T
  <2>1. To(0) = {}
    BY UpToIs
  <2>2. 0 \in 0 .. n
    BY <1>2
  <2> QED
    BY <1>3, <1>7, <2>1, <2>2
<1>9. ASSUME NEW k \in 0 .. n - 1, k \in T
      PROVE  k + 1 \in T
  <2>1. k + 1 \in 1 .. n /\ (k + 1) - 1 = k /\ k \in Nat /\ k + 1 \in 0 .. n
    BY <1>2
  <2>2. up[k + 1] = Step(up[k], k + 1)
    BY <1>7, <2>1
  <2>3. To(k + 1) = To(k) \cup {gone[k + 1]}
    BY <2>1, UpToIs
  <2>4. Good(up[k], k)
    BY <1>9
  <2> HIDE DEF To, D
  <2>5. /\ Step(up[k], k + 1) \in D
        /\ Listed(Step(up[k], k + 1)) = Listed(up[k]) \ ({gone[k + 1]} \cap live)
    BY <1>4, <2>1, <2>4
  <2>6. Good(up[k + 1], k + 1)
    BY <2>2, <2>3, <2>4, <2>5
  <2> QED
    BY <2>1, <2>6
<1>10. Good(up[n], n)
  <2> HIDE DEF T, Good, To, D
  <2>0. 0 \in Int /\ n \in Int
    BY <1>2
  <2>1. 0 .. n \subseteq T
    BY <1>8, <1>9, <2>0, IntervalInduction
  <2>2. n \in T
    BY <1>2, <2>1
  <2> QED
    BY <2>2 DEF T
<1> QED
  BY <1>1, <1>2, <1>10, WellFormedListsAre

\* Any order of the elements of a finite set has all of them.
LEMMA OrdersAre ==
  ASSUME NEW S, IsFiniteSet(S), NEW q \in SetToSeqs(S)
  PROVE  q \in Seq(S) /\ ToSet(q) = S
<1> DEFINE n == Cardinality(S)
           I == 1 .. n
<1>1. n \in Nat
  BY FS_CardinalityType
<1>2. q \in [I -> S] /\ \A i, j \in I : i # j => q[i] # q[j]
  BY DEF SetToSeqs
<1>3. IsFiniteSet(I) /\ Cardinality(I) = n
  <2>1. 1 \in Int /\ n \in Int
    BY <1>1
  <2>2. IsFiniteSet(1 .. n) /\ Cardinality(1 .. n) = IF 1 > n THEN 0 ELSE n - 1 + 1
    <3> HIDE DEF n
    <3> QED
      BY <2>1, FS_Interval
  <2> HIDE DEF n
  <2> QED
    BY <1>1, <2>2
<1>4. q \in Injection(I, S)
  <2> HIDE DEF I, n
  <2> QED
    BY <1>2 DEF Injection, IsInjective
<1>5. q \in Surjection(I, S)
  <2> HIDE DEF I
  <2> QED
    BY <1>3, <1>4, FS_Injection
<1>6. \A x \in S : \E i \in I : q[i] = x
  <2> HIDE DEF I
  <2> QED
    BY <1>5 DEF Surjection
<1>7. q \in Seq(S) /\ DOMAIN q = I
  <2> HIDE DEF n
  <2> QED
    BY <1>1, <1>2
<1> HIDE DEF I
<1> QED
  BY <1>2, <1>6, <1>7 DEF ToSet

\* What one extraction of a scene does.
LEMMA ExtractionIs ==
  ASSUME NEW s, WellFormed(members[s]), markup[s] \in Distinct(Items),
         live \subseteq Items, Listed(members[s]) \subseteq live,
         live \cap ToSet(markup[s]) \subseteq Listed(members[s]),
         NEW r \in Extractions(s)
  PROVE  /\ WellFormed(r.members) /\ r.markup \in Distinct(Items)
         /\ Listed(r.members) \subseteq live
         /\ live \cap ToSet(r.markup) \subseteq Listed(r.members)
         /\ live \cap marked[s] \subseteq Listed(r.members) \cap ToSet(r.markup)
         /\ 2 * Cardinality(ToSet(r.markup) \ Occurring(s))
              <= Cardinality(ToSet(markup[s]) \ Occurring(s))
<1> DEFINE L == Listed(members[s])
           M == ToSet(markup[s])
           F == (live \cap marked[s]) \ (L \cap M)
           keep == Occurring(s)
<1>1. PICK order \in SetToSeqs(F) :
        LET all == AddFound(s, order)
            stripped == Strip(all.markup, keep)
        IN r = [markup |-> stripped.left, members |-> RemoveGone(all.members, stripped.gone)]
  BY DEF Extractions
<1> DEFINE all == AddFound(s, order)
           stripped == Strip(all.markup, keep)
<1>2. order \in Seq(Items) /\ ToSet(order) = F
  <2>1. F \subseteq Items
    OBVIOUS
  <2> HIDE DEF F
  <2>2. IsFiniteSet(F)
    BY <2>1, BreakdownAssumption, FS_Subset
  <2>3. order \in Seq(F) /\ ToSet(order) = F
    BY <2>2, OrdersAre
  <2> QED
    BY <2>1, <2>3
<1>3. /\ all.markup \in Distinct(Items) /\ ToSet(all.markup) = M \cup F
      /\ WellFormed(all.members) /\ Listed(all.members) = L \cup F
  <2> HIDE DEF F
  <2> QED
    BY <1>2, AddFoundIs
<1> HIDE DEF all
<1>4. /\ stripped.left \in Distinct(Items) /\ stripped.gone \in Seq(Items)
      /\ ToSet(stripped.gone) \subseteq ToSet(all.markup) \ keep
      /\ ToSet(stripped.left) = ToSet(all.markup) \ ToSet(stripped.gone)
      /\ 2 * Cardinality(ToSet(stripped.left) \ keep) <= Cardinality(ToSet(all.markup) \ keep)
  <2> HIDE DEF keep
  <2> QED
    BY <1>3, BreakdownAssumption, StripIs
<1> HIDE DEF stripped
<1>5. /\ WellFormed(RemoveGone(all.members, stripped.gone))
      /\ Listed(RemoveGone(all.members, stripped.gone))
           = Listed(all.members) \ (ToSet(stripped.gone) \cap live)
  BY <1>3, <1>4, RemoveGoneIs
<1>6. r.markup = stripped.left /\ r.members = RemoveGone(all.members, stripped.gone)
  BY <1>1 DEF all, stripped
<1>7. keep = live \cap (marked[s] \cup named[s])
  BY DEF Occurring
<1> HIDE DEF keep
<1>8. ToSet(all.markup) \ keep = M \ keep
  BY <1>3, <1>7
<1>9. 2 * Cardinality(ToSet(r.markup) \ keep) <= Cardinality(M \ keep)
  BY <1>4, <1>6, <1>8
<1>10. /\ WellFormed(r.members) /\ r.markup \in Distinct(Items)
       /\ Listed(r.members) = (L \cup F) \ (ToSet(stripped.gone) \cap live)
       /\ ToSet(r.markup) = (M \cup F) \ ToSet(stripped.gone)
       /\ ToSet(stripped.gone) \cap keep = {}
  BY <1>3, <1>4, <1>5, <1>6
<1>11. L \subseteq live /\ live \cap M \subseteq L
  OBVIOUS
<1> HIDE DEF L, M
<1>12. Listed(r.members) \subseteq live
  BY <1>10, <1>11
<1>13. live \cap ToSet(r.markup) \subseteq Listed(r.members)
  BY <1>10, <1>11
<1>14. live \cap marked[s] \subseteq Listed(r.members) \cap ToSet(r.markup)
  BY <1>7, <1>10, <1>11
<1> QED
  BY <1>9, <1>10, <1>12, <1>13, <1>14 DEF keep, M
-----------------------------------------------------------------------------
(***************************************************************************)
(* The inductive invariant.                                                *)
(***************************************************************************)
Typed ==
  /\ present \subseteq Scenes /\ grown \subseteq Scenes
  /\ marked \in [Scenes -> SUBSET Items] /\ named \in [Scenes -> SUBSET Characters]
  /\ live \subseteq Items
  /\ context \in Scenes \cup {NoScene} /\ pending \in BOOLEAN /\ edits \in 0 .. MaxEdits

ListsTyped == members \in [Scenes -> WellFormedLists] /\ markup \in [Scenes -> Distinct(Items)]

\* What is marked was found: removing by hand what was not found as markup
\* takes nothing that is marked.
MarkedIsFound ==
  ~pending /\ context \in present \ grown =>
    live \cap marked[context] \subseteq Listed(members[context]) \cap ToSet(markup[context])

Sound ==
  /\ Typed /\ ListsTyped
  /\ MarkupIsListed /\ RemovedStaysRemoved
  /\ MarkedIsFound

LEMMA SoundScene ==
  ASSUME Sound, NEW s \in Scenes
  PROVE  /\ WellFormed(members[s]) /\ markup[s] \in Distinct(Items)
         /\ live \subseteq Items /\ Listed(members[s]) \subseteq live
         /\ live \cap ToSet(markup[s]) \subseteq Listed(members[s])
<1>1. members[s] \in WellFormedLists /\ markup[s] \in Distinct(Items)
  BY DEF Sound, ListsTyped
<1>2. WellFormed(members[s])
  BY <1>1, WellFormedListsAre
<1> QED
  BY <1>1, <1>2 DEF Sound, Typed, MarkupIsListed, RemovedStaysRemoved

\* Whatever the scenes that are extracted.
LEMMA ExtractIs ==
  ASSUME Sound, NEW S \in SUBSET Scenes, Extract(S)
  PROVE  /\ ListsTyped'
         /\ \A s \in Scenes : /\ Listed(members'[s]) \subseteq live
                              /\ live \cap ToSet(markup'[s]) \subseteq Listed(members'[s])
         /\ \A s \in S :
              /\ live \cap marked[s] \subseteq Listed(members'[s]) \cap ToSet(markup'[s])
              /\ 2 * Cardinality(ToSet(markup'[s]) \ Occurring(s))
                   <= Cardinality(ToSet(markup[s]) \ Occurring(s))
         /\ grown' \subseteq grown
<1>1. PICK r \in [S -> UNION {Extractions(s) : s \in S}] :
        /\ \A s \in S : r[s] \in Extractions(s)
        /\ members' = [s \in Scenes |-> IF s \in S THEN r[s].members ELSE members[s]]
        /\ markup' = [s \in Scenes |-> IF s \in S THEN r[s].markup ELSE markup[s]]
        /\ grown' = grown \ S
  BY DEF Extract
<1>2. ASSUME NEW s \in S
      PROVE  /\ members'[s] \in WellFormedLists /\ markup'[s] \in Distinct(Items)
             /\ Listed(members'[s]) \subseteq live
             /\ live \cap ToSet(markup'[s]) \subseteq Listed(members'[s])
             /\ live \cap marked[s] \subseteq Listed(members'[s]) \cap ToSet(markup'[s])
             /\ 2 * Cardinality(ToSet(markup'[s]) \ Occurring(s))
                  <= Cardinality(ToSet(markup[s]) \ Occurring(s))
  <2> DEFINE e == r[s]
  <2>1. members'[s] = e.members /\ markup'[s] = e.markup /\ e \in Extractions(s)
    BY <1>1
  <2>2. /\ WellFormed(members[s]) /\ markup[s] \in Distinct(Items)
        /\ live \subseteq Items /\ Listed(members[s]) \subseteq live
        /\ live \cap ToSet(markup[s]) \subseteq Listed(members[s])
    BY SoundScene
  <2> HIDE DEF e
  <2>3. /\ WellFormed(e.members) /\ e.markup \in Distinct(Items)
        /\ Listed(e.members) \subseteq live
        /\ live \cap ToSet(e.markup) \subseteq Listed(e.members)
        /\ live \cap marked[s] \subseteq Listed(e.members) \cap ToSet(e.markup)
        /\ 2 * Cardinality(ToSet(e.markup) \ Occurring(s))
             <= Cardinality(ToSet(markup[s]) \ Occurring(s))
    BY <2>1, <2>2, ExtractionIs
  <2> QED
    BY <2>1, <2>3, WellFormedListsAre
<1>3. ASSUME NEW s \in Scenes, s \notin S
      PROVE  members'[s] = members[s] /\ markup'[s] = markup[s]
  BY <1>1, <1>3
<1>4. \A s \in Scenes : members'[s] \in WellFormedLists /\ markup'[s] \in Distinct(Items)
  BY <1>2, <1>3 DEF Sound, ListsTyped
<1>5. ListsTyped'
  <2>1. members' = [s \in Scenes |-> members'[s]] /\ markup' = [s \in Scenes |-> markup'[s]]
    BY <1>1
  <2> QED
    BY <1>4, <2>1 DEF ListsTyped
<1>6. \A s \in Scenes : /\ Listed(members'[s]) \subseteq live
                        /\ live \cap ToSet(markup'[s]) \subseteq Listed(members'[s])
  BY <1>2, <1>3 DEF Sound, RemovedStaysRemoved, MarkupIsListed
<1> QED
  BY <1>1, <1>2, <1>5, <1>6

\* The sidebar extracts scenes, among them the one that it shows then.
LEMMA SidebarSound ==
  ASSUME Sound, NEW S \in SUBSET Scenes, Extract(S),
         UNCHANGED <<present, marked, named, live, edits>>,
         context' \in Scenes \cup {NoScene}, pending' \in BOOLEAN,
         context' \in present => context' \in S
  PROVE  Sound'
<1>1. /\ ListsTyped'
      /\ \A s \in Scenes : /\ Listed(members'[s]) \subseteq live
                           /\ live \cap ToSet(markup'[s]) \subseteq Listed(members'[s])
      /\ \A s \in S : live \cap marked[s] \subseteq Listed(members'[s]) \cap ToSet(markup'[s])
      /\ grown' \subseteq grown
  BY ExtractIs
<1>2. Typed'
  BY <1>1 DEF Sound, Typed
<1>3. MarkupIsListed' /\ RemovedStaysRemoved'
  BY <1>1 DEF MarkupIsListed, RemovedStaysRemoved
<1>4. MarkedIsFound'
  BY <1>1 DEF MarkedIsFound
<1> QED
  BY <1>1, <1>2, <1>3, <1>4 DEF Sound

\* The scene a heading's text goes to, or comes from.
LEMMA SceneBeforeIs ==
  ASSUME Sound, NEW t \in Scenes, \E s \in present : s < t
  PROVE  SceneBefore(t) \in present /\ SceneBefore(t) \in Scenes /\ SceneBefore(t) # t
<1> DEFINE B == {s \in present : s < t}
<1>1. present \subseteq Scenes /\ MaxScenes \in Nat
  BY BreakdownAssumption DEF Sound, Typed
<1>2. B \subseteq 1 .. MaxScenes /\ B # {}
  BY <1>1 DEF Scenes
<1>3. Max(B) \in B /\ \A y \in B : y <= Max(B)
  <2> HIDE DEF B
  <2> QED
    BY <1>1, <1>2, GreatestOf
<1>4. \E s \in present : s < t /\ \A r \in present : r < t => r <= s
  BY <1>3
<1>5. SceneBefore(t) \in present /\ SceneBefore(t) < t
  BY <1>4 DEF SceneBefore
<1>6. \A b \in Scenes : b < t => b # t
  BY <1>1 DEF Scenes
<1> QED
  BY <1>1, <1>5, <1>6

LEMMA InitSound == Init => Sound
<1> SUFFICES ASSUME Init PROVE Sound
  OBVIOUS
<1> USE BreakdownAssumption DEF Init
<1>1. 1 \in Scenes \/ present \subseteq Scenes
  OBVIOUS
<1>2. Typed
  <2>1. present \subseteq Scenes
    OBVIOUS
  <2>2. named \in [Scenes -> SUBSET Characters] /\ edits \in 0 .. MaxEdits
    OBVIOUS
  <2> QED
    BY <2>1, <2>2 DEF Typed
<1>3. <<>> \in WellFormedLists /\ Listed(<<>>) = {} /\ <<>> \in Distinct(Items) /\ ToSet(<<>>) = {}
  BY DEF WellFormedLists, WellFormed, Listed, Distinct, IsInjective, ToSet
<1>4. \A s \in Scenes : members[s] = <<>> /\ markup[s] = <<>>
  OBVIOUS
<1>5. ListsTyped
  BY <1>3 DEF ListsTyped
<1>6. MarkupIsListed /\ RemovedStaysRemoved
  BY <1>3, <1>4 DEF MarkupIsListed, RemovedStaysRemoved
<1>7. MarkedIsFound
  <2>1. context \notin present
    OBVIOUS
  <2> QED
    BY <2>1 DEF MarkedIsFound
<1> QED
  BY <1>2, <1>5, <1>6, <1>7 DEF Sound

LEMMA OpenSound ==
  ASSUME Sound, NEW s \in Scenes, Open(s)
  PROVE  Sound'
<1>1. present \in SUBSET Scenes
  BY DEF Sound, Typed
<1>2. Extract(present) /\ context' = s /\ UNCHANGED <<present, marked, named, live, edits>>
  BY DEF Open, spans
<1>3. pending' \in BOOLEAN
  BY DEF Open, Sound, Typed
<1> QED
  BY <1>1, <1>2, <1>3, SidebarSound

LEMMA ContextSound ==
  ASSUME Sound, NEW s \in Scenes, ContextChanged(s)
  PROVE  Sound'
<1> DEFINE S == {context, s} \cap present
<1>1. S \in SUBSET Scenes
  BY DEF Sound, Typed
<1>2. Extract(S) /\ context' = s /\ s \in S /\ UNCHANGED <<present, marked, named, live, edits>>
  BY DEF ContextChanged, spans
<1>3. pending' \in BOOLEAN
  BY DEF ContextChanged, Sound, Typed
<1> HIDE DEF S
<1> QED
  BY <1>1, <1>2, <1>3, SidebarSound

LEMMA TimerSound ==
  ASSUME Sound, ExtractionTimer
  PROVE  Sound'
<1> DEFINE S == {context} \cap present
<1>1. S \in SUBSET Scenes
  BY DEF Sound, Typed
<1>2. /\ Extract(S) /\ context' = context /\ pending' = FALSE
      /\ UNCHANGED <<present, marked, named, live, edits>>
  BY DEF ExtractionTimer, spans
<1>3. context' \in Scenes \cup {NoScene} /\ (context' \in present => context' \in S)
  BY <1>2 DEF Sound, Typed
<1> HIDE DEF S
<1> QED
  BY <1>1, <1>2, <1>3, SidebarSound

\* The lists stay as they are, and nothing more is marked in the scene that
\* is shown, or an extraction waits.
LEMMA TextSound ==
  ASSUME Sound, Typed', UNCHANGED <<lists, live, context>>,
         MarkedIsFound'
  PROVE  Sound'
BY DEF Sound, ListsTyped, MarkupIsListed, RemovedStaysRemoved, lists

LEMMA UserIsCounted ==
  ASSUME Sound, UserActs
  PROVE  edits' \in 0 .. MaxEdits /\ context \in Scenes
BY BreakdownAssumption DEF Sound, Typed, UserActs

LEMMA EditSound ==
  ASSUME Sound, NEW s \in Scenes, NEW found \in SUBSET Items, NEW empty,
         EditText(s, found, empty)
  PROVE  Sound'
<1>1. Typed'
  BY UserIsCounted DEF Sound, Typed, EditText
<1>2. MarkedIsFound'
  BY DEF EditText, MarkedIsFound
<1> QED
  BY <1>1, <1>2, TextSound DEF EditText

\* Typing in a span marks nothing more in a scene, or the scene has grown.
LEMMA TypeInSound ==
  ASSUME Sound, NEW s \in Scenes, NEW item \in Items, TypeInSpan(s, item)
  PROVE  Sound'
<1>1. /\ marked \in [Scenes -> SUBSET Items] /\ grown \subseteq Scenes
      /\ context \in Scenes \cup {NoScene}
  BY DEF Sound, Typed
<1>2. UNCHANGED <<present, named, live, lists, context, pending>> /\ edits' \in 0 .. MaxEdits
  BY UserIsCounted DEF TypeInSpan
<1>3. /\ marked' \in [Scenes -> SUBSET Items] /\ grown \subseteq grown' /\ grown' \subseteq Scenes
      /\ \A r \in Scenes \ grown' : marked'[r] \subseteq marked[r]
  <2>1. ASSUME NEW left \in {marked[s], marked[s] \ {item}}, grown' = grown,
               marked' = [marked EXCEPT ![s] = left]
        PROVE  <1>3!1
    BY <1>1, <2>1
  <2>2. ASSUME marked' = [marked EXCEPT ![s] = @ \cup {item}],
               grown' = IF item \in marked[s] THEN grown ELSE grown \cup {s}
        PROVE  <1>3!1
    BY <1>1, <2>2
  <2> QED
    BY <2>1, <2>2 DEF TypeInSpan
<1>4. Typed'
  BY <1>2, <1>3 DEF Sound, Typed
<1>5. MarkedIsFound'
  BY <1>1, <1>2, <1>3 DEF Sound, Typed, MarkedIsFound, lists
<1> QED
  BY <1>2, <1>4, <1>5, TextSound

LEMMA DeleteNameSound ==
  ASSUME Sound, NEW s \in Scenes, NEW item \in Items, DeleteName(item, s)
  PROVE  Sound'
<1>1. Typed'
  BY UserIsCounted DEF Sound, Typed, DeleteName, spans
<1>2. MarkedIsFound'
  BY DEF Sound, DeleteName, MarkedIsFound, lists, spans
<1> QED
  BY <1>1, <1>2, TextSound DEF DeleteName

LEMMA SplitSound ==
  ASSUME Sound, NEW t \in Scenes, NEW found \in SUBSET Items, NEW stay \in SUBSET Items,
         SplitScene(t, found, stay)
  PROVE  Sound'
<1> DEFINE b == SceneBefore(t)
<1>1. b \in present /\ b \in Scenes /\ b # t
  BY SceneBeforeIs DEF SplitScene
<1> HIDE DEF b
<1>2. /\ present' = present \cup {t} /\ grown' = grown \cup {t}
      /\ found \cup stay = marked[b]
      /\ marked' = [marked EXCEPT ![t] = found, ![b] = stay]
      /\ \E names \in SUBSET named[b] :
           named' = [named EXCEPT ![t] = names, ![b] = @ \ names]
      /\ edits < MaxEdits /\ edits' = edits + 1
      /\ UNCHANGED <<live, lists, context, pending>>
  BY DEF SplitScene, UserActs, b
<1>3. /\ marked \in [Scenes -> SUBSET Items] /\ named \in [Scenes -> SUBSET Characters]
      /\ present \subseteq Scenes /\ grown \subseteq Scenes
      /\ live \subseteq Items /\ edits \in 0 .. MaxEdits
      /\ context \in Scenes \cup {NoScene} /\ pending \in BOOLEAN
  BY DEF Sound, Typed
<1>4. named' \in [Scenes -> SUBSET Characters]
  <2>1. PICK names \in SUBSET named[b] :
          named' = [named EXCEPT ![t] = names, ![b] = @ \ names]
    BY <1>2
  <2>2. names \subseteq Characters
    BY <1>1, <1>3
  <2> QED
    BY <1>1, <1>3, <2>1, <2>2
<1>5. marked' \in [Scenes -> SUBSET Items]
  BY <1>1, <1>2, <1>3
<1>6. Typed'
  BY <1>2, <1>3, <1>4, <1>5, BreakdownAssumption DEF Typed
<1>7. \A s \in Scenes : s # t => marked'[s] \subseteq marked[s]
  BY <1>1, <1>2, <1>3
<1>8. MarkedIsFound'
  <2> SUFFICES ASSUME ~pending', context' \in present' \ grown'
               PROVE  live' \cap marked'[context']
                        \subseteq Listed(members'[context']) \cap ToSet(markup'[context'])
    BY DEF MarkedIsFound
  <2>1. ~pending /\ context \in present \ grown /\ context # t /\ context \in Scenes
    BY <1>2, <1>3
  <2>2. live \cap marked[context] \subseteq Listed(members[context]) \cap ToSet(markup[context])
    BY <2>1 DEF Sound, MarkedIsFound
  <2> QED
    BY <1>2, <1>7, <2>1, <2>2 DEF lists
<1> QED
  BY <1>2, <1>6, <1>8, TextSound

LEMMA MergeSound ==
  ASSUME Sound, NEW t \in Scenes, MergeScene(t)
  PROVE  Sound'
<1> DEFINE b == SceneBefore(t)
<1>1. b \in present /\ b \in Scenes /\ b # t
  BY SceneBeforeIs DEF MergeScene
<1> HIDE DEF b
<1>2. /\ present' = present \ {t} /\ grown' = grown \cup {b}
      /\ marked' = [marked EXCEPT ![b] = @ \cup marked[t], ![t] = {}]
      /\ named' = [named EXCEPT ![b] = @ \cup named[t], ![t] = {}]
      /\ edits < MaxEdits /\ edits' = edits + 1
      /\ UNCHANGED <<live, lists, context, pending>>
  BY DEF MergeScene, UserActs, b
<1>3. /\ marked \in [Scenes -> SUBSET Items] /\ named \in [Scenes -> SUBSET Characters]
      /\ present \subseteq Scenes /\ grown \subseteq Scenes
      /\ live \subseteq Items /\ edits \in 0 .. MaxEdits
      /\ context \in Scenes \cup {NoScene} /\ pending \in BOOLEAN
  BY DEF Sound, Typed
<1>4. marked' \in [Scenes -> SUBSET Items] /\ named' \in [Scenes -> SUBSET Characters]
  BY <1>1, <1>2, <1>3
<1>5. Typed'
  BY <1>1, <1>2, <1>3, <1>4, BreakdownAssumption DEF Typed
<1>6. \A s \in Scenes : s # t /\ s # b => marked'[s] = marked[s]
  BY <1>1, <1>2, <1>3
<1>7. MarkedIsFound'
  <2> SUFFICES ASSUME ~pending', context' \in present' \ grown'
               PROVE  live' \cap marked'[context']
                        \subseteq Listed(members'[context']) \cap ToSet(markup'[context'])
    BY DEF MarkedIsFound
  <2>1. ~pending /\ context \in present \ grown /\ context # t /\ context # b /\ context \in Scenes
    BY <1>2, <1>3
  <2>2. live \cap marked[context] \subseteq Listed(members[context]) \cap ToSet(markup[context])
    BY <2>1 DEF Sound, MarkedIsFound
  <2> QED
    BY <1>2, <1>6, <2>1, <2>2 DEF lists
<1> QED
  BY <1>2, <1>5, <1>7, TextSound

\* One scene's department lists change.
LEMMA OneListTyped ==
  ASSUME Sound, NEW s \in Scenes, NEW depts \in WellFormedLists,
         members' = [members EXCEPT ![s] = depts]
  PROVE  /\ members' \in [Scenes -> WellFormedLists]
         /\ members'[s] = depts /\ \A r \in Scenes : r # s => members'[r] = members[r]
BY DEF Sound, ListsTyped

LEMMA OneMarkupTyped ==
  ASSUME Sound, NEW s \in Scenes, NEW list \in Distinct(Items),
         markup' = [markup EXCEPT ![s] = list]
  PROVE  /\ markup' \in [Scenes -> Distinct(Items)]
         /\ markup'[s] = list /\ \A r \in Scenes : r # s => markup'[r] = markup[r]
BY DEF Sound, ListsTyped

LEMMA NameSound ==
  ASSUME Sound, NEW item \in Items, NEW s \in Scenes, NEW t \in Scenes,
         NameCharacter(item, s, t)
  PROVE  Sound'
<1> DEFINE depts == AddItem(members[t], item)
<1>1. /\ item \in live \cap Characters
      /\ named' = [named EXCEPT ![s] = @ \cup {item}]
      /\ members' = [members EXCEPT ![t] = depts]
      /\ UNCHANGED <<present, marked, live, markup, context, pending, grown>>
  BY DEF NameCharacter, spans
<1>2. WellFormed(members[t])
  BY SoundScene
<1>3. depts \in WellFormedLists /\ Listed(depts) = Listed(members[t]) \cup {item}
  BY <1>2, AddedItem, WellFormedListsAre
<1> HIDE DEF depts
<1>4. /\ members' \in [Scenes -> WellFormedLists]
      /\ members'[t] = depts /\ \A r \in Scenes : r # t => members'[r] = members[r]
  BY <1>1, <1>3, OneListTyped
<1>5. Typed'
  <2>1. edits' \in 0 .. MaxEdits
    BY UserIsCounted DEF NameCharacter
  <2>2. named' \in [Scenes -> SUBSET Characters]
    BY <1>1 DEF Sound, Typed
  <2> QED
    BY <1>1, <2>1, <2>2 DEF Sound, Typed
<1>6. \A r \in Scenes : /\ Listed(members[r]) \subseteq Listed(members'[r])
                        /\ Listed(members'[r]) \subseteq Listed(members[r]) \cup {item}
  BY <1>3, <1>4
<1>7. MarkupIsListed' /\ RemovedStaysRemoved'
  BY <1>1, <1>6 DEF Sound, MarkupIsListed, RemovedStaysRemoved
<1>8. MarkedIsFound'
  BY <1>1, <1>6 DEF Sound, Typed, MarkedIsFound
<1> QED
  BY <1>1, <1>4, <1>5, <1>7, <1>8 DEF Sound, ListsTyped

LEMMA AddSound ==
  ASSUME Sound, NEW item \in Items, NEW S \in SUBSET Scenes, NEW W, AddByHand(item, S, W)
  PROVE  Sound'
<1> DEFINE depts == AddItem(members[context], item)
           list == AppendElement(markup[context], item)
<1>1. /\ item \in live
      /\ members' = [members EXCEPT ![context] = depts]
      /\ markup' = IF S = {} THEN markup ELSE [markup EXCEPT ![context] = list]
      /\ marked' = [s \in Scenes |-> IF s \in S \ W THEN marked[s] \cup {item} ELSE marked[s]]
      /\ pending' = (pending \/ S # {})
      /\ UNCHANGED <<present, named, live, context, grown>>
  BY DEF AddByHand
<1>2. context \in Scenes /\ edits' \in 0 .. MaxEdits
  BY UserIsCounted DEF AddByHand
<1>3. WellFormed(members[context]) /\ markup[context] \in Distinct(Items)
  BY <1>2, SoundScene
<1>4. depts \in WellFormedLists /\ Listed(depts) = Listed(members[context]) \cup {item}
  BY <1>3, AddedItem, WellFormedListsAre
<1>5. list \in Distinct(Items) /\ ToSet(list) = ToSet(markup[context]) \cup {item}
  BY <1>3, AppendedDistinct
<1> HIDE DEF depts, list
<1>6. /\ members' \in [Scenes -> WellFormedLists] /\ members'[context] = depts
      /\ \A r \in Scenes : r # context => members'[r] = members[r]
  BY <1>1, <1>2, <1>4, OneListTyped
<1>7. /\ markup' \in [Scenes -> Distinct(Items)]
      /\ markup'[context] = IF S = {} THEN markup[context] ELSE list
      /\ \A r \in Scenes : r # context => markup'[r] = markup[r]
  <2>1. CASE S = {}
    BY <1>1, <2>1 DEF Sound, ListsTyped
  <2>2. CASE S # {}
    BY <1>1, <1>2, <1>5, <2>2, OneMarkupTyped
  <2> QED
    BY <2>1, <2>2
<1>8. Typed'
  <2>1. marked' \in [Scenes -> SUBSET Items]
    BY <1>1 DEF Sound, Typed
  <2>2. pending' \in BOOLEAN
    BY <1>1
  <2> QED
    BY <1>1, <1>2, <2>1, <2>2 DEF Sound, Typed
<1>9. \A r \in Scenes : /\ Listed(members[r]) \subseteq Listed(members'[r])
                        /\ Listed(members'[r]) \subseteq Listed(members[r]) \cup {item}
  BY <1>4, <1>6
<1>10. \A r \in Scenes : live \cap ToSet(markup'[r]) \subseteq Listed(members'[r])
  <2>1. \A r \in Scenes : live \cap ToSet(markup[r]) \subseteq Listed(members[r])
    BY DEF Sound, MarkupIsListed
  <2> SUFFICES ASSUME NEW r \in Scenes
               PROVE  live \cap ToSet(markup'[r]) \subseteq Listed(members'[r])
    OBVIOUS
  <2>2. CASE r = context
    <3>1. item \in Listed(members'[r])
      BY <1>4, <1>6, <2>2
    <3>2. ToSet(markup'[r]) \subseteq ToSet(markup[r]) \cup {item}
      BY <1>5, <1>7, <2>2
    <3> QED
      BY <1>9, <2>1, <3>1, <3>2
  <2>3. CASE r # context
    BY <1>7, <1>9, <2>1, <2>3
  <2> QED
    BY <2>2, <2>3
<1>11. MarkupIsListed' /\ RemovedStaysRemoved'
  <2>1. \A r \in Scenes : Listed(members'[r]) \subseteq live
    BY <1>1, <1>9 DEF Sound, RemovedStaysRemoved
  <2> QED
    BY <1>1, <1>10, <2>1 DEF MarkupIsListed, RemovedStaysRemoved
<1>12. MarkedIsFound'
  <2> SUFFICES ASSUME ~pending', context' \in present' \ grown'
               PROVE  live' \cap marked'[context']
                        \subseteq Listed(members'[context']) \cap ToSet(markup'[context'])
    BY DEF MarkedIsFound
  <2>1. S = {} /\ ~pending /\ context \in present \ grown
    BY <1>1
  <2>2. marked'[context] = marked[context] /\ markup'[context] = markup[context]
    BY <1>1, <1>2, <1>7, <2>1
  <2>3. live \cap marked[context] \subseteq Listed(members[context]) \cap ToSet(markup[context])
    BY <2>1 DEF Sound, MarkedIsFound
  <2> QED
    BY <1>1, <1>2, <1>9, <2>2, <2>3
<1> QED
  BY <1>6, <1>7, <1>8, <1>11, <1>12 DEF Sound, ListsTyped

LEMMA RemoveSound ==
  ASSUME Sound, NEW item \in Items, RemoveSelectedItem(item)
  PROVE  Sound'
<1> DEFINE depts == RemoveItem(members[context], item)
           list == RemoveElement(markup[context], item)
           contains == Contains(markup[context], item)
<1>1. /\ item \in Listed(members[context])
      /\ members' = [members EXCEPT ![context] = depts]
      /\ \/ /\ contains
            /\ markup' = [markup EXCEPT ![context] = list]
            /\ marked' = [marked EXCEPT ![context] = @ \ {item}]
            /\ pending' = (pending \/ item \in marked[context] \cup blank[context])
         \/ ~contains /\ UNCHANGED <<markup, marked, pending>>
      /\ UNCHANGED <<present, named, live, context, grown>>
  BY DEF RemoveSelectedItem, Unmark, spans
<1>2. context \in Scenes /\ edits' \in 0 .. MaxEdits
  BY UserIsCounted DEF RemoveSelectedItem
<1>3. /\ WellFormed(members[context]) /\ markup[context] \in Distinct(Items)
      /\ Listed(members[context]) \subseteq live
  BY <1>2, SoundScene
<1>4. depts \in WellFormedLists /\ Listed(depts) = Listed(members[context]) \ {item}
  <2>1. item \in live
    BY <1>1, <1>3
  <2>2. WellFormed(depts) /\ Listed(depts) = Listed(members[context]) \ ({item} \cap live)
    BY <1>3, RemovedItem
  <2> HIDE DEF depts
  <2> QED
    BY <2>1, <2>2, WellFormedListsAre
<1>5. /\ list \in Distinct(Items) /\ ToSet(list) = ToSet(markup[context]) \ {item}
      /\ contains <=> item \in ToSet(markup[context])
  <2>1. list \in Distinct(Items) /\ ToSet(list) = ToSet(markup[context]) \ {item}
    BY <1>3, AnyRemoved
  <2>2. contains <=> item \in ToSet(markup[context])
    BY <1>3, DistinctAre DEF Contains
  <2> QED
    BY <2>1, <2>2
<1> HIDE DEF depts, list, contains
<1>6. /\ members' \in [Scenes -> WellFormedLists] /\ members'[context] = depts
      /\ \A r \in Scenes : r # context => members'[r] = members[r]
  BY <1>1, <1>2, <1>4, OneListTyped
<1>7. /\ markup' \in [Scenes -> Distinct(Items)]
      /\ ToSet(markup'[context]) = ToSet(markup[context]) \ {item}
      /\ \A r \in Scenes : r # context => markup'[r] = markup[r]
  <2>1. CASE contains
    <3>1. markup' = [markup EXCEPT ![context] = list]
      BY <1>1, <2>1
    <3> QED
      BY <1>2, <1>5, <3>1, OneMarkupTyped
  <2>2. CASE ~contains
    <3>1. markup' = markup
      BY <1>1, <2>2
    <3> QED
      BY <1>5, <2>2, <3>1 DEF Sound, ListsTyped
  <2> QED
    BY <2>1, <2>2
<1>8. /\ marked' \in [Scenes -> SUBSET Items] /\ pending' \in BOOLEAN
      /\ marked'[context] \subseteq marked[context]
      /\ contains => item \notin marked'[context]
      /\ ~pending' => ~pending
  <2>1. marked \in [Scenes -> SUBSET Items] /\ pending \in BOOLEAN
    BY DEF Sound, Typed
  <2>2. CASE contains
    <3>1. /\ marked' = [marked EXCEPT ![context] = @ \ {item}]
          /\ pending' = (pending \/ item \in marked[context] \cup blank[context])
      BY <1>1, <2>2
    <3>2. marked' \in [Scenes -> SUBSET Items] /\ marked'[context] = marked[context] \ {item}
      BY <1>2, <2>1, <3>1
    <3>3. pending' \in BOOLEAN /\ (~pending' => ~pending)
      BY <3>1, Zenon
    <3> QED
      BY <3>2, <3>3
  <2>3. CASE ~contains
    <3>1. marked' = marked /\ pending' = pending
      BY <1>1, <2>3
    <3> QED
      BY <2>1, <2>3, <3>1
  <2> QED
    BY <2>2, <2>3
<1>9. Typed'
  BY <1>1, <1>2, <1>8 DEF Sound, Typed
<1>10. MarkupIsListed' /\ RemovedStaysRemoved'
  <2>1. \A r \in Scenes : /\ live \cap ToSet(markup[r]) \subseteq Listed(members[r])
                          /\ Listed(members[r]) \subseteq live
    BY DEF Sound, MarkupIsListed, RemovedStaysRemoved
  <2>2. \A r \in Scenes : /\ live \cap ToSet(markup'[r]) \subseteq Listed(members'[r])
                          /\ Listed(members'[r]) \subseteq live
    BY <1>4, <1>6, <1>7, <2>1
  <2> QED
    BY <1>1, <2>2 DEF MarkupIsListed, RemovedStaysRemoved
<1>11. MarkedIsFound'
  <2> SUFFICES ASSUME ~pending', context' \in present' \ grown'
               PROVE  live' \cap marked'[context']
                        \subseteq Listed(members'[context']) \cap ToSet(markup'[context'])
    BY DEF MarkedIsFound
  <2>1. ~pending /\ context \in present \ grown
    BY <1>1, <1>8
  <2>2. live \cap marked[context] \subseteq Listed(members[context]) \cap ToSet(markup[context])
    BY <2>1 DEF Sound, MarkedIsFound
  <2>3. item \notin live \cap marked'[context]
    BY <1>5, <1>8, <2>2
  <2>4. live \cap marked'[context] \subseteq Listed(members'[context]) \cap ToSet(markup'[context])
    BY <1>4, <1>6, <1>7, <1>8, <2>2, <2>3
  <2> QED
    BY <1>1, <2>4
<1> QED
  BY <1>6, <1>7, <1>9, <1>10, <1>11 DEF Sound, ListsTyped

LEMMA RemoveFromProjectSound ==
  ASSUME Sound, NEW item \in Items, RemoveFromProject(item)
  PROVE  Sound'
<1>1. /\ item \in live /\ live' = live \ {item}
      /\ members' = [s \in Scenes |->
                       IF item \in Listed(members[s]) THEN RemoveItem(members[s], item)
                       ELSE members[s]]
      /\ UNCHANGED <<present, marked, named, markup, context, pending, grown>>
  BY DEF RemoveFromProject, spans
<1>2. edits' \in 0 .. MaxEdits
  BY UserIsCounted DEF RemoveFromProject
<1>3. ASSUME NEW s \in Scenes
      PROVE  /\ members'[s] \in WellFormedLists
             /\ Listed(members'[s]) = Listed(members[s]) \ {item}
  <2>1. WellFormed(members[s])
    BY SoundScene
  <2>2. CASE item \in Listed(members[s])
    <3> DEFINE depts == RemoveItem(members[s], item)
    <3>1. members'[s] = depts
      BY <1>1, <2>2
    <3>2. WellFormed(depts) /\ Listed(depts) = Listed(members[s]) \ ({item} \cap live)
      BY <2>1, RemovedItem
    <3> HIDE DEF depts
    <3> QED
      BY <1>1, <3>1, <3>2, WellFormedListsAre
  <2>3. CASE item \notin Listed(members[s])
    <3>1. members'[s] = members[s]
      BY <1>1, <2>3
    <3> QED
      BY <2>1, <2>3, <3>1, WellFormedListsAre
  <2> QED
    BY <2>2, <2>3
<1>4. ListsTyped'
  <2>1. members' = [s \in Scenes |-> members'[s]]
    BY <1>1
  <2>2. members' \in [Scenes -> WellFormedLists]
    BY <1>3, <2>1
  <2> QED
    BY <1>1, <2>2 DEF Sound, ListsTyped
<1>5. Typed'
  BY <1>1, <1>2 DEF Sound, Typed
<1>6. MarkupIsListed' /\ RemovedStaysRemoved'
  BY <1>1, <1>3 DEF Sound, MarkupIsListed, RemovedStaysRemoved
<1>7. MarkedIsFound'
  BY <1>1, <1>3 DEF Sound, Typed, MarkedIsFound
<1> QED
  BY <1>4, <1>5, <1>6, <1>7 DEF Sound

LEMMA StepSound == Sound /\ [Next]_vars => Sound'
<1> SUFFICES ASSUME Sound, [Next]_vars PROVE Sound'
  OBVIOUS
<1>1. ASSUME NEW s \in Scenes, Open(s) PROVE Sound'
  BY <1>1, OpenSound
<1>2. ASSUME NEW s \in Scenes, ContextChanged(s) PROVE Sound'
  BY <1>2, ContextSound
<1>3. ASSUME NEW s \in Scenes, MergeScene(s) PROVE Sound'
  BY <1>3, MergeSound
<1>4. ASSUME NEW s \in Scenes, NEW found \in SUBSET Items, NEW empty \in SUBSET Blankable,
             EditText(s, found, empty)
      PROVE  Sound'
  BY <1>4, EditSound
<1>5. ASSUME NEW s \in Scenes, NEW found \in SUBSET Items, NEW stay \in SUBSET Items,
             SplitScene(s, found, stay)
      PROVE  Sound'
  BY <1>5, SplitSound
<1>6. ASSUME NEW s \in Scenes, NEW item \in Items, DeleteName(item, s) PROVE Sound'
  BY <1>6, DeleteNameSound
<1>7. ASSUME NEW s \in Scenes, NEW t \in Scenes, NEW item \in Items, NameCharacter(item, s, t)
      PROVE  Sound'
  BY <1>7, NameSound
<1>8. ASSUME NEW item \in Items, RemoveSelectedItem(item) PROVE Sound'
  BY <1>8, RemoveSound
<1>9. ASSUME NEW item \in Items, RemoveFromProject(item) PROVE Sound'
  BY <1>9, RemoveFromProjectSound
<1>10. ASSUME NEW item \in Items, NEW S \in SUBSET Scenes, NEW W \in SUBSET Scenes,
              AddByHand(item, S, W)
       PROVE  Sound'
  BY <1>10, AddSound
<1>11. ASSUME ExtractionTimer PROVE Sound'
  BY <1>11, TimerSound
<1>12. ASSUME UNCHANGED vars PROVE Sound'
  BY <1>12 DEF Sound, Typed, ListsTyped, MarkupIsListed, RemovedStaysRemoved, MarkedIsFound,
               vars, lists, spans
<1>13. ASSUME NEW s \in Scenes, NEW item \in Blankable, TypeInSpan(s, item) PROVE Sound'
  BY <1>13, TypeInSound, BreakdownAssumption
<1> QED
  BY <1>1, <1>2, <1>3, <1>4, <1>5, <1>6, <1>7, <1>8, <1>9, <1>10, <1>11, <1>12, <1>13 DEF Next

LEMMA SpecSound == Spec => []Sound
<1> QED
  BY InitSound, StepSound, PTL DEF Spec

BlankTyped == blank \in [Scenes -> SUBSET Blankable]

LEMMA SpecBlankTyped == Spec => []BlankTyped
<1>1. Init => BlankTyped
  BY DEF Init, BlankTyped
<1>2. ASSUME Sound, BlankTyped, Next PROVE BlankTyped'
  <2> USE DEF BlankTyped
  <2>1. ASSUME UNCHANGED spans PROVE BlankTyped'
    BY <1>2, <2>1 DEF spans
  <2>2. ASSUME NEW s \in Scenes, Open(s) \/ ContextChanged(s) PROVE BlankTyped'
    BY <2>1, <2>2 DEF Open, ContextChanged
  <2>3. ASSUME NEW s \in Scenes, MergeScene(s) PROVE BlankTyped'
    BY <1>2, <2>3 DEF MergeScene
  <2>4. ASSUME NEW s \in Scenes, NEW found \in SUBSET Items, NEW empty \in SUBSET Blankable,
               EditText(s, found, empty)
        PROVE  BlankTyped'
    BY <1>2, <2>4 DEF EditText
  <2>5. ASSUME NEW s \in Scenes, NEW found \in SUBSET Items, NEW stay \in SUBSET Items,
               SplitScene(s, found, stay)
        PROVE  BlankTyped'
    <3> DEFINE b == SceneBefore(s)
    <3>1. PICK there \in SUBSET blank[b], here \in SUBSET blank[b] :
            blank' = [blank EXCEPT ![s] = there, ![b] = here]
      BY <2>5 DEF SplitScene
    <3>2. b \in Scenes
      BY <1>2, <2>5, SceneBeforeIs DEF SplitScene
    <3> QED
      BY <1>2, <3>1, <3>2
  <2>6. ASSUME NEW s \in Scenes, NEW item \in Blankable, TypeInSpan(s, item) PROVE BlankTyped'
    <3>1. PICK left : /\ left \in SUBSET Blankable
                      /\ blank' = [blank EXCEPT ![s] = left]
      BY <1>2, <2>6 DEF TypeInSpan
    <3> QED
      BY <1>2, <3>1
  <2>7. ASSUME NEW s \in Scenes, NEW item \in Items,
               DeleteName(item, s) \/ \E t \in Scenes : NameCharacter(item, s, t)
        PROVE  BlankTyped'
    BY <2>1, <2>7 DEF DeleteName, NameCharacter
  <2>8. ASSUME NEW item \in Items, RemoveSelectedItem(item) PROVE BlankTyped'
    <3>1. blank' = [blank EXCEPT ![context] = @ \ {item}] \/ UNCHANGED spans
      BY <2>8 DEF RemoveSelectedItem, Unmark
    <3> QED
      BY <1>2, <2>1, <3>1
  <2>9. ASSUME NEW item \in Items, RemoveFromProject(item) PROVE BlankTyped'
    BY <2>1, <2>9 DEF RemoveFromProject
  <2>10. ASSUME NEW item \in Items, NEW S \in SUBSET Scenes, NEW W \in SUBSET Scenes,
                AddByHand(item, S, W)
         PROVE  BlankTyped'
    <3>1. /\ blank' = [s \in Scenes |-> IF s \in W THEN blank[s] \cup {item} ELSE blank[s]]
          /\ W # {} => item \in Blankable
      BY <2>10 DEF AddByHand
    <3> QED
      BY <1>2, <3>1
  <2>11. ASSUME ExtractionTimer PROVE BlankTyped'
    BY <2>1, <2>11 DEF ExtractionTimer
  <2> QED
    BY <1>2, <2>2, <2>3, <2>4, <2>5, <2>6, <2>7, <2>8, <2>9, <2>10, <2>11 DEF Next
<1>3. BlankTyped /\ UNCHANGED vars => BlankTyped'
  BY DEF BlankTyped, vars, spans
<1> QED
  BY <1>1, <1>2, <1>3, SpecSound, PTL DEF Spec

(***************************************************************************)
(* Type correctness, for any numbers of items, departments, scenes and     *)
(* edits.                                                                  *)
(***************************************************************************)
THEOREM BreakdownTypeCorrect == Spec => []TypeOK
<1>1. Sound /\ BlankTyped => TypeOK
  <2> SUFFICES ASSUME Sound, BlankTyped PROVE TypeOK
    OBVIOUS
  <2>1. ASSUME NEW s \in Scenes
        PROVE  /\ members[s] \in Seq(DepartmentList)
               /\ markup[s] \in Seq(Items) /\ IsInjective(markup[s])
    <3>1. WellFormed(members[s]) /\ markup[s] \in Distinct(Items)
      BY SoundScene
    <3>2. members[s] \in Seq(GoodLists)
      BY <3>1 DEF WellFormed
    <3>3. GoodLists \subseteq DepartmentList
      BY DEF GoodLists
    <3>4. members[s] \in Seq(DepartmentList)
      BY <3>2, <3>3
    <3> QED
      BY <3>1, <3>4 DEF Distinct
  <2> QED
    BY <2>1 DEF Sound, Typed, BlankTyped, TypeOK
<1> QED
  BY <1>1, SpecSound, SpecBlankTyped, PTL

(***************************************************************************)
(* The department lists are those the breakdown reports print: one for     *)
(* each department, none empty, each with its own items once and with      *)
(* their number.                                                           *)
(***************************************************************************)
THEOREM ListsStayWellFormed == Spec => []ListsWellFormed
<1>1. Sound => ListsWellFormed
  <2> SUFFICES ASSUME Sound, NEW s \in Scenes
               PROVE  /\ \A j, k \in DOMAIN members[s] :
                           members[s][j].dept = members[s][k].dept => j = k
                      /\ \A k \in DOMAIN members[s] :
                           LET d == members[s][k]
                           IN /\ d.items # <<>> /\ IsInjective(d.items)
                              /\ d.size = Len(d.items)
                              /\ \A i \in ToSet(d.items) : DeptOf[i] = d.dept
    BY DEF ListsWellFormed
  <2>1. WellFormed(members[s])
    BY SoundScene
  <2>2. /\ DOMAIN members[s] = 1 .. Len(members[s])
        /\ \A k \in 1 .. Len(members[s]) : members[s][k] \in GoodLists
    BY <2>1, DeptsAre
  <2> QED
    BY <2>1, <2>2 DEF WellFormed, GoodLists
<1> QED
  BY <1>1, SpecSound, PTL

(***************************************************************************)
(* The sidebar shows every item that is marked in the text of its scene,   *)
(* once no extraction waits, unless the scene has taken in text, or a span *)
(* of whitespace in it was typed in, of which the sidebar hears nothing.   *)
(***************************************************************************)
THEOREM MarkedItemsAreListed == Spec => []MarkedAreListed
<1>1. Sound => MarkedAreListed
  BY DEF Sound, MarkedIsFound, MarkedAreListed
<1> QED
  BY <1>1, SpecSound, PTL

(***************************************************************************)
(* An item of the project that is in the markup of a scene is listed.      *)
(***************************************************************************)
THEOREM MarkupStaysListed == Spec => []MarkupIsListed
<1>1. Sound => MarkupIsListed
  BY DEF Sound
<1> QED
  BY <1>1, SpecSound, PTL

(***************************************************************************)
(* An item that was removed from the project does not come back.           *)
(***************************************************************************)
THEOREM RemovedItemsStayAway == Spec => []RemovedStaysRemoved
<1>1. Sound => RemovedStaysRemoved
  BY DEF Sound
<1> QED
  BY <1>1, SpecSound, PTL

LEMMA ExtractHalves ==
  ASSUME Sound, NEW S \in SUBSET Scenes, Extract(S), UNCHANGED <<live, marked, named>>,
         NEW s \in S
  PROVE  2 * Cardinality(Stale(s)') <= Cardinality(Stale(s))
<1>1. 2 * Cardinality(ToSet(markup'[s]) \ Occurring(s))
        <= Cardinality(ToSet(markup[s]) \ Occurring(s))
  BY ExtractIs
<1>2. Occurring(s)' = Occurring(s)
  BY DEF Occurring
<1> QED
  BY <1>1, <1>2 DEF Stale

(***************************************************************************)
(* Each extraction of a scene strips at least half of the items that occur *)
(* in it no more, whatever the length and the order of its markup list:    *)
(* the loop passes over at most one element for each that it removes.      *)
(***************************************************************************)
THEOREM ExtractionStripsHalf == Spec => StripsHalf
<1> DEFINE Halved == \A s \in Extracted : 2 * Cardinality(Stale(s)') <= Cardinality(Stale(s))
<1>1. ASSUME Sound, Next, Extracting
      PROVE  Halved
  <2>1. ASSUME NEW s \in Scenes, ContextChanged(s)
        PROVE  Halved
    <3> DEFINE S == {context, s} \cap present
    <3>1. /\ S \in SUBSET Scenes /\ Extract(S) /\ Extracted = S
          /\ UNCHANGED <<live, marked, named>>
      BY <1>1, <2>1 DEF ContextChanged, Extracted, Sound, Typed, spans
    <3> HIDE DEF S
    <3> QED
      BY <1>1, <3>1, ExtractHalves
  <2>2. ASSUME ExtractionTimer
        PROVE  Halved
    <3> DEFINE S == {context} \cap present
    <3>1. /\ S \in SUBSET Scenes /\ Extract(S) /\ Extracted = S
          /\ UNCHANGED <<live, marked, named>>
      BY <1>1, <2>2 DEF ExtractionTimer, Extracted, Sound, Typed, spans
    <3> HIDE DEF S
    <3> QED
      BY <1>1, <3>1, ExtractHalves
  <2>3. \A s \in Scenes : ~Open(s) /\ ~MergeScene(s)
    BY <1>1 DEF Extracting, Open, MergeScene
  <2>4. \A s \in Scenes, found \in SUBSET Items :
          /\ \A empty \in SUBSET Blankable : ~EditText(s, found, empty)
          /\ \A stay \in SUBSET Items : ~SplitScene(s, found, stay)
    BY <1>1 DEF Extracting, EditText, SplitScene
  <2>7. \A s \in Scenes, item \in Blankable : ~TypeInSpan(s, item)
    BY <1>1 DEF Extracting, TypeInSpan
  <2>5. \A s \in Scenes, item \in Items :
          ~DeleteName(item, s) /\ \A t \in Scenes : ~NameCharacter(item, s, t)
    BY <1>1 DEF Extracting, DeleteName, NameCharacter
  <2>6. \A item \in Items : /\ ~RemoveSelectedItem(item) /\ ~RemoveFromProject(item)
                            /\ \A S, W \in SUBSET Scenes : ~AddByHand(item, S, W)
    <3>1. ASSUME context' = context, pending => pending'
          PROVE  FALSE
      BY <1>1, <3>1 DEF Extracting
    <3>2. ASSUME NEW item \in Items, RemoveFromProject(item)
          PROVE  context' = context /\ (pending => pending')
      BY <3>2 DEF RemoveFromProject
    <3>3. ASSUME NEW item \in Items, RemoveSelectedItem(item)
          PROVE  context' = context /\ (pending => pending')
      <4>1. \/ pending' = (pending \/ item \in marked[context] \cup blank[context])
            \/ pending' = pending
        BY <3>3 DEF RemoveSelectedItem, Unmark
      <4>2. context' = context
        BY <3>3 DEF RemoveSelectedItem
      <4>3. CASE pending' = (pending \/ item \in marked[context] \cup blank[context])
        BY <4>2, <4>3, Zenon
      <4>4. CASE pending' = pending
        BY <4>2, <4>4
      <4> QED
        BY <4>1, <4>3, <4>4
    <3>4. ASSUME NEW item \in Items, NEW S \in SUBSET Scenes, NEW W \in SUBSET Scenes,
                 AddByHand(item, S, W)
          PROVE  context' = context /\ (pending => pending')
      <4>1. pending' = (pending \/ S # {})
        BY <3>4 DEF AddByHand
      <4>2. context' = context
        BY <3>4 DEF AddByHand
      <4> QED
        BY <4>1, <4>2, Zenon
    <3> QED
      BY <3>1, <3>2, <3>3, <3>4
  <2> QED
    BY <1>1, <2>1, <2>2, <2>3, <2>4, <2>5, <2>6, <2>7 DEF Next
<1>2. Sound /\ [Next]_vars => [Extracting => Halved]_vars
  BY <1>1
<1> QED
  BY <1>2, SpecSound, PTL DEF Spec, StripsHalf
===============================================================================
