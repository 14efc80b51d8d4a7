-------------------------------- MODULE RdfSeq --------------------------------
(***************************************************************************)
(* The sequences of the RDF model (nsRDFContainer.cpp) and their           *)
(* enumerator (nsContainerEnumerator.cpp), as far as Celtx relies on them: *)
(* removing an element renumbers those behind it, and the enumerator has   *)
(* always fetched one element more than it has given out.                  *)
(***************************************************************************)
EXTENDS Integers, SequencesExt

CONSTANT NoElement

\* A fault: the element is not looked for.
AppendElementAlways(list, x) == Append(list, x)

AppendElement(list, x) == IF Contains(list, x) THEN list ELSE Append(list, x)

\* RemoveElement(x, PR_TRUE)
RemoveElement(list, x) == RemoveFirst(list, x)

\* mResult is queued, mNextIndex is next.
HasMoreElements(e, list) ==
  IF e.queued # NoElement \/ e.next > Len(list) THEN e
  ELSE [queued |-> list[e.next], next |-> e.next + 1]

GetElements(list) == HasMoreElements([queued |-> NoElement, next |-> 1], list)

\* GetNext() and the HasMoreElements() that every loop calls right after it.
Advance(e, list) == HasMoreElements([e EXCEPT !.queued = NoElement], list)

\* A fault: the loop ends at the first element that stays.
StripLeading(list, keep) ==
  LET kept == SelectInSeq(list, LAMBDA x : x \in keep)
  IN IF kept = 0 THEN [left |-> <<>>, gone |-> list]
     ELSE [left |-> SubSeq(list, kept, Len(list)), gone |-> SubSeq(list, 1, kept - 1)]

\* What was fetched before a removal stays fetched, and the element that
\* has moved into the place after it is passed over.
Visit(r, keep) ==
  LET x == r.at.queued
  IN IF x = NoElement THEN r
     ELSE [at |-> Advance(r.at, r.left),
           left |-> IF x \in keep THEN r.left ELSE RemoveElement(r.left, x),
           gone |-> IF x \in keep THEN r.gone ELSE Append(r.gone, x)]

\* The loop that removes elements of the sequence it enumerates: those that
\* are left, and those that are gone in their order.
Strip(list, keep) ==
  LET visits[k \in 0 .. Len(list)] ==
        IF k = 0 THEN [left |-> list, at |-> GetElements(list), gone |-> <<>>]
        ELSE Visit(visits[k - 1], keep)
  IN visits[Len(list)]
===============================================================================
