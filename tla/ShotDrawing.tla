------------------------------ MODULE ShotDrawing ------------------------------
(***************************************************************************)
(* The drawing of a shot, an SVG tree, and the transactions that rearrange *)
(* it (editors/shottxs.js).  A drawing maps each container (the image, the *)
(* groups) to the sequence of its children, the z-order.  A transaction is *)
(* a sequence of steps; a step moves one node to a place of the tree, a    *)
(* place being a parent and the sibling to go before (Null: at the end).   *)
(* Colours, geometry and labels are left out.                              *)
(***************************************************************************)
EXTENDS Integers, SequencesExt

CONSTANTS
  Shapes,   \* objects drawn, pasted or loaded
  Groups,   \* groups made by groupSelection()
  Image,    \* the root of the drawing
  Null

ASSUME DrawingAssumption ==
  /\ Shapes \cap Groups = {}
  /\ {Image, Null} \cap (Shapes \cup Groups) = {}
  /\ Image # Null

Objects == Shapes \cup Groups
Containers == Groups \cup {Image}

Nowhere == [parent |-> Null, before |-> Null]
End(c) == [parent |-> c, before |-> Null]

Children(k, c) == ToSet(k[c])

\* parentNode, previousSibling and nextSibling of a node.
ParentNode(k, o) ==
  IF \E c \in Containers : o \in Children(k, c)
  THEN CHOOSE c \in Containers : o \in Children(k, c)
  ELSE Null

Sibling(k, o, distance) ==
  LET p == ParentNode(k, o)
      i == SelectInSeq(k[p], LAMBDA x : x = o) + distance
  IN IF p # Null /\ i \in DOMAIN k[p] THEN k[p][i] ELSE Null

PreviousSibling(k, o) == Sibling(k, o, -1)
NextSibling(k, o) == Sibling(k, o, 1)

Places == [parent : Containers \cup {Null}, before : Objects \cup {Null}]

PlaceOf(k, o) == [parent |-> ParentNode(k, o), before |-> NextSibling(k, o)]

(***************************************************************************)
(* removeChild() and insertBefore(); the latter throws NOT_FOUND_ERR when  *)
(* the sibling is not a child of the parent, and takes the node from where *)
(* it was.                                                                 *)
(***************************************************************************)
Detached(k, o) == [c \in Containers |-> RemoveFirst(k[c], o)]

CanInsert(k, p) == p.parent # Null /\ p.before \in Children(k, p.parent) \cup {Null}

Moved(k, o, p) ==
  LET rest == Detached(k, o)
      at == IF p.before = Null THEN Len(rest[p.parent]) + 1
            ELSE SelectInSeq(rest[p.parent], LAMBDA x : x = p.before)
  IN IF p.parent = Null THEN rest
     ELSE [rest EXCEPT ![p.parent] = InsertAt(@, at, o)]

\* The objects under the image: only these have a frame on the screen.
Shown(k) ==
  {o \in Objects :
    \A S \in SUBSET Objects :
      (\A x \in Objects : ParentNode(k, x) \in S \cup {Image} => x \in S) => o \in S}

\* Sequences of different elements of S, and those of a sequence that are in S.
Orders(S) == UNION {SetToSeqs(T) : T \in {T \in SUBSET S : IsFiniteSet(T)}}

Among(q, S) ==
  LET among[i \in 0 .. Len(q)] ==
        IF i = 0 THEN <<>>
        ELSE IF q[i] \in S THEN Append(among[i - 1], q[i]) ELSE among[i - 1]
  IN among[Len(q)]

----------------------------------------------------------------------------
(* Steps, as the commands construct them.                                  *)

\* InsertNodeTx; the Create*Tx, whose node is new, put it at the end likewise.
Insertion(o, p) == [op |-> "insert", node |-> o, to |-> p, back |-> Nowhere]

\* DeleteTx looks up the node's place when it is constructed.
Deletion(k, o) == [op |-> "delete", node |-> o, to |-> Nowhere, back |-> PlaceOf(k, o)]

\* LowerObjectTx, LowerObjectToBottomTx, RaiseObjectTx, RaiseObjectToTopTx
Shift(op, o) == [op |-> op, node |-> o, to |-> Nowhere, back |-> Nowhere]

----------------------------------------------------------------------------
(* One step: where doTransaction() and undoTransaction() move the node, in *)
(* a drawing where they do not throw; redoTransaction() does the same.     *)

DoPlace(k, s) ==
  LET among(sibling) == [parent |-> ParentNode(k, s.node), before |-> sibling]
  IN CASE s.op \in {"insert", "delete"} -> s.to
       [] s.op = "lower"  -> among(PreviousSibling(k, s.node))
       [] s.op = "bottom" -> among(Head(k[ParentNode(k, s.node)]))
       [] s.op = "raise"  -> among(Sibling(k, s.node, 2))
       [] s.op = "top"    -> among(Null)

CanDo(k, s) ==
  \/ s.op = "insert" /\ CanInsert(k, s.to)
  \/ s.op = "delete" /\ s.back.parent \in {ParentNode(k, s.node)} \ {Null}
  \/ s.op \in {"lower", "bottom"} /\ PreviousSibling(k, s.node) # Null
  \/ s.op \in {"raise", "top"} /\ NextSibling(k, s.node) # Null

\* A fault: an insertion remembers the parent its node came from, not the sibling.
RememberingParent(k, s) ==
  IF s.op \in {"insert", "bottom", "top"}
  THEN [s EXCEPT !.back = End(ParentNode(k, s.node))] ELSE s

\* What doing a step makes it remember for its undo.
Remembering(k, s) ==
  IF s.op \in {"insert", "bottom", "top"}
  THEN [s EXCEPT !.back = PlaceOf(k, s.node)] ELSE s

UndoPlace(k, s) ==
  LET among(sibling) == [parent |-> ParentNode(k, s.node), before |-> sibling]
  IN CASE s.op \in {"insert", "delete"} -> s.back
       [] s.op = "lower" -> among(Sibling(k, s.node, 2))
       [] s.op = "raise" -> among(PreviousSibling(k, s.node))
       [] s.op \in {"bottom", "top"} -> among(s.back.before)

CanUndoStep(k, s) ==
  \/ s.op = "insert" /\ s.back = Nowhere /\ ParentNode(k, s.node) = s.to.parent
  \/ s.op \in {"insert", "delete", "bottom", "top"} /\ CanInsert(k, UndoPlace(k, s))
  \/ s.op = "lower" /\ NextSibling(k, s.node) # Null
  \/ s.op = "raise" /\ PreviousSibling(k, s.node) # Null

----------------------------------------------------------------------------
(***************************************************************************)
(* BatchTx: its steps in order, back to front to undo them.  A step that   *)
(* throws ends it (ok is FALSE) and leaves the drawing as it is by then.   *)
(***************************************************************************)
DoStep(done, s) ==
  IF done.ok /\ CanDo(done.kids, s)
  THEN [ok |-> TRUE,
        kids |-> Moved(done.kids, s.node, DoPlace(done.kids, s)),
        steps |-> Append(done.steps, Remembering(done.kids, s))]
  ELSE [done EXCEPT !.ok = FALSE]

DoAll(k, steps) ==
  LET done[i \in 0 .. Len(steps)] ==
        IF i = 0 THEN [ok |-> TRUE, kids |-> k, steps |-> <<>>]
        ELSE DoStep(done[i - 1], steps[i])
  IN done[Len(steps)]

UndoStep(undone, s) ==
  IF undone.ok /\ CanUndoStep(undone.kids, s)
  THEN [ok |-> TRUE, kids |-> Moved(undone.kids, s.node, UndoPlace(undone.kids, s))]
  ELSE [undone EXCEPT !.ok = FALSE]

UndoAll(k, steps) ==
  LET undone[i \in 0 .. Len(steps)] ==
        IF i = 0 THEN [ok |-> TRUE, kids |-> k]
        ELSE UndoStep(undone[i - 1], Reverse(steps)[i])
  IN undone[Len(steps)]
=============================================================================
