-------------------------- MODULE TransactionManager --------------------------
(***************************************************************************)
(* The transaction manager of the sketch editor (editors/txmgr.js): the    *)
(* transactions done so far and the position one past the last that is in  *)
(* effect.  A transaction is an object, told from its equals by identity:  *)
(* `id'.  clearUndoStack() has no caller and is left out; the one listener *)
(* is the editor, whose reaction is part of its own actions.               *)
(***************************************************************************)
EXTENDS Naturals, Sequences

CONSTANT NoTx   \* null, as the result of peekUndoStack()

ASSUME NullAssumption == NoTx \notin Nat

VARIABLES stack, stackPosition

TransactionManagerInit == stack = <<>> /\ stackPosition = 0

CanUndo == stackPosition > 0

CanRedo == stackPosition < Len(stack)

\* A fault: transactions are told apart by their position.
PeekUndoStackPosition == IF CanUndo THEN stackPosition ELSE NoTx

PeekUndoStack == IF CanUndo THEN stack[stackPosition].id ELSE NoTx

\* An identity that neither the stack nor `held' still refers to.
FreshId(held) ==
  CHOOSE id \in 1..(Len(stack) + 2) :
    id \notin held /\ \A i \in 1..Len(stack) : id # stack[i].id

\* A fault: what was undone is kept in front of the new transaction.
PushKeepsRedo(tx) ==
  /\ stack' = Append(stack, tx)
  /\ stackPosition' = stackPosition + 1

\* doTransaction(), once the transaction has been done: what could be redone is
\* forgotten.
Push(tx) ==
  /\ stack' = Append(SubSeq(stack, 1, stackPosition), tx)
  /\ stackPosition' = stackPosition + 1

\* undo(), once the transaction has been undone.
StepBack ==
  /\ stackPosition' = stackPosition - 1
  /\ UNCHANGED stack

\* redo(), once the transaction has been done again: it may remember anew.
StepForward(steps) ==
  /\ stack' = [stack EXCEPT ![stackPosition + 1].steps = steps]
  /\ stackPosition' = stackPosition + 1

\* A transaction threw: doTransaction() pushes nothing, undo() puts the position
\* back, redo() has not moved it yet.
StackUnchanged == UNCHANGED <<stack, stackPosition>>
=============================================================================
