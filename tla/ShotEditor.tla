------------------------------ MODULE ShotEditor ------------------------------
(***************************************************************************)
(* The sketch editor (editors/shoteditor.js, editors/shotselection.js):    *)
(* the commands on the selected objects, undo and redo, and save(); the    *)
(* top of the undo stack decides whether the drawing counts as modified.   *)
(* A command's handler runs to completion, so it is one action.  What is   *)
(* selected is an input: clicks with a modifier key add any object of the  *)
(* image to what is selected, in any order, and undo and redo leave it     *)
(* selected wherever they put it.                                          *)
(***************************************************************************)
EXTENDS ShotDrawing, TransactionManager

CONSTANT MaxStack   \* bound on the length of the undo stack

ASSUME MaxStackAssumption == MaxStack \in Nat

VARIABLES
  kids,         \* the drawing
  lastSaveTx,   \* _lastSaveTx
  fileExists,   \* isReadableFile(): the document has its file
  saved,        \* the drawing in that file
  snapshots,    \* the drawing after each transaction in the stack (history)
  threw         \* what threw first: none, do, undo or redo (history)

stackVars == <<stack, stackPosition>>
saveVars == <<lastSaveTx, fileExists, saved>>
vars == <<stackVars, kids, saveVars, snapshots, threw>>

Threw(what) == threw' = IF threw = "none" THEN what ELSE threw

----------------------------------------------------------------------------
(* txmgr.doTransaction(), undo() and redo().                               *)

DoTransaction(steps) ==
  LET done == DoAll(kids, steps) IN
  /\ stackPosition < MaxStack
  /\ kids' = done.kids
  /\ \/ /\ done.ok
        /\ Push([id |-> FreshId({lastSaveTx} \ {NoTx}), steps |-> done.steps])
        /\ snapshots' = Append(SubSeq(snapshots, 1, stackPosition + 1), kids')
        /\ UNCHANGED threw
     \/ /\ ~ done.ok
        /\ Threw("do")
        /\ UNCHANGED <<stackVars, snapshots>>
  /\ UNCHANGED saveVars

Undo ==
  LET undone == UndoAll(kids, stack[stackPosition].steps) IN
  /\ CanUndo
  /\ kids' = undone.kids
  /\ \/ undone.ok /\ StepBack /\ UNCHANGED threw
     \/ ~ undone.ok /\ Threw("undo") /\ StackUnchanged
  /\ UNCHANGED <<saveVars, snapshots>>

Redo ==
  LET done == DoAll(kids, stack[stackPosition + 1].steps) IN
  /\ CanRedo
  /\ kids' = done.kids
  /\ \/ done.ok /\ StepForward(done.steps) /\ UNCHANGED threw
     \/ ~ done.ok /\ Threw("redo") /\ StackUnchanged
  /\ UNCHANGED <<saveVars, snapshots>>

----------------------------------------------------------------------------
(* Selections.  An object stays selected as long as it has a parent        *)
(* (hasValidSelection()), be it a group a redo has put it in again, and be *)
(* that group in the drawing or not.                                       *)

CanSelect(o) == ParentNode(kids, o) # Null
Selectable == {o \in Objects : CanSelect(o)}

\* MultiSelection: two objects or more, in the order of the clicks.
MultiSelections == {os \in Orders(Selectable) : Len(os) > 1}

----------------------------------------------------------------------------
(* Commands.                                                               *)

\* A new object: nothing refers to it.
Fresh(o) ==
  /\ ParentNode(kids, o) = Null
  /\ o \in Groups => kids[o] = <<>>
  /\ \A i \in 1..Len(stack) : o \notin {s.node : s \in ToSet(stack[i].steps)}

\* The drawing tools.
Draw(o) == Fresh(o) /\ DoTransaction(<<Insertion(o, End(Image))>>)

\* doPaste(), of several objects.
Paste(os) ==
  /\ \A o \in ToSet(os) : Fresh(o)
  /\ DoTransaction([i \in DOMAIN os |-> Insertion(os[i], End(Image))])

\* A fault: the commands are not disabled for the lowest object.
LowerUnguarded(o) ==
  /\ CanSelect(o)
  /\ \E op \in {"lower", "bottom"} : DoTransaction(<<Shift(op, o)>>)

\* cmd-lower and cmd-lower-to-bottom (canLower())
Lower(o) ==
  /\ CanSelect(o) /\ PreviousSibling(kids, o) # Null
  /\ \E op \in {"lower", "bottom"} : DoTransaction(<<Shift(op, o)>>)

\* cmd-raise and cmd-raise-to-top (canRaise())
Raise(o) ==
  /\ CanSelect(o) /\ NextSibling(kids, o) # Null
  /\ \E op \in {"raise", "top"} : DoTransaction(<<Shift(op, o)>>)

\* deleteSelection(): every DeleteTx is constructed before the first is done.
DeleteSelection(os) ==
  DoTransaction([i \in DOMAIN os |-> Deletion(kids, os[i])])

\* The selected objects in z-order: only those whose parent is the image.
Sorted(S) == Among(kids[Image], S)

\* getBBox() throws for an object without a frame, and so does the last one of
\* no sorted objects: then there is no transaction yet.
GroupingThrows(S) == ~ S \subseteq Shown(kids) \/ Sorted(S) = <<>>

\* MultiSelection.groupSelection(): the group is made at the end, put above the
\* topmost object, and takes the objects in z-order.
GroupSelection(g, S) ==
  /\ Fresh(g)
  /\ \/ GroupingThrows(S) /\ UNCHANGED vars
     \/ /\ ~ GroupingThrows(S)
        /\ LET sorted == Sorted(S)
               members == [i \in DOMAIN sorted |-> Insertion(sorted[i], End(g))]
               place == [parent |-> Image, before |-> NextSibling(kids, Last(sorted))]
           IN DoTransaction(<<Insertion(g, End(Image)), Insertion(g, place)>> \o members)

\* GroupSelection.ungroupSelection()
UngroupSelection(g) ==
  /\ CanSelect(g) /\ g \in Shown(kids)
  /\ DoTransaction([i \in DOMAIN kids[g] |-> Insertion(kids[g][i], PlaceOf(kids, g))]
                   \o <<Deletion(kids, g)>>)

\* The editor's `modified' getter.
Modified == lastSaveTx # PeekUndoStack \/ ~ fileExists

\* save(), which the window only calls for a modified frame.
Save ==
  /\ Modified
  /\ saved' = kids /\ fileExists' = TRUE
  /\ lastSaveTx' = PeekUndoStack
  /\ UNCHANGED <<stackVars, kids, snapshots, threw>>

----------------------------------------------------------------------------
\* A new drawing without a file, or one loaded from its file.
Init ==
  /\ TransactionManagerInit
  /\ \E os \in Orders(Shapes) :
       kids = [c \in Containers |-> IF c = Image THEN os ELSE <<>>]
  /\ fileExists \in {kids[Image] # <<>>, TRUE}
  /\ lastSaveTx = NoTx
  /\ saved = kids
  /\ snapshots = <<kids>>
  /\ threw = "none"

Command ==
  \/ \E o \in Shapes : Draw(o)
  \/ \E o, p \in Shapes : o # p /\ Paste(<<o, p>>)
  \/ \E o \in Objects : Lower(o) \/ Raise(o) \/ (CanSelect(o) /\ DeleteSelection(<<o>>))
  \/ \E os \in MultiSelections : DeleteSelection(os)
  \/ \E g \in Groups, S \in SUBSET Selectable : Cardinality(S) > 1 /\ GroupSelection(g, S)
  \/ \E g \in Groups : UngroupSelection(g)

Next == Command \/ Undo \/ Redo \/ Save

Spec == Init /\ [][Next]_vars

----------------------------------------------------------------------------
Steps == [op : {"insert", "delete", "lower", "bottom", "raise", "top"},
          node : Objects, to : Places, back : Places]
IsDrawing(k) ==
  /\ DOMAIN k = Containers
  /\ \A c \in Containers : IsInjective(k[c]) /\ Children(k, c) \subseteq Objects

\* Type correctness.  A drawing is a tree: no node is in two places.
TypeOK ==
  /\ stackPosition \in 0..Len(stack) /\ Len(stack) <= MaxStack
  /\ \A i \in 1..Len(stack) : /\ stack[i].id \in Nat
                              /\ ToSet(stack[i].steps) \subseteq Steps
  /\ IsDrawing(kids) /\ IsDrawing(saved)
  /\ \A c, d \in Containers : c # d => Children(kids, c) \cap Children(kids, d) = {}
  /\ lastSaveTx \in Nat \cup {NoTx}
  /\ fileExists \in BOOLEAN
  /\ Len(snapshots) = Len(stack) + 1
  /\ \A i \in 1..Len(snapshots) : IsDrawing(snapshots[i])
  /\ threw \in {"none", "do", "undo", "redo"}

\* Undo and redo walk through the drawings the transactions made, exactly, as
\* long as no undo has thrown.
HistoryFaithful == threw = "none" => kids = snapshots[stackPosition + 1]

\* A drawing that does not count as modified is the one in its file: nothing is
\* lost when its tab closes without a question.
UnmodifiedMeansSaved == threw = "none" /\ ~ Modified => kids = saved

\* No transaction throws first when it is done or redone, whatever undo and redo
\* have moved of what is selected; its undo does, and only over a deletion of several
\* objects one of which was selected after the sibling above it.
DeletedOutOfOrder(steps) ==
  \E i, j \in DOMAIN steps :
    i < j /\ steps[j].op = "delete" /\ steps[j].back.before = steps[i].node
ThrowsOverDeletions ==
  threw # "none" =>
    threw = "undo" /\ \E i \in 1..stackPosition : DeletedOutOfOrder(stack[i].steps)

----------------------------------------------------------------------------
(* What the interfaces and comments say, and the code does not keep.       *)

\* "Restores the state to what it was before the transaction was executed"
\* (nsITransaction, which txmgr.js expects of its transactions).
UndoRestores == [][Undo => kids' = snapshots[stackPosition]]_vars
=============================================================================
