---------------------------- MODULE SceneBreakdown ----------------------------
(***************************************************************************)
(* The breakdown of the scenes of a script: which items (characters,       *)
(* props, ...) occur in which scene.  The editor marks text with spans     *)
(* that refer to items; the sidebar (editors/breakdown.js) extracts them   *)
(* (nsScriptScene.cpp) into the lists of the scene it shows, when it comes *)
(* to show it and, on a timer, after spans were inserted or removed.       *)
(* Items are also added and removed by hand, by the name over a dialogue   *)
(* (gCharacterTracker), and from the whole project (celtx.js).             *)
(*                                                                         *)
(* A scene has two lists: its items by department, and those that were     *)
(* found as markup, which extraction may take away again.                  *)
(***************************************************************************)
EXTENDS RdfSeq, FiniteSets

CONSTANTS
  Items,      \* breakdown items
  DeptOf,     \* the department (RDF type) of each
  Characters, \* the items of type Cast
  MaxScenes,  \* bound: headings in the script
  NoScene,
  Blankable,  \* bound: the items that may have spans of whitespace
  MaxEdits    \* bound: what the user does

Scenes == 1 .. MaxScenes   \* in the order of the document

ASSUME BreakdownAssumption ==
  /\ MaxScenes \in Nat /\ NoScene \notin Scenes
  /\ Characters \subseteq Items /\ IsFiniteSet(Items) /\ Items \subseteq DOMAIN DeptOf
  /\ NoElement \notin Items /\ Blankable \subseteq Items
  /\ MaxEdits \in Nat

VARIABLES
  present,  \* scenes with a heading in the document
  marked,   \* items a span with visible text in the scene refers to
  blank,    \* items a span refers to that has no more than whitespace
  named,    \* characters with a paragraph of their own in the scene
  live,     \* items the project knows
  members,  \* of each scene: its department lists
  markup,   \* of each scene: the items found as markup
  context,  \* the scene the sidebar shows
  pending,  \* an extraction waits for a timer
  grown,    \* history: scenes where items came to be marked without an event
  edits     \* what the user did so far

lists == <<members, markup>>
spans == <<marked, blank>>
vars == <<present, spans, named, live, lists, context, pending, grown, edits>>

DepartmentList == [dept : Range(DeptOf), items : Seq(Items), size : Nat]

TypeOK ==
  /\ present \subseteq Scenes /\ grown \subseteq Scenes
  /\ marked \in [Scenes -> SUBSET Items] /\ blank \in [Scenes -> SUBSET Blankable]
  /\ named \in [Scenes -> SUBSET Characters]
  /\ live \subseteq Items
  /\ \A s \in Scenes :
       /\ members[s] \in Seq(DepartmentList)
       /\ markup[s] \in Seq(Items) /\ IsInjective(markup[s])
  /\ context \in Scenes \cup {NoScene}
  /\ pending \in BOOLEAN /\ edits \in 0 .. MaxEdits
-----------------------------------------------------------------------------
(***************************************************************************)
(* The lists of a scene.                                                   *)
(***************************************************************************)
Listed(depts) == UNION {ToSet(depts[k].items) : k \in DOMAIN depts}

\* GetDeptSequence(): 0 if there is none.
DeptSequence(depts, item) == SelectInSeq(depts, LAMBDA d : d.dept = DeptOf[item])

\* UpdateSeqSize(), after the items have changed.
Sized(list, items) == [dept |-> list.dept, items |-> items, size |-> Len(items)]

AddItem(depts, item) ==
  LET k == DeptSequence(depts, item)
  IN IF k = 0
     THEN Append(depts, [dept |-> DeptOf[item], items |-> <<item>>, size |-> 1])
     ELSE [depts EXCEPT ![k] = Sized(@, AppendElement(@.items, item))]

\* A fault: an emptied list stays, and sizes are not counted again.
RemoveItemOnly(depts, item) ==
  LET k == DeptSequence(depts, item)
  IN IF k = 0 \/ item \notin live THEN depts
     ELSE [depts EXCEPT ![k].items = RemoveElement(@, item)]

\* An item without a type cannot be removed.
RemoveItem(depts, item) ==
  LET k == DeptSequence(depts, item)
      rest == RemoveElement(depts[k].items, item)
  IN IF k = 0 \/ item \notin live THEN depts
     ELSE IF rest = <<>> THEN RemoveAt(depts, k)
     ELSE [depts EXCEPT ![k] = Sized(@, rest)]

\* Items of the project that keep a scene's markup entry.
Occurring(s) == live \cap (marked[s] \cup named[s])

(***************************************************************************)
(* ExtractBreakdownInRange(): the marked items are added in the order of   *)
(* the text, which new ones may have in any way; then the markup list is   *)
(* stripped of what occurs no more, and the items with it.  Spans of       *)
(* whitespace and those of an item without a type are ignored.             *)
(***************************************************************************)
AddFound(s, order) ==
  LET upTo[k \in 0 .. Len(order)] ==
        IF k = 0 THEN [markup |-> markup[s], members |-> members[s]]
        ELSE [markup |-> AppendElement(upTo[k - 1].markup, order[k]),
              members |-> AddItem(upTo[k - 1].members, order[k])]
  IN upTo[Len(order)]

RemoveGone(depts, gone) ==
  LET upTo[k \in 0 .. Len(gone)] ==
        IF k = 0 THEN depts ELSE RemoveItem(upTo[k - 1], gone[k])
  IN upTo[Len(gone)]

Extractions(s) ==
  LET found == live \cap marked[s]
      known == Listed(members[s]) \cap ToSet(markup[s])
  IN {LET all == AddFound(s, order)
          stripped == Strip(all.markup, Occurring(s))
      IN [markup |-> stripped.left, members |-> RemoveGone(all.members, stripped.gone)] :
      order \in SetToSeqs(found \ known)}

Extract(S) ==
  \E r \in [S -> UNION {Extractions(s) : s \in S}] :
    /\ \A s \in S : r[s] \in Extractions(s)
    /\ members' = [s \in Scenes |-> IF s \in S THEN r[s].members ELSE members[s]]
    /\ markup' = [s \in Scenes |-> IF s \in S THEN r[s].markup ELSE markup[s]]
    /\ grown' = grown \ S
-----------------------------------------------------------------------------
(***************************************************************************)
(* The sidebar.                                                            *)
(***************************************************************************)
\* init(): every scene is extracted.
Open(s) ==
  /\ context = NoScene /\ s \in present
  /\ Extract(present)
  /\ context' = s
  /\ UNCHANGED <<present, spans, named, live, pending, edits>>

\* A fault: only the scene that was shown is extracted.
ContextChangedLate(s) ==
  /\ context # NoScene /\ s \in present \ {context}
  /\ Extract({context} \cap present)
  /\ context' = s
  /\ UNCHANGED <<present, spans, named, live, pending, edits>>

\* contextChanged(): the scene shown before is extracted once more.
ContextChanged(s) ==
  /\ context # NoScene /\ s \in present \ {context}
  /\ Extract({context, s} \cap present)
  /\ context' = s
  /\ UNCHANGED <<present, spans, named, live, pending, edits>>

\* The scene that is shown when the timer runs out.
ExtractionTimer ==
  /\ pending
  /\ pending' = FALSE
  /\ Extract({context} \cap present)
  /\ UNCHANGED <<present, spans, named, live, context, edits>>
-----------------------------------------------------------------------------
(***************************************************************************)
(* What the user does, once the sidebar is there.                          *)
(***************************************************************************)
UserActs ==
  /\ context # NoScene
  /\ edits < MaxEdits /\ edits' = edits + 1

\* Spans are inserted and removed, or their only child is: marked, unmarked, typed
\* over, pasted, undone.
EditText(s, found, empty) ==
  /\ UserActs
  /\ s \in present /\ <<found, empty>> # <<marked[s], blank[s]>>
  /\ marked' = [marked EXCEPT ![s] = found]
  /\ blank' = [blank EXCEPT ![s] = empty]
  /\ pending' = TRUE
  /\ UNCHANGED <<present, named, live, lists, context, grown>>

\* Characters come and go in a span of the item that keeps a child node, of which
\* nothing is heard: it holds whitespace then, or visible text again.
TypeInSpan(s, item) ==
  /\ UserActs
  /\ s \in present
  /\ \/ /\ item \in marked[s]
        /\ \E left \in {marked[s], marked[s] \ {item}} : marked' = [marked EXCEPT ![s] = left]
        /\ blank' = [blank EXCEPT ![s] = @ \cup {item}]
        /\ UNCHANGED grown
     \/ /\ item \in blank[s]
        /\ \E left \in {blank[s], blank[s] \ {item}} : blank' = [blank EXCEPT ![s] = left]
        /\ marked' = [marked EXCEPT ![s] = @ \cup {item}]
        /\ grown' = IF item \in marked[s] THEN grown ELSE grown \cup {s}
  /\ UNCHANGED <<present, named, live, lists, context, pending>>

\* addItem() with text selected in the scenes of S, of whitespace only in those of
\* W, or with none.
AddByHand(item, S, W) ==
  /\ UserActs
  /\ item \in live /\ S \subseteq present
  /\ W \subseteq S /\ (W # {} => item \in Blankable)
  /\ members' = [members EXCEPT ![context] = AddItem(@, item)]
  /\ markup' = IF S = {} THEN markup ELSE [markup EXCEPT ![context] = AppendElement(@, item)]
  /\ marked' = [s \in Scenes |-> IF s \in S \ W THEN marked[s] \cup {item} ELSE marked[s]]
  /\ blank' = [s \in Scenes |-> IF s \in W THEN blank[s] \cup {item} ELSE blank[s]]
  /\ pending' = (pending \/ S # {})
  /\ UNCHANGED <<present, named, live, context, grown>>

\* unmarkupSpan() of the item's spans in the scene that is shown.
Unmark(item) ==
  /\ marked' = [marked EXCEPT ![context] = @ \ {item}]
  /\ blank' = [blank EXCEPT ![context] = @ \ {item}]
  /\ pending' = (pending \/ item \in marked[context] \cup blank[context])

\* A fault: the markup list keeps the item.
RemoveSelectedItemListed(item) ==
  /\ UserActs
  /\ context \in present /\ item \in Listed(members[context])
  /\ members' = [members EXCEPT ![context] = RemoveItem(@, item)]
  /\ Unmark(item)
  /\ UNCHANGED <<present, named, live, markup, context, grown>>

\* removeSelectedItem(), of the scene that is shown.
RemoveSelectedItem(item) ==
  /\ UserActs
  /\ context \in present /\ item \in Listed(members[context])
  /\ members' = [members EXCEPT ![context] = RemoveItem(@, item)]
  /\ \/ /\ Contains(markup[context], item)
        /\ markup' = [markup EXCEPT ![context] = RemoveElement(@, item)]
        /\ Unmark(item)
     \/ /\ ~Contains(markup[context], item)
        /\ UNCHANGED <<markup, spans, pending>>
  /\ UNCHANGED <<present, named, live, context, grown>>

\* The name over a dialogue is typed in scene s; when the caret leaves it,
\* the character is added to the scene t where the caret is then.
NameCharacter(item, s, t) ==
  /\ UserActs
  /\ {s, t} \subseteq present /\ item \in live \cap Characters
  /\ named' = [named EXCEPT ![s] = @ \cup {item}]
  /\ members' = [members EXCEPT ![t] = AddItem(@, item)]
  /\ UNCHANGED <<present, spans, live, markup, context, pending, grown>>

DeleteName(item, s) ==
  /\ UserActs
  /\ s \in present /\ item \in named[s]
  /\ named' = [named EXCEPT ![s] = @ \ {item}]
  /\ UNCHANGED <<present, spans, live, lists, context, pending, grown>>

\* A fault: only the scene that is shown loses the item.
RemoveFromProjectHere(item) ==
  /\ UserActs
  /\ item \in live
  /\ live' = live \ {item}
  /\ members' = [members EXCEPT ![context] = RemoveItem(@, item)]
  /\ UNCHANGED <<present, spans, named, markup, context, pending, grown>>

\* removeBreakdownItem(): spans and markup lists keep the item.
RemoveFromProject(item) ==
  /\ UserActs
  /\ item \in live
  /\ live' = live \ {item}
  /\ members' = [s \in Scenes |->
                   IF item \in Listed(members[s]) THEN RemoveItem(members[s], item)
                   ELSE members[s]]
  /\ UNCHANGED <<present, spans, named, markup, context, pending, grown>>

SceneBefore(t) == CHOOSE s \in present : s < t /\ \A r \in present : r < t => r <= s

\* A paragraph becomes a heading: the text behind it is the new scene's.
SplitScene(t, found, stay) ==
  /\ UserActs
  /\ t \in Scenes \ present /\ \E s \in present : s < t
  /\ found \cup stay = marked[SceneBefore(t)]
  /\ present' = present \cup {t}
  /\ marked' = [marked EXCEPT ![t] = found, ![SceneBefore(t)] = stay]
  /\ \E there, here \in SUBSET blank[SceneBefore(t)] :
       /\ there \cup here = blank[SceneBefore(t)]
       /\ blank' = [blank EXCEPT ![t] = there, ![SceneBefore(t)] = here]
  /\ \E names \in SUBSET named[SceneBefore(t)] :
       named' = [named EXCEPT ![t] = names, ![SceneBefore(t)] = @ \ names]
  /\ grown' = grown \cup {t}
  /\ UNCHANGED <<live, lists, context, pending>>

\* A heading is deleted: no span goes, and its text is the scene's before it.
MergeScene(t) ==
  /\ UserActs
  /\ t \in present /\ \E s \in present : s < t
  /\ present' = present \ {t}
  /\ marked' = [marked EXCEPT ![SceneBefore(t)] = @ \cup marked[t], ![t] = {}]
  /\ blank' = [blank EXCEPT ![SceneBefore(t)] = @ \cup blank[t], ![t] = {}]
  /\ named' = [named EXCEPT ![SceneBefore(t)] = @ \cup named[t], ![t] = {}]
  /\ grown' = grown \cup {SceneBefore(t)}
  /\ UNCHANGED <<live, lists, context, pending>>

\* A script with marked text is opened, its breakdown not yet extracted.
Init ==
  /\ present \in SUBSET Scenes /\ 1 \in present
  /\ marked \in [Scenes -> SUBSET Items] /\ blank \in [Scenes -> SUBSET Blankable]
  /\ \A s \in Scenes \ present : marked[s] = {} /\ blank[s] = {}
  /\ named = [s \in Scenes |-> {}]
  /\ live = Items
  /\ members = [s \in Scenes |-> <<>>] /\ markup = [s \in Scenes |-> <<>>]
  /\ context = NoScene /\ pending = FALSE /\ grown = {} /\ edits = 0

Next ==
  \/ \E s \in Scenes :
       \/ Open(s) \/ ContextChanged(s) \/ MergeScene(s)
       \/ \E found \in SUBSET Items :
            \/ \E empty \in SUBSET Blankable : EditText(s, found, empty)
            \/ \E stay \in SUBSET Items : SplitScene(s, found, stay)
       \/ \E item \in Blankable : TypeInSpan(s, item)
       \/ \E item \in Items :
            \/ DeleteName(item, s)
            \/ \E t \in Scenes : NameCharacter(item, s, t)
  \/ \E item \in Items :
       \/ RemoveSelectedItem(item) \/ RemoveFromProject(item)
       \/ \E S, W \in SUBSET Scenes : AddByHand(item, S, W)
  \/ ExtractionTimer

Spec == Init /\ [][Next]_vars
-----------------------------------------------------------------------------
(***************************************************************************)
(* Properties.                                                             *)
(***************************************************************************)
(***************************************************************************)
(* The department lists of a scene are those the breakdown reports print:  *)
(* one for each department, none empty, each with its own items once and   *)
(* their number, whichever of the two implementations (scriptscene.js,     *)
(* nsScriptScene.cpp) changed them last.                                   *)
(***************************************************************************)
ListsWellFormed ==
  \A s \in Scenes :
    /\ \A j, k \in DOMAIN members[s] : members[s][j].dept = members[s][k].dept => j = k
    /\ \A k \in DOMAIN members[s] :
         LET d == members[s][k]
         IN /\ d.items # <<>> /\ IsInjective(d.items)
            /\ d.size = Len(d.items)
            /\ \A i \in ToSet(d.items) : DeptOf[i] = d.dept

(***************************************************************************)
(* What the sidebar shows of a scene has every item that is marked in its  *)
(* text, once no extraction waits, although the timer extracts the scene   *)
(* shown when it runs out and not the one that was edited.  Not so from    *)
(* when the scene takes in text with a heading that went or came back, or  *)
(* an item is marked again by typing in a span that held whitespace, until *)
(* the scene's next extraction: the sidebar hears nothing of either.       *)
(***************************************************************************)
MarkedAreListed ==
  ~pending /\ context \in present \ grown =>
    live \cap marked[context] \subseteq Listed(members[context])

(***************************************************************************)
(* What extraction may take away again is listed: an item of the project   *)
(* never leaves a scene and stays in its markup, where it would keep a     *)
(* later extraction from adding it.                                        *)
(***************************************************************************)
MarkupIsListed ==
  \A s \in Scenes : live \cap ToSet(markup[s]) \subseteq Listed(members[s])

(***************************************************************************)
(* An item removed from the project is in no scene's lists and does not    *)
(* come back, although spans of the text and markup lists still refer to   *)
(* it (removeBreakdownItem, ExtractBreakdownInRange).                      *)
(***************************************************************************)
RemovedStaysRemoved == \A s \in Scenes : Listed(members[s]) \subseteq live

\* Items that were found as markup and occur no more.
Stale(s) == ToSet(markup[s]) \ Occurring(s)

Extracted == present \cap IF context' # context THEN {context, context'} ELSE {context}

Extracting == (pending /\ ~pending') \/ (context # NoScene /\ context' # context)

(***************************************************************************)
(* Each extraction of a scene strips at least half of the items that occur *)
(* in it no more, although the enumerator passes over elements: a scene    *)
(* that is not edited is rid of them after a few extractions               *)
(* (ExtractBreakdownInRange, nsContainerEnumerator.cpp).                   *)
(***************************************************************************)
StripsHalf ==
  [][Extracting => \A s \in Extracted : 2 * Cardinality(Stale(s)') <= Cardinality(Stale(s))]_vars
===============================================================================
