----------------------------- MODULE SceneTracker -----------------------------
(***************************************************************************)
(* The scene headings of a script and the list of scenes the rest of the   *)
(* project sees (nsSceneTracker.cpp, driven by editors/scripteditor.js and *)
(* editors/script.xml).  The headings are paragraphs of the edited         *)
(* document; the tracker listens to its mutation events, gives headings an *)
(* id and a number, and keeps a scene per id in the RDF: its title, its    *)
(* number and its place in the list.  Two of its reactions wait for a      *)
(* timer, and its user can tell it not to listen.                          *)
(*                                                                         *)
(* A heading is its id, its text and its number.  Observers and the rest   *)
(* of a scene's description are left out.                                  *)
(***************************************************************************)
EXTENDS SceneNumbers, Functions

CONSTANTS
  Ids,         \* what GenerateID() returns, and ids of other projects (as
               \* numbers: the model takes the least that is free)
  Texts,       \* what a heading can say
  NoId,
  NoHeading,
  MaxScenes,   \* bound: headings in the script
  MaxEdits     \* bound: what the user does after opening the script

ASSUME TrackerAssumption ==
  /\ NoId \notin Ids /\ Texts # {}
  /\ 1 .. MaxScenes \subseteq Ids /\ Ids \subseteq Nat
  /\ MaxScenes \in Nat /\ MaxEdits \in Nat

VARIABLES
  script,       \* the headings of the document, in its order
  clip,         \* a heading that can come back: cut, copied, no heading now
  scenesLocked, \* CX.scenesLocked of the document
  revised,      \* revisionNumber > 0
  scenes,       \* the RDF resource of each id that has one
  list,         \* mScenes, the sequence of the scenes of the script
  headerTimer,  \* mSceneID: the heading whose title waits for the timer
  removeTimer,  \* mTimerFullUpdate: an update waits for the timer
  pasteTimer,   \* the update that the paste hook has put off
  caretIn,      \* the caret is in a heading that changed without an event
  suppressed,   \* mSuppressEvents
  importing,    \* the import of a text script
  missed,       \* history: an insertion the tracker gave up on
  edits         \* what the user did so far

documentVars == <<clip, scenesLocked, revised>>
timers == <<headerTimer, removeTimer, pasteTimer>>
modes == <<suppressed, importing>>
vars == <<script, documentVars, scenes, list, timers, caretIn, modes, missed, edits>>

Heading == [id : Ids \cup {NoId}, text : Texts, num : Seq(Nat), locked : BOOLEAN]
Scene == [title : Texts, ord : Seq(Nat)]

TypeOK ==
  /\ script \in Seq(Heading) /\ Len(script) <= MaxScenes
  /\ clip \in Heading \cup {NoHeading}
  /\ DOMAIN scenes \subseteq Ids /\ Range(scenes) \subseteq Scene
  /\ list \in Seq(Ids)
  /\ headerTimer \in Ids \cup {NoId}
  /\ importing \in {"no", "dialog", "ending"}
  /\ {scenesLocked, revised, removeTimer, pasteTimer, caretIn, suppressed,
      missed} \subseteq BOOLEAN
  /\ edits \in 0 .. MaxEdits
  /\ \A i \in DOMAIN script : script[i].num = NoNumber \/ IsNumber(script[i].num)
-----------------------------------------------------------------------------
(***************************************************************************)
(* Numbers.  AssignDefaultSceneNumber: between the nearest numbered        *)
(* heading before and, as unlocked scenes may be renumbered, the nearest   *)
(* locked one after.                                                       *)
(***************************************************************************)
PriorNumber(doc, i) ==
  LET p == SelectLastInSubSeq(doc, 1, i - 1, LAMBDA h : h.num # NoNumber)
  IN IF p = 0 THEN NoNumber ELSE doc[p].num

\* A fault: unlocked scenes count as well, so that nothing is renumbered.
AssignedNumberKeepingAll(doc, i, locked) ==
  LET next == SelectInSubSeq(doc, i + 1, Len(doc), LAMBDA h : h.num # NoNumber)
  IN NumberBetweenNumbers(PriorNumber(doc, i), IF next = 0 THEN NoNumber ELSE doc[next].num)

\* A fault: the locked scenes after the heading are not looked at.
AssignedNumberIgnoringLocks(doc, i, locked) ==
  NumberBetweenNumbers(PriorNumber(doc, i), NoNumber)

AssignedNumber(doc, i, locked) ==
  LET next == SelectInSubSeq(doc, i + 1, Len(doc),
                LAMBDA h : h.num # NoNumber /\ locked /\ h.locked)
  IN NumberBetweenNumbers(PriorNumber(doc, i), IF next = 0 THEN NoNumber ELSE doc[next].num)

\* Numbers heading i, and those after it while the number could not be
\* found without renumbering them.
Renumber(doc, i, locked) ==
  LET Assign(d, j) == LET n == AssignedNumber(d, j, locked)
                      IN [doc |-> [d EXCEPT ![j].num = n.number], more |-> n.propagate]
      upTo[j \in i .. Len(doc)] ==
        IF j = i THEN Assign(doc, i)
        ELSE LET r == upTo[j - 1] IN IF r.more THEN Assign(r.doc, j) ELSE r
  IN upTo[Len(doc)].doc

\* A fault: a number is not compared with the prior one.
NeedsNumberIgnoringPrior(doc, i, newId) ==
  newId \/ doc[i].num = NoNumber \/ (i = 1 /\ doc[i].num # <<1>>)

\* Update() renumbers a heading with an unusable id or number, one that does
\* not follow the prior one, and a first one that is not 1.
NeedsNumber(doc, i, newId) ==
  \/ newId
  \/ doc[i].num = NoNumber
  \/ i = 1 /\ doc[i].num # <<1>>
  \/ /\ i > 1
     /\ doc[i - 1].num # NoNumber
     /\ ~NumbersAreSeamless(doc[i - 1].num, doc[i].num)

Numbered(doc, new, locked) ==
  LET upTo[i \in 0 .. Len(doc)] ==
        IF i = 0 THEN doc
        ELSE LET d == upTo[i - 1]
             IN IF NeedsNumber(d, i, i \in new) THEN Renumber(d, i, locked) ELSE d
  IN upTo[Len(doc)]

(***************************************************************************)
(* Update().  The headings without an id of their own get a new one, given *)
(* by f; the numbers are put right; every scene is described again and the *)
(* list becomes that of the headings, element by element, cut at its end.  *)
(***************************************************************************)
\* A fault: the ids seen before are not remembered.
NeedsIdUnseen(doc) == {i \in DOMAIN doc : doc[i].id = NoId}

NeedsId(doc) ==
  {i \in DOMAIN doc : doc[i].id = NoId \/ \E j \in 1 .. i - 1 : doc[j].id = doc[i].id}

IdsOf(doc) == {doc[i].id : i \in DOMAIN doc}

FreeIds(doc) ==
  Ids \ (IdsOf(doc) \cup DOMAIN scenes
          \cup {headerTimer, IF clip = NoHeading THEN NoId ELSE clip.id})

GeneratedIds(doc) ==
  {f \in Injection(NeedsId(doc), FreeIds(doc)) :
     \A i \in NeedsId(doc), x \in FreeIds(doc) :
       x < f[i] => \E j \in NeedsId(doc) : j < i /\ f[j] = x}

UpdatedScript(doc, f, locked) ==
  LET number == Numbered(doc, DOMAIN f, locked)
  IN [i \in DOMAIN doc |->
        [id |-> IF i \in DOMAIN f THEN f[i] ELSE doc[i].id,
         text |-> doc[i].text, num |-> number[i].num, locked |-> doc[i].locked]]

\* UpdateSceneNumberLiterals()
Describe(heading) == [title |-> heading.text, ord |-> heading.num]

FirstWithId(doc, id) ==
  doc[CHOOSE i \in DOMAIN doc : doc[i].id = id /\ \A j \in 1 .. i - 1 : doc[j].id # id]

\* A scene that was in the script before, or can come back, stays as it was
\* (in the code every scene stays).
DescribedScenes(doc) ==
  [x \in IdsOf(doc) \cup {y \in DOMAIN scenes :
                           y \in IdsOf(script) \/ (clip # NoHeading /\ clip.id = y)} |->
     IF x \in IdsOf(doc) THEN Describe(FirstWithId(doc, x)) ELSE scenes[x]]

ListedScenes(doc) == [i \in DOMAIN doc |-> doc[i].id]

\* Update() of a document, which becomes the script.
UpdateOf(doc, locked) ==
  \E f \in GeneratedIds(doc) :
    /\ script' = UpdatedScript(doc, f, locked)
    /\ scenes' = DescribedScenes(script')
    /\ list' = ListedScenes(script')
    /\ missed' = FALSE

Update == UpdateOf(script, scenesLocked)

\* SceneHeaderChanged(): the title follows the heading of that id.
Titled(doc, id) ==
  IF id \in IdsOf(doc) \cap DOMAIN scenes
  THEN [scenes EXCEPT ![id].title = FirstWithId(doc, id).text]
  ELSE scenes

Unheard == UNCHANGED <<scenes, list, timers, missed>>
-----------------------------------------------------------------------------
(***************************************************************************)
(* What the user does.  A dialog keeps him from the script.                *)
(***************************************************************************)
UserActs ==
  /\ importing # "dialog"
  /\ edits < MaxEdits /\ edits' = edits + 1

SomeText == CHOOSE t \in Texts : TRUE

Blank(id) == [id |-> id, text |-> SomeText, num |-> NoNumber, locked |-> FALSE]

\* A fault: the other heading's timer is cancelled and its title forgotten.
TypeForgettingOther(i, t) ==
  LET id == script[i].id
  IN /\ UserActs
     /\ script[i].text # t /\ id # NoId /\ ~suppressed
     /\ script' = [script EXCEPT ![i].text = t]
     /\ headerTimer' = id
     /\ UNCHANGED <<documentVars, scenes, list, removeTimer, pasteTimer, caretIn, modes, missed>>

\* HandleCDataEvent(): the title of another heading that was waiting is
\* brought up to date, and the timer started for this one.
Type(i, t) ==
  LET doc == [script EXCEPT ![i].text = t]
      id == script[i].id
  IN /\ UserActs
     /\ script[i].text # t
     /\ \/ /\ suppressed
           /\ script' = doc
           /\ Unheard
        \/ /\ ~suppressed /\ id # NoId
           /\ script' = doc
           /\ scenes' = IF headerTimer = id THEN scenes ELSE Titled(doc, headerTimer)
           /\ headerTimer' = id
           /\ UNCHANGED <<list, removeTimer, pasteTimer, missed>>
        \/ /\ ~suppressed /\ id = NoId
           /\ UpdateOf(doc, scenesLocked)
           /\ headerTimer' = NoId
           /\ UNCHANGED <<removeTimer, pasteTimer>>
     /\ UNCHANGED <<documentVars, caretIn, modes>>

\* The loop of HandleInsertedEvent(): numbers the heading that was inserted
\* at i, and those after it while changes propagate; it gives up at one that
\* has no scene yet, and does not update.
InsertedScript(doc, i, locked) ==
  LET Known(j) == doc[j].id \in DOMAIN scenes
      Assign(r, j) ==
        LET n == AssignedNumber(r.doc, j, locked)
        IN [doc |-> [r.doc EXCEPT ![j].num = n.number],
            scenes |-> IF Known(j) THEN [r.scenes EXCEPT ![doc[j].id].ord = n.number]
                       ELSE r.scenes,
            more |-> Known(j) /\ n.propagate,
            failed |-> ~Known(j)]
      upTo[j \in i .. Len(doc)] ==
        IF j = i THEN Assign([doc |-> doc, scenes |-> scenes], i)
        ELSE LET r == upTo[j - 1] IN IF r.more THEN Assign(r, j) ELSE r
  IN upTo[Len(doc)]

\* Nothing but the numbers changes.
WithNumbersOf(doc, numbered) ==
  [i \in DOMAIN doc |-> [id |-> doc[i].id, text |-> doc[i].text,
                         num |-> numbered[i].num, locked |-> doc[i].locked]]

HandleInserted(doc, i) ==
  LET r == InsertedScript(doc, i, scenesLocked)
      renumbered == WithNumbersOf(doc, r.doc)
  IN \/ /\ suppressed
        /\ script' = doc
        /\ UNCHANGED <<scenes, list, missed>>
     \/ /\ ~suppressed /\ ~r.failed
        /\ UpdateOf(renumbered, scenesLocked)
     \/ /\ ~suppressed /\ r.failed
        /\ script' = renumbered /\ scenes' = r.scenes
        /\ missed' = TRUE
        /\ UNCHANGED list

\* A deletion is undone, or a heading split: the paragraph comes back as it
\* was, with its id.
Restore(i) ==
  /\ UserActs
  /\ clip # NoHeading /\ Len(script) < MaxScenes
  /\ HandleInserted(InsertAt(script, i, clip), i)
  /\ UNCHANGED <<documentVars, timers, caretIn, modes>>

\* Pasting also puts off an update, if a heading of the script has an id.
Paste(i, heading) ==
  /\ UserActs
  /\ Len(script) < MaxScenes
  /\ HandleInserted(InsertAt(script, i, heading), i)
  /\ pasteTimer' = (pasteTimer \/ IdsOf(script) \ {NoId} # {})
  /\ UNCHANGED <<documentVars, headerTimer, removeTimer, caretIn, modes>>

PasteOwn(i) == clip # NoHeading /\ Paste(i, clip)

\* From another project: the id has no scene here.
PasteForeign(i) ==
  \E id \in FreeIds(script), locked \in BOOLEAN :
    /\ \A x \in FreeIds(script) : id <= x
    /\ Paste(i, [Blank(id) EXCEPT !.locked = locked])

\* The paragraph at the caret is made a heading (again); no node is inserted.
MakeHeading(i, heading) ==
  /\ UserActs
  /\ heading # NoHeading /\ Len(script) < MaxScenes
  /\ script' = InsertAt(script, i, heading)
  /\ caretIn' = TRUE
  /\ Unheard
  /\ UNCHANGED <<documentVars, modes>>

\* Text that comes as a node of its own, the first of an empty heading or
\* pasted, modifies no character data: the tracker hears nothing.
FillHeading(i, t) ==
  /\ UserActs
  /\ script[i].text # t
  /\ script' = [script EXCEPT ![i].text = t]
  /\ caretIn' = TRUE
  /\ Unheard
  /\ UNCHANGED <<documentVars, modes>>

\* omitScene() replaces the text of the heading, then tells the tracker.
OmitScene(i, t) ==
  /\ UserActs
  /\ script[i].id # NoId /\ script[i].text # t
  /\ script' = [script EXCEPT ![i].text = t]
  /\ scenes' = Titled(script', script[i].id)
  /\ UNCHANGED <<documentVars, list, timers, caretIn, modes, missed>>

\* The formatchanged event when the caret leaves a heading.
LeaveHeading ==
  /\ UserActs /\ script # <<>>
  /\ caretIn' = FALSE
  /\ Update
  /\ UNCHANGED <<documentVars, timers, modes>>

\* The heading becomes another paragraph, which keeps the id.
UnmakeHeading(i) ==
  /\ UserActs
  /\ clip' = script[i]
  /\ caretIn' = FALSE
  /\ UpdateOf(RemoveAt(script, i), scenesLocked)
  /\ UNCHANGED <<scenesLocked, revised, timers, modes>>

Copy(i) ==
  /\ UserActs
  /\ clip' = script[i]
  /\ UNCHANGED <<script, scenesLocked, revised, caretIn, modes>>
  /\ Unheard

\* HandleRemovedEvent(): the node is still there, so the update waits.
Delete(i) ==
  /\ UserActs
  /\ script' = RemoveAt(script, i)
  /\ clip' = script[i]
  /\ removeTimer' = (removeTimer \/ ~suppressed)
  /\ UNCHANGED <<scenesLocked, revised, scenes, list, headerTimer, pasteTimer,
                 caretIn, modes, missed>>

\* Commands of the outline, which shows the list: the document changes while
\* events are suppressed, then comes an update.
InOutline(i) ==
  /\ script[i].id \in ToSet(list)
  /\ \A j \in 1 .. i - 1 : script[j].id # script[i].id

OutlineEdit(doc) ==
  /\ UserActs
  /\ suppressed' = FALSE
  /\ UpdateOf(doc, scenesLocked)
  /\ UNCHANGED <<documentVars, timers, caretIn, importing>>

MoveScene(i, j) ==
  /\ InOutline(i) /\ i # j
  /\ OutlineEdit(InsertAt(RemoveAt(script, i), j, script[i]))

DeleteScene(i) == InOutline(i) /\ OutlineEdit(RemoveAt(script, i))

\* A revision is created, locking the numbers or not; formatchanged is sent.
CreateRevision(lock) ==
  /\ UserActs
  /\ ~revised \/ (lock /\ \E i \in DOMAIN script : ~script[i].locked)
  /\ revised' = TRUE
  /\ scenesLocked' = (scenesLocked \/ lock)
  /\ script' = IF lock THEN [i \in DOMAIN script |-> [script[i] EXCEPT !.locked = TRUE]]
               ELSE script
  /\ UNCHANGED <<clip, caretIn, modes>>
  /\ Unheard

\* ResetSceneNumbers(): 1, 2, 3, ... and no locks.
ResetScript(doc) ==
  [i \in DOMAIN doc |-> [doc[i] EXCEPT !.num = <<i>>, !.locked = FALSE]]

ResetLocking ==
  /\ UserActs /\ revised
  /\ revised' = FALSE /\ scenesLocked' = FALSE
  /\ UpdateOf(ResetScript(script), FALSE)
  /\ UNCHANGED <<clip, timers, caretIn, modes>>

\* The script is closed and opened again: Shutdown(), then Init().  A title
\* that still waits is described by the update.
Reopen ==
  /\ UserActs /\ importing = "no"
  /\ UpdateOf(IF revised THEN script ELSE ResetScript(script), scenesLocked)
  /\ headerTimer' = NoId /\ removeTimer' = FALSE /\ pasteTimer' = FALSE
  /\ suppressed' = FALSE /\ caretIn' = FALSE
  /\ UNCHANGED <<documentVars, importing>>
-----------------------------------------------------------------------------
(***************************************************************************)
(* The import of a text script: a modal dialog adds the scenes one by one  *)
(* while events are suppressed, closes, and ends the import 200 ms later.  *)
(* Its Cancel button closes it with the timeouts that would have gone on.  *)
(***************************************************************************)
BeginImport ==
  /\ UserActs /\ importing = "no"
  /\ importing' = "dialog" /\ suppressed' = TRUE
  /\ UNCHANGED <<script, documentVars, caretIn>>
  /\ Unheard

ImportScene ==
  /\ importing = "dialog" /\ Len(script) < MaxScenes
  /\ script' = Append(script, Blank(NoId))
  /\ UNCHANGED <<edits, documentVars, caretIn, modes>>
  /\ Unheard

CloseImport ==
  /\ importing = "dialog"
  /\ importing' = "ending"
  /\ UNCHANGED <<edits, script, documentVars, caretIn, suppressed>>
  /\ Unheard

CancelImport ==
  /\ importing = "dialog"
  /\ edits < MaxEdits /\ edits' = edits + 1
  /\ importing' = "no"
  /\ UNCHANGED <<script, documentVars, caretIn, suppressed>>
  /\ Unheard

\* A fault: the import ends without an update.
EndImportSilently ==
  /\ importing = "ending"
  /\ importing' = "no" /\ suppressed' = FALSE
  /\ UNCHANGED <<edits, script, documentVars, caretIn>>
  /\ Unheard

EndImport ==
  /\ importing = "ending"
  /\ importing' = "no" /\ suppressed' = FALSE
  /\ Update
  /\ UNCHANGED <<edits, documentVars, timers, caretIn>>
-----------------------------------------------------------------------------
(***************************************************************************)
(* The timers.                                                             *)
(***************************************************************************)
HeaderTimer ==
  /\ headerTimer # NoId
  /\ scenes' = Titled(script, headerTimer)
  /\ headerTimer' = NoId
  /\ UNCHANGED <<edits, script, documentVars, list, removeTimer, pasteTimer, caretIn,
                 modes, missed>>

RemoveTimer ==
  /\ removeTimer
  /\ removeTimer' = FALSE
  /\ Update
  /\ UNCHANGED <<edits, documentVars, headerTimer, pasteTimer, caretIn, modes>>

PasteTimer ==
  /\ pasteTimer
  /\ pasteTimer' = FALSE
  /\ Update
  /\ UNCHANGED <<edits, documentVars, headerTimer, removeTimer, caretIn, modes>>

\* A saved script is opened, with revisions and locked numbers or without.
Init ==
  /\ revised \in BOOLEAN /\ scenesLocked \in {FALSE, revised}
  /\ \E k \in 0 .. MaxScenes :
       script = [i \in 1 .. k |-> [id |-> i, text |-> Blank(i).text, num |-> <<i>>,
                                  locked |-> scenesLocked]]
  /\ clip = NoHeading
  /\ scenes = [x \in DOMAIN script |-> Describe(script[x])]
  /\ list = ListedScenes(script)
  /\ headerTimer = NoId /\ removeTimer = FALSE /\ pasteTimer = FALSE
  /\ caretIn = FALSE /\ suppressed = FALSE /\ importing = "no"
  /\ missed = FALSE /\ edits = 0

\* Timers run out; a dialog that is left alone goes on.
System ==
  \/ HeaderTimer \/ RemoveTimer \/ PasteTimer
  \/ ImportScene \/ CloseImport \/ EndImport

Next ==
  \/ \E i \in DOMAIN script :
       \/ \E t \in Texts : Type(i, t) \/ FillHeading(i, t) \/ OmitScene(i, t)
       \/ UnmakeHeading(i) \/ Copy(i) \/ Delete(i) \/ DeleteScene(i)
       \/ \E j \in DOMAIN script : MoveScene(i, j)
  \/ \E i \in 1 .. Len(script) + 1 :
       \/ Restore(i) \/ PasteOwn(i) \/ PasteForeign(i)
       \/ MakeHeading(i, Blank(NoId)) \/ MakeHeading(i, clip)
  \/ \E lock \in BOOLEAN : CreateRevision(lock)
  \/ LeaveHeading \/ ResetLocking \/ Reopen
  \/ BeginImport \/ CancelImport
  \/ System

Spec == Init /\ [][Next]_vars /\ WF_vars(System)
-----------------------------------------------------------------------------
(***************************************************************************)
(* Properties.                                                             *)
(***************************************************************************)
\* Nothing is put off and nobody has told the tracker not to listen.
Settled ==
  /\ headerTimer = NoId /\ ~removeTimer /\ ~pasteTimer
  /\ ~caretIn /\ ~suppressed /\ importing = "no"
  /\ ~missed

\* The list shows the headings of the script, each once, in their order and
\* with their text and number.
InStep ==
  /\ list = ListedScenes(script)
  /\ IsInjective(list)
  /\ \A i \in DOMAIN script : scenes[script[i].id] = Describe(script[i])

(***************************************************************************)
(* What the rest of the project reads of the scenes (outline, breakdown,   *)
(* schedule) is the script's, in every order of edits, pastes, undone      *)
(* deletions, imports and timers, once nothing is pending                  *)
(* (nsSceneTracker::Update and the handlers of its events).                *)
(***************************************************************************)
ListFollowsScript == Settled => InStep

(***************************************************************************)
(* The numbers of a settled script rise, so that no two scenes share one   *)
(* and sorting by sortord gives the script's order, whatever was locked,   *)
(* inserted, moved or deleted before (AssignDefaultSceneNumber,            *)
(* UpdateSceneNumberLiterals).                                             *)
(***************************************************************************)
NumbersRise ==
  Settled => \A i, j \in DOMAIN script : i < j => Before(script[i].num, script[j].num)

(***************************************************************************)
(* While numbers are not locked, the headings with a number of one level   *)
(* are 1, 2, 3, ... and the others stay below them: a heading that comes   *)
(* back with a number of locked times (ResetSceneNumbers does not see a    *)
(* paragraph that is no heading then) makes no later scene skip or repeat  *)
(* a number (Update, ResetSceneNumbers).                                   *)
(***************************************************************************)
UnlockedCountUp ==
  Settled /\ ~scenesLocked =>
    \A i \in DOMAIN script :
      script[i].num[1] = Cardinality({j \in 1 .. i : Len(script[j].num) = 1})

(***************************************************************************)
(* A number of several levels is for locked scripts: while numbers are not *)
(* locked a heading gets none, it can only bring one along (Update,        *)
(* HandleInsertedEvent, AssignDefaultSceneNumber).                         *)
(***************************************************************************)
LevelsAreForLocked ==
  [][~scenesLocked' =>
       \A i \in DOMAIN script' :
         Len(script'[i].num) > 1 =>
           \/ \E j \in DOMAIN script : script[j].num = script'[i].num
           \/ clip # NoHeading /\ clip.num = script'[i].num]_vars

(***************************************************************************)
(* What locking is for: a heading put into a locked script, after its      *)
(* first one and where a level is left, changes no locked number, if the   *)
(* numbers were those of a script that begins with 1 and misses none, and  *)
(* it is no copy of a heading there, whose id the first of the two keeps   *)
(* (NumberBetweenNumbers, HandleInsertedEvent, Update).                    *)
(***************************************************************************)
Sound(doc) ==
  /\ doc # <<>> /\ doc[1].num = <<1>>
  /\ \A i \in 2 .. Len(doc) : NumbersAreSeamless(doc[i - 1].num, doc[i].num)

InsertionAfter(k) ==
  /\ Settled /\ scenesLocked
  /\ \A i \in DOMAIN script : script[i].locked /\ Len(script[i].num) < MaxDepth
  /\ Sound(script)
  /\ clip # NoHeading => clip.id \notin IdsOf(script)
  /\ Len(script') = Len(script) + 1
  /\ \A i \in DOMAIN script : script'[IF i <= k THEN i ELSE i + 1].id = script[i].id

LockedNumbersStay ==
  [][\A k \in DOMAIN script :
       InsertionAfter(k) =>
         \A i \in DOMAIN script :
           script'[IF i <= k THEN i ELSE i + 1].num = script[i].num]_vars

(***************************************************************************)
(* When the user stops, the list comes in step with the script by itself:  *)
(* the timers, the put-off update and the end of an import see to it.  Not *)
(* when the caret stays in the heading, after an insertion was missed, or  *)
(* when an import was cancelled, which leaves the tracker deaf.            *)
(***************************************************************************)
Listening == ~caretIn /\ ~missed /\ (suppressed => importing # "no")

CatchesUp == []<>(Listening => InStep)

(***************************************************************************)
(* nsSceneTracker.cpp:474-486: a scene is renumbered when its id is        *)
(* invalid, it has no number or one that cannot be parsed, or one that is  *)
(* not seamless with the prior one; not otherwise, on an update that finds *)
(* the document as it was.                                                 *)
(***************************************************************************)
SameHeadings == ListedScenes(script') = ListedScenes(script) /\ Settled /\ scenesLocked'

RenumbersOnCondition ==
  [][SameHeadings =>
       \A i \in DOMAIN script :
         script'[i].num # script[i].num =>
           \/ script[i].num = NoNumber
           \/ i > 1 /\ ~NumbersAreSeamless(script'[i - 1].num, script[i].num)]_vars
===============================================================================
