# Celtx: a TLA+ verification of saving, sketches, scenes and breakdowns

Celtx is a pre-production suite (script editor, storyboard sketches, schedules,
catalogues) written in JavaScript and C++ on the Mozilla 1.9.1 platform. The
repository contains that platform, some eight thousand source files; Celtx
itself is `src/celtx/`. One project is one window: a `Project` object over an
RDF model, a temporary project folder with one file per document, and editors in
frames that write their document's file when told to save.

Four parts of the program are modelled, chosen because a mistake in them costs
the user work and because a test hardly reaches what can go wrong:

- **saving**: `save.js` chains steps with `setTimeout(0)` and network events, any
  number of user actions and timers get in between two steps, and one global,
  `gPendingSaveRequest`, is all that keeps them apart;
- the **undo machinery of the sketch editor**, whose transactions remember
  siblings that other transactions move;
- the **scene tracker**, which gives the headings of a script their ids and
  numbers and keeps the list of scenes the rest of the project reads, from
  mutation events, two timers and a paste hook;
- the **scene breakdown**, where two implementations, one in JavaScript and one in
  C++, change the same RDF lists.

It states what these parts promise, checks it with TLC, and proves the
properties of saving (to disk and to the server), of what counts as a modified
drawing, of the list of scenes and of the numbers between two scenes with TLAPS.

Paths below are relative to `src/celtx/base/resources/content/` unless they
begin with `src/`.

## 1. Inventory

JavaScript runs to completion on one thread. Concurrency is the interleaving of
event handlers: user commands, timers, network events, and nested event loops
(a native file picker). There is no shared memory between threads to model in
the parts chosen here.

| component | state | operations | hard behaviour | what makes it correct |
|---|---|---|---|---|
| Saving to disk: `save.js` 90-594, 916-977, 1496-1697 | `gPendingSaveRequest`; `gProject.isModified`, `.isTemplate`, `.saveLocation`; the project folder; the closures of each archive | `cmdSaveProject`, Save As, Save As Template, `autosave`, `archiveNextEntry`, `abort`, callbacks | one archive entry per event-loop turn, edits and commands between; picker with timers behind it; every step may throw; abort between two turns | at most one archive runs, the caller is told one outcome, what does not count as modified is in the file, no failure destroys a whole archive |
| Saving to the server: `save.js` 597-846, 983-1441 | the same, plus `gProject.wsref`, `.standalone`; the closures and requests of each save; the server's copy | the chain checkVersion .. finished, upload of each file, one-request script save, cancel, login, dialogs | gaps with nothing pending, overlapping chains, lost and refused requests, two channels per upload, handlers that throw | what does not count as modified is on the server, every save ends and tells so once |
| Project window: `celtx.js` | editors' `modified`, `window.closeContinuation`, the window | edits, `onTabWillClose`, `tryToCloseProject` and its callback, `loadProject`, `loadScript` | closing depends on a save that goes on after the command; another window may refuse a quit | the window closes without a question only when nothing is lost |
| Sketch editor: `editors/txmgr.js`, `shottxs.js`, `shoteditor.js` | undo stack and position, the SVG children of the image and of groups, `_lastSaveTx`, the file | draw, paste, lower/raise, delete, group, ungroup, undo, redo, save | transactions remember siblings that other transactions move; the stack is cut; identity of the top decides `modified` | undo and redo walk the exact drawings; an unmodified drawing is the saved one |
| Selections: `editors/shotselection.js` | selected objects, handles | hit testing, resize, rotate, group | stale selection after undo and save | a selection never names objects that are gone |
| Platform file streams and zip writer (changed by Celtx): `src/netwerk/base/src/nsFileStreams.cpp`, `src/modules/libjar/zipwriter/` | target file, temporary file | open, add entry, finish (with a retry loop), close | failures between the steps | the target is whole before and after |
| Platform XMLHttpRequest and web browser persist | channels, ready state | send, abort, saveURI, cancelSave | order of events | events arrive in the order save.js expects |
| Several windows: `app.js`, toolkit `globalOverlay.js`, `nsTryToClose.js` | the windows | quit asks every window in turn | asynchronous refusals | all or none of the windows close |
| Server listings: `server.js` | `Deferred`s, enumerators | fetch, callbacks | callbacks after the fact, missing errbacks | every waiter is woken |
| Login: `src/celtx/components/nsCeltxService.js` | session, credentials | login, retry, logout | listeners, retries | every listener is told |
| Scene numbers: `src/celtx/components/src/nsSceneNumberService.cpp` | none (numbers of up to eight levels) | the number between two others, "seamless", parsing | no level left; a number missing on either side | numbers rise without gaps; there is room while a level is left |
| Scene tracker: `src/celtx/components/src/nsSceneTracker.cpp`, driven by `editors/scripteditor.js`, `editors/script.xml`, `importdialog.js` | the headings of the document (id, text, number, lock), the scenes of the RDF, `mScenes`, `mSceneID`, two timers, `mSuppressEvents` | typing, pasting, deleting, undoing, moving, omitting, revisions and locks, reset, import, opening | an update that waits for a timer, events suppressed, insertions it gives up on, copies with a used id | once nothing is pending the list is the script's; numbers rise; locked ones stay |
| Scene breakdown: `src/celtx/components/src/nsScriptScene.cpp`, `editors/breakdown.js`, `editors/scriptscene.js` | department lists and markup list of each scene, the scene that is shown, a timer | extraction, adding and removing by hand, character names, removal from the project | the timer extracts another scene than the edited one, lists changed by two implementations, a loop that removes what it enumerates | the lists are well formed, have what the text marks, and nothing that was removed |
| RDF containers: `src/rdf/base/src/nsRDFContainer.cpp`, `nsContainerEnumerator.cpp` | sequences of an in-memory data source | append, remove with renumbering, enumerate | removal during enumeration | elements behind a removed one move up |
| What is shown of a scene number: `src/celtx/components/src/NumberingScheme.cpp` | - | letters of a number | boundaries at 26 and 702 | different numbers look different |
| Act and shot trackers | lists over the script's DOM | as the scene tracker, without numbers | as the scene tracker | the list mirrors the DOM |
| Script pagination | pages | layout | layout engine | - |
| Other editors, RDF model, catalogues, media, views | DOM, RDF graphs, files | sequential operations | none that a model would reach better than a test | - |
| Dead code: `sync.js`, `saveProjectToWorkspace`, `doSaveProject` | - | nothing calls them | - | - |

How they interact: editors report `modified` to the window; the window's
commands and closing call `save.js`; `save.js` asks every frame to save, flushes
the RDF model to the project folder, reads that folder entry by entry, and tells
the caller's callback; the callback of `tryToCloseProject` closes the window or
quits. The script editor hands its document to the scene tracker, whose scenes
are the resources the breakdown sidebar, the outline and the schedule refer to;
the sidebar, the names over dialogues and the project's item lists all write the
department lists of a scene. `PROJECT.json` lists the components with what is and
is not modelled, and the hazards at their lines.

## 2. Modules

    ProjectWindow          state and steps every way of saving shares
      FileSave             saving to disk              implements SaveRequest
        FileSaveProofs     theorems about FileSave
        MCFileSave         instances for TLC
      ServerSave           saving to the Studio server
        ServerSaveProofs   theorems about ServerSave
        MCServerSave       instances for TLC
    SaveRequest            what a save promises its caller (abstract)
    ShotDrawing            the drawing and the transactions that move its nodes
    TransactionManager     txmgr.js
      ShotEditor           both, with the commands, undo, redo and save
        ShotEditorProofs   theorems about ShotEditor
        MCShotEditor       instances for TLC
    SceneNumbers           the arithmetic of scene numbers
      SceneNumbersProofs   theorems about it
      SceneTracker         the headings of a script and the list of scenes
        SceneTrackerProofs the list of scenes follows the script
          SceneRenumberProofs  the numbers of the scenes (also extends SceneNumbersProofs)
        MCSceneTracker     instances for TLC
    RdfSeq                 RDF sequences and their enumerator
      SceneBreakdown       the items of each scene
        SceneBreakdownProofs theorems about SceneBreakdown and the loop of RdfSeq
        MCSceneBreakdown   instance for TLC
    Induction              induction over numbers and what is defined step by step

**ProjectWindow.** `mem[e]` and `ws[e]` are version numbers: the edits made to
entry e (a document, or `Model`, which stands for project.rdf), and those its
file in the project folder holds. `frameModified` are the documents whose
controller says `modified`. `WriteProjectFiles` is the whole of
`writeProjectFiles()`, including that `saveAllFrames()` swallows the exception of
a controller: any subset of the frames may save. `Report` is the end of a save:
the caller's callback, and for a closing save what `tryToCloseProject()`'s
callback does. Identities of save attempts (`Saves`) are used once; `phase`,
`caller` and `reports` say where each is, whose callback it holds, and how
often it was told an outcome.

Two variables are history, read by properties only: `reports`, and `lateEdits`,
which remembers per entry the last edit that was made, or written to the folder
by somebody else, while a save was under way. A save cannot promise to contain
such an edit, and the positive properties exempt exactly these; the run
FileSaveClosing shows what happens to them.

**FileSave.** One action per handler. `SaveProjectToFile` is
`doSaveProjectToFile()` or `doSaveProjectToTemplate()` down to the first
`setTimeout`: the frames and the model are written, the writer opened, the
request stored; or something throws and the callback is told. `ArchiveEntry`,
`ArchiveFails`, `ArchiveFinishes` and `ArchiveIsBad` are the turns of
`archiveNextEntry()`; `job[a]` is what its closures hold. `disk[p]` is absent,
partial, corrupt or a whole zip. `job[a].inPlace` follows
`nsSafeFileOutputStream`: an existing target is replaced only by `Finish()`, a
missing one is created at once and written in place. `TimersDuringPicker` is a
constant because the platform decides it: some native pickers run the event
loop that fires this window's timers.

**ServerSave.** `step[a]` is the timer, event, answer or dialog a save waits for,
`sync[a]` what its closures hold. `Timer` and `Event` differ in that timers of
the window do not run behind a modal dialog while network events do. The stages
follow the `step` strings of `doSaveProjectToServer_step` and
`saveProjectToServer_step`; the steps "downloadNextFile", "finishDownloads" and
"finished" of the latter only schedule each other and are one. `ChannelEnds`,
`ChannelFails`, `ChannelCancelled` and `FileRead` are what
nsWebBrowserPersist hands to `uploadListener`: an upload has a channel that
reads the file and one that sends it, and each stops by itself. `SaveURIThrows` is
the file channel that cannot be opened, which `saveURI()` reports by throwing. `StartScript`
and `ScriptAnswered` are the one-request save of a standalone script. The
server is external: `Commit` says that it takes what it received when the last
request arrives, whether or not the answer comes back; it never commits a
request that is no longer outstanding, and asks at least for the files that
differ from its copy.

History in `ServerSave`: `lost` collects the entries a finished save took up and
did not deliver (a file that could not be read is skipped, an upload is taken
for done whatever the HTTP status) or was never to send (a standalone script is
all that is sent of its project), and
`crossed` marks the saves whose other channel went on after an outcome was told.

**SaveRequest** is the abstract specification: a request is asked for, dropped,
or runs and is told one outcome; the pending variable holds a running request or
null. `FileSave!RefinesRequest` is its implementation by `FileSave`. `ServerSave`
is *not* an implementation of it (findings below), which is why it states its
weaker promises itself.

**ShotDrawing, TransactionManager, ShotEditor.** A drawing maps the image and
each group to the sequence of its children. A transaction is a sequence of
steps; each is inserted, deleted or shifted by the DOM's rules (`insertBefore`
with a reference that is no longer a child throws, and `DoAll`/`UndoAll` stop
there with what was done so far, like the loops of `BatchTx`). What a step has to
remember is computed when the code computes it: `DeleteTx` when it is
constructed, `InsertNodeTx` when it is done. `snapshots` (the drawing after each
transaction) and `threw` are history. A command applies to any objects that can be
selected, and an object stays selected as long as it has a parent (`Selectable`),
also inside a group, or in a group an undo has taken out of the drawing. Grouping
what is not in the drawing, or has no child of the image among it, throws before it
has a transaction (`GroupingThrows`) and changes nothing.

**SceneNumbers.** A number is a sequence of naturals, `Before` the order of the
`sortord` strings (components padded to four digits, so up to 9999 scenes).
`NumberBetweenNumbers` also says whether the headings that follow must be
renumbered (`outPropagateChanges`), because all of `DEFAULT_MAX_SCENE_DEPTH`
levels are in use.

**SceneTracker.** `script` is the document's headings in order, each with id, text,
number and lock; other paragraphs matter only as places. `scenes` and `list` are
what the RDF says. `UpdateOf` is the whole of `Update()`: new ids for headings
without one of their own, numbers put right from the front (`Numbered`, with the
propagation of `Renumber`), all scenes described again, the list rewritten.
`HandleInserted` is the handler of an inserted heading, which numbers it first
and gives up at a heading whose id has no scene. `headerTimer`, `removeTimer` and
`pasteTimer` are what waits: the title of one heading, the update after a
removal (the node is still in the tree when the event comes), the update the
paste hook puts off. A deleted or copied heading is kept in `clip`, from where it
comes back by undo or paste, with its id. A dialog imports scenes with events
suppressed and ends 200 ms after it has closed; its Cancel button ends the
dialog with the timeout, and leaves the tracker deaf. `caretIn` says that the
caret is in a heading whose change made no event the tracker hears (the paragraph
was made a heading, or text came as a node); the update comes when the caret
leaves. `missed` is history: an insertion was given up and no update came since.

**RdfSeq, SceneBreakdown.** `Strip` is the loop of `ExtractBreakdownInRange()` that
removes elements of the sequence it enumerates: the enumerator has fetched one
element ahead, and passes over the one that moves into its place. `Visit` is a
turn of it; `left` is the sequence by then, `gone` what was removed, in order. `members[s]`
are a scene's department lists in their order, each with the size the reports
print, `markup[s]` the items found as markup. Where in a scene's text its spans
are is abstracted: `marked[s]` are the items of spans with visible text, `blank[s]`
those of spans that hold no more than whitespace, which an extraction passes over
(`nsScriptScene.cpp:264`), and an extraction takes new items in any order. `EditText`
is an edit the sidebar hears: a span, or the only child of one, is inserted or
removed. `TypeInSpan` is one it does not hear: characters come or go in a span that
keeps a child node, and the span changes from `marked` to `blank` or back. Text
moves from one scene to another when a heading comes or goes. `grown` is history:
the scenes where items came to be marked without an event, by typing or with a
heading, and that were not extracted since. `edits` counts what the user did, in both modules, and only bounds it.

## 3. Runs

Times are with two workers. "Exhaustive" is meant for the bounds given.

| run | instance | size | what it shows |
|---|---|---|---|
| FileSave | 3 saves, 1 document and the model, 2 paths and a template, picker without timers | 242 thousand states up to symmetry, 30 s | one archive at a time, books and file agree, templates stay apart, whole archives stay |
| FileSaveOverlap | 2 saves, timers behind the picker, saves can be cancelled | 97 thousand, 30 s | overlapping saves still implement SaveRequest and end |
| FileSaveClosing, FileSaveContinuing | as FileSave | stop at the counterexample | findings 1, 2 |
| ServerSave | 2 saves, 1 document (which is the script), one of the two entries edited | 650 thousand up to symmetry, 1 min | what does not ask to be saved is on the server, however two saves overlap |
| ServerSaveEnds | as ServerSave without edits, liveness | 73 thousand, 1 min | stored requests are real or left over by a `saveURI()` that threw, outcomes told once, every save ends |
| ShotEditor | 2 shapes, 1 group, 2 transactions | 67 thousand up to symmetry, 1 min | undo and redo are exact, `modified` is right, only undo of a multiple deletion throws |
| ShotEditorUndo | as ShotEditor | stops at the counterexample | finding 3 |
| SceneTracker | 3 headings, 1 text, 2 levels, 4 edits | 525 thousand, 1 min | the list follows the script, numbers rise, count up by one in unlocked scripts, locked numbers stay, new levels are for locked scripts |
| SceneTrackerSettles | 2 headings, 2 texts, 3 edits, liveness | 24 thousand, 20 s | a title that waits for a timer is not lost; the list comes in step by itself |
| SceneTrackerRenumbers | as SceneTracker, 3 levels | stops at the counterexample | finding 4 |
| SceneBreakdown | 2 scenes, 3 items in 2 departments, 2 edits | 469 thousand up to symmetry, 2 min | lists are well formed, complete, free of removed items; each extraction strips half |

**Bounds.** `MaxEdits` = 1: a version is compared for equality or order with the
one saved, so one edit before, during or after a save gives every relation; an
entry has at most one edit because a second one of the same entry can only make
`mem` differ again. `MaxEdited` bounds, in ServerSave, how many
entries are edited: one where two saves overlap, all where there is one save.
One document and the model are the two kinds of entries, and
give the order "one archived before, one after the edit". Two saves are what an
overlap takes; three let a save start while one of two overlapping ones is
pending, and let a template, an autosave and a user's save meet. Two paths tell
"the same file" from "another one". Two transactions, two shapes and a group are
the least in which a remembered sibling is moved by a later transaction and a
group contains more than one object; the length of batches is not bounded by
`MaxStack`. Three headings have one before, one after and one between; two
levels are used up by the second insertion at one place, so that renumbering
goes on to the headings that follow; one text is enough where titles are
compared by the second tracker run, which has two texts and two headings (typing
in one while the title of the other waits). Four edits are a lock, an insertion,
a second one and a move or an end. `Ids` only has to be large enough never to run
out (`FreeIds`), since ids are taken in order. Two scenes are "shown" and "edited"
or "split" and "merged"; two items of one department make a list that is left
and one that is emptied, the third item is the character, in a department of its
own; and three stale items are the least over which the strip loop skips one and
goes on. Two edits suffice for an edit and a removal before one extraction, or
for a span that is emptied, stripped and typed in again;
extractions and changes of the scene that is shown are not counted. `Blankable`
bounds the items whose spans may hold whitespace, to the character: what becomes of
a span does not depend on its item's department.

**Deadlock** is not checked: each window may close and each save identity is
used once, and users of scripts may stop, so the systems really stop.

**Fairness.** In `FileSave` the event loop runs the timer of each archive step
(weak fairness of the steps of each save). In `ServerSave` timers fire, and a
request that is outstanding is answered or fails in the end (TCP and the
platform's timeouts). Nothing makes a user answer a dialog, the autosave
interval elapse, or the server commit. In `SceneTracker` (`System`) the two timers
and the put-off update run, and an import that is left alone adds its scenes,
closes and ends; nothing makes the user leave a heading. `SaveEnds` and
`SaveToServerEnds` hold under this; the second one with the exceptions named
below (an exception in a handler).

**Symmetry** is over save identities, over shapes, or over the two items of one
department, and only in runs without liveness properties.

**Mutants.** Each property has a mutant, a plausible bug of the code it guards
against (definitions whose comment begins "A fault:"), listed in
`PROJECT.json`.

### What the code does not keep

1. *FileSaveClosing.* An edit made between two archive steps, after the model was
   flushed, is marked saved when the archive is done (`save.js:932`). Closing
   asks nothing.
2. *FileSaveContinuing.* `closeContinuation` stays set when another window refuses
   the quit (`celtx.js:2845`); a later close asks nothing.
3. *ShotEditorUndo.* Undoing the deletion of objects that were selected from the
   top down throws halfway (`shotselection.js:2659`), and does so ever after.
4. *SceneTrackerRenumbers.* The comment at `nsSceneTracker.cpp:474-486` lists when
   `Update()` renumbers a scene, "regardless of whether or not the scene is
   locked". The code also renumbers a first scene that is not 1. In a locked
   script a scene is moved before the first (0.1), another is pasted behind it
   and locked by a revision (0.2); when the caret then leaves a heading, with
   nothing changed, the two become 0.0.1 and 0.1.

The models follow the code in seven more places where it does not do what its
comments or its structure suggest, and the properties are stated around them:

- `saveAllFrames()` swallows the exception of a `controller.save()`
  (`celtx.js:1826`): the project is saved without that document, and a closing
  save then closes the window. `ClosedMeansStored` and `ClosedMeansOnServer` speak
  of the frames that did save.
- The `onerror` handlers read `statusText`, which throws when no response head came:
  `failed()` is not called (`save.js:773`). The same for an answer that cannot be
  parsed. `SaveToServerEnds` exempts the step "silent".
- When the channel of a file cannot be opened, `saveURI()` throws
  (`src/embedding/components/webbrowserpersist/src/nsWebBrowserPersist.cpp:370`,
  1345). The handler tells the caller that the save failed, but
  `gPendingSaveRequest` was set one line before (`save.js:1364`) and is not reset. The
  save has ended, `isSavePending()` stays true, which its comment
  (`save.js:873`) reserves for an active request, and the window refuses to save and to
  close. This is a fault of the code. `PendingHasRequest` names it as the only
  request that is left over (step "refused").
- A redo that puts selected objects into their group again leaves them selected
  (`shotselection.js:2402`), `canGroup` (2429) only counts them, and `groupSelection`
  reads the last of no sorted objects (2506) and throws. The user sees a command
  that does nothing; the drawing and the stack stay as they are, and
  `ThrowsOverDeletions` speaks of transactions.
- The sidebar listens to nodes, not to character data (`editors/breakdown.js:113`). A
  marked word that is typed down to a blank is stripped by the next extraction; when
  it is typed again it is marked again, and no extraction waits. The item is not
  listed until the scene is extracted for another reason. The same for text that
  comes with a heading that goes. `MarkedAreListed` exempts these scenes (`grown`).
- Between two steps of a save to the server nothing is pending; a second one
  starts, and the handlers of one clear the request of the other
  (`save.js:875`).
- The comment at `src/celtx/components/src/nsScriptScene.cpp:294` says that items
  which occur no more are stripped; the loop passes over the element behind each
  one it removes. `StripsHalf` states what holds.

With timers behind the picker and three saves, `SavePendingExact`,
`NoTemplateOnPath`, `CleanMeansStored`, `ClosedMeansStored` and `WholeStaysWhole` do
not hold. The last one, because a zip written in place, when
dropped, removes whatever another save has moved to its path.

## 4. Proofs

`FileSaveProofs.tla` proves, for any sets of documents, paths and saves, any
bound on edits and both values of `AllowLocalSaveCancel`:

| theorem | states | needs |
|---|---|---|
| TypeCorrect | `[]TypeOK` | - |
| PendingIsNeverStale | `[]NoStalePending` | - |
| EverySaveReportsOnce | `[]ReportedOnce` | - |
| ImplementsRequest | `Spec => RefinesRequest` | - |
| TemplateFlagIsOwned | `[]TemplateFlagOwned` | - |
| PendingIsExact | `[]SavePendingExact` | `~ TimersDuringPicker` |
| NoProjectBecomesTemplate | `[]NoTemplateOnPath` | `~ TimersDuringPicker` |
| CleanIsStored | `[]CleanMeansStored` | `~ TimersDuringPicker` |
| ClosedIsStored | `[]ClosedMeansStored` | `~ TimersDuringPicker` |
| WholeArchivesStay | `WholeStaysWhole` | `~ TimersDuringPicker` |

Assumptions: `WindowAssumption` and `FileAssumption` (the constants are distinct
values of the right kind), which TLC evaluates in each run. Where the picker
runs timers the last five are false (TLC finds a counterexample to each with
three saves), so the hypothesis cannot be dropped.

*The first four* rest on `RequestInv == TypeOK /\ NoStalePending /\ ReportedOnce`,
which is inductive: a step of a save that runs ends it and resets the request, or
keeps both. `StepRefines` maps each action to a step of `SaveRequest` or a
stutter, and the two invariants of `SaveRequest` are carried over that mapping.

*TemplateFlagIsOwned* is inductive over `RequestInv`: only the start of a template
save sets the flag, its own end takes it back, and the end of any other save
leaves both the flag and the templates that run alone (`OwnedByOthers`).

*The last five* need more than they say, so `SoloInv` strengthens them:

- `Solo`: whoever archives is the pending request, and whoever is at the picker
  is alone. This is what the picker without timers gives, and why two archives
  never read the folder at once.
- `TemplateInv`: `isTemplate` holds exactly while a template is archived, and
  only then the target is the template's file.
- `FlagInv`: an ordinary archive is made from a model that was flushed without
  the template flag, so no file gets it.
- `InPlaceInv`: a zip written in place has a partial file under its name, which
  no one else has replaced: dropping it destroys nothing whole.
- `ContentInv`: the folder is never ahead of the memory and lags only for
  modified frames; an unmodified project with a file has each entry on disk or
  edited late; and each entry of a running archive is still to be packed, packed
  as it is in memory, or edited late. The last conjunct turns into the second
  one when the archive ends.

Each lemma `...Step` shows that one of these conjuncts is kept by each action;
`StepCases` and `EndCases` reduce the actions to what they do to the variables
concerned. `SoloInv` was checked as an invariant with TLC (three saves) first.

`ServerSaveProofs.tla` proves of `ServerSave`, for any documents, any number of save
attempts that overlap, fail and are cancelled, and any bounds on edits, without
a hypothesis beyond `WindowAssumption` and `ServerAssumption`:

| theorem | states |
|---|---|
| ServerTypeCorrect | `[]TypeOK` |
| PendingIsRequest | `[]PendingHasRequest` |
| CallersAreToldOnce | `[]ToldOnce` |
| CleanIsOnServer | `[]CleanMeansOnServer` |
| ClosedIsOnServer | `[]ClosedMeansOnServer` |

The inductive invariant is `Inv`: types, `ToldOnce` and, while the window is open,

- `Control(a)` of each attempt: its phase goes with its step, before the step
  "sendModel" it has read nothing (`PhaseInv`), and one whose caller was told has
  stopped unless its other channel went on (`ToldInv`);
- `PendingInv`, what `PendingHasRequest` says: what is stored belongs to a save that
  waits for this request, or to one whose caller was told it failed when `saveURI()`
  threw;
- `FolderInv`: the folder is never ahead of the memory and lags only for modified
  frames and the model;
- `ReadInv(a)`: whatever a save has read of the folder is as in the memory or was
  edited late, and when it asks the server to commit it has nothing left to send;
- `OwedInv(a)`: what the server did not ask this save for is accounted for (on the
  server as the folder holds it, edited late, or in `lost`), and once the server
  has committed, everything is. That another save commits in between is why this
  is about the server's copy and not about what the save has sent;
- `CleanInv`: when the project does not count as modified, everything is accounted
  for. The end of a save that has committed turns `OwedInv` into it.

The two last theorems do not depend on how saves overlap: whichever save
commits, an entry it sends is then as the folder holds it, or was edited late. There is one lemma per
group of handlers and conjunct; `AttemptInv`, `EditingInv`, `CancelInv`, `CloseAsInv`
and `StutterInv` cover `Next`. `Inv` was checked as an invariant with TLC first.

`SceneTrackerProofs.tla` proves `ScenesFollowTheScript`, `[]ListFollowsScript`, for any
number of headings, ids, texts, levels and edits, from `TrackerAssumption`. Its
`Inv` says that when nothing is pending other than the title timer, the list is
that of the headings, ids are distinct, each heading has a scene with its
number, and its title too unless the timer is its own (`Following`); and that a
modal import keeps the tracker deaf. `UpdateFollows` shows that `Update()`
establishes `Following` from any script, `...Keeps` that each action that leaves
the tracker `Quiet` keeps it. The numbers are arbitrary in this proof.

`SceneNumbersProofs.tla` proves of the operators, for every depth: of two seamless
numbers the second sorts after the first (`SeamlessIncreases`); between two
seamless numbers of which the second leaves a level, the number for a new scene
is seamless with both (`SeamlessHasRoom`), so it sorts between them and nothing
is renumbered (`RoomIsBetween`); a number found for a heading behind another sorts
after that one's whatever the next one's is (`FoundNumberIsAfter`).

`Induction.tla` makes up for the library's induction theorems, which take an
operator as a parameter. Induction is stated for a *set* of numbers (its least
missing element would have its predecessor in it), over the naturals and over
intervals; a function that is defined step by step, as a recursive function or a
fold is, exists and has the values its steps say (`StepwiseExists`).

`SceneRenumberProofs.tla` proves of `SceneTracker`, for scripts of any length and
numbers of any depth, from `TrackerAssumption`:

| theorem | states |
|---|---|
| TrackerTypeCorrect | `[]TypeOK` |
| NumbersAlwaysRise | `[]NumbersRise` |
| UnlockedNumbersCountUp | `[]UnlockedCountUp` |
| LockedNumbersAreKept | `LockedNumbersStay` |
| LevelsOnlyComeBack | `LevelsAreForLocked` |

The invariant is `Ruled`: types with every number either none or one that ends in
no 0 (`Shown`, `Kept`), `Inv` of the proof above, and `Numbering`: when nothing is
pending, the numbers rise, and count up by one while scenes are not locked. Up to
its k-th heading, what `Numbered` has gone over rises (`RisesTo`), by induction
over k; `Renumber` pushes the numbers behind a new one up until one is far enough
away, by induction from there. That unlocked scripts are simply 1, 2, 3 was
the property of an earlier version and is *not* inductive: a heading that was
made while scenes were locked and unmade since has a number like 1.1, which
`ResetSceneNumbers()` does not see because it is no heading at the time, and comes
back with it by undo. So `UnlockedCountUp` speaks of the first components, and
`LevelsAreForLocked`, an action property, says that in an unlocked script a
number of several levels only comes back with its heading.

`SceneBreakdownProofs.tla` proves of `SceneBreakdown`, for any scenes, items,
departments and bound on edits, from `BreakdownAssumption`:

| theorem | states |
|---|---|
| BreakdownTypeCorrect | `[]TypeOK` |
| ListsStayWellFormed | `[]ListsWellFormed` |
| MarkedItemsAreListed | `[]MarkedAreListed` |
| MarkupStaysListed | `[]MarkupIsListed` |
| RemovedItemsStayAway | `[]RemovedStaysRemoved` |
| ExtractionStripsHalf | `StripsHalf` |

The invariant `Sound` has one strengthening. That what is marked is listed is not
inductive: `RemoveSelectedItem`, of an item that is listed but was not found as
markup, takes no mark away. So `Sound` says that what is marked in an extracted scene
that has not grown since was also *found* (`MarkedIsFound`, checked with TLC first).
Spans of whitespace have an invariant of their own (`BlankTyped`). Behind the last
theorem is `StripEnds`, of the loop that removes what it enumerates: each removal
lets at most one element pass unseen, so of the elements not to keep, no more
stay than went. It is an induction over the turns of the loop, with the number of
elements that may still be passed over as its measure.

`ShotEditorProofs.tla` proves of `ShotEditor`, for any shapes, groups (in groups) and
length of the undo stack, from `DrawingAssumption`, `NullAssumption` and
`MaxStackAssumption`:

| theorem | states |
|---|---|
| EditorTypeCorrect | `[]TypeOK` |
| HistoryIsFaithful | `[]HistoryFaithful` |
| OnlyDeletionsThrow | `[]ThrowsOverDeletions` |
| UnmodifiedIsSaved | `[]UnmodifiedMeansSaved` |

The first half is about drawings. Two drawings are the same when each object has
the same parent and the same next sibling, so each lemma about a move says what
becomes of those (`Moved` and its undo). A batch is a *walk* of drawings, one per
step. The code redoes a batch with what its steps remembered the first time, and
undoes it from the back; `LeadsTo(k, steps, l)` says that redoing leads from k to l
and changes nothing of the steps, and that undoing leads back from l to k, *or* is
stuck for good: a deletion remembers to go before an object that an earlier step
of its batch deleted, which only that step brings back. For each command there
is a lemma that its batch can be done and leads where it went: `InsertionsLead`
(draw, paste), `ShiftLeads`, `DeletionsLead`, `GroupingLeads` and `UngroupingLeads`,
each by induction over the steps. `AmongAre` says what
grouping sorts out of a selection: the selected children of the image, each once, in
z-order. Whatever else is selected, the command's batch can be done, or there is none
(`CommandIsSound`).

The second half is about the stack. `SafeInv` says, while nothing was thrown, that
each transaction leads from its drawing to the next (`Recorded`), that undo and
redo are where the history says, and that what a transaction took away no later
one knows of (`Gone`): a deleted object is not selected or pasted again. Once an
undo has thrown, it says that the transaction is stuck at an object that no later
one can bring back (`Halted`, by `Gone`), so that undo never gets past it; commands
stay possible. Of the transactions, what throws first is always an undo.

`Inv`, for `UnmodifiedIsSaved`, is about identities: a new transaction is none that
the stack or the last save still refers to (`FreshIdIsFresh`, by counting), so no two
in the stack are the same (`DistinctIds`), and the drawing in the file is the one
after the transaction of the last save wherever that is in the stack
(`SavedThere`), if it has not been cut off.

Every invariant and every action property of the passing runs is stated by one of
these theorems. *Only model-checked*: liveness (`SaveEnds`, `SaveToServerEnds`,
`CatchesUp`), which is out of the prover's reach.

## 5. What is abstracted or left out

- Contents are versions; XML, RDF statements, zips, progress bars, titles and
  wording are not modelled. `isProjectModified()`'s look at external documents'
  modification times is left out.
- `EditModel` stands for the twenty-odd handlers of `celtx.js` and the editors
  that change the model and set `isModified`; `quickAddDocument` is the one
  mapped.
- Modal alerts do not spin the event loop in the model; the pickers and dialogs
  do as described above. Callbacks do not throw once they have told the user.
- In `ServerSave`, Save As to a file while a server save runs is not modelled, and
  `gAllowLocalSaveCancel` is false as shipped (`ServerAssumption`). A window that
  closes abandons its saves. The server has one copy of the project: that two
  overlapping first saves create two projects is not modelled.
- In `ShotEditor`, which of the selectable objects are selected is an input of each
  command; attribute, geometry and
  label transactions, handles and the clipboard's contents are left out; a
  document's `save()` succeeds. `clearUndoStack` and `removeListener` have no
  caller.
- In `SceneTracker`, observers, what a scene says besides its title and number
  (members, notes), the contents of omitted scenes and the number that is shown
  are left out.
  Scenes of the RDF that no
  heading and no clipboard can bring back are forgotten, where the code keeps
  them.
- In `SceneBreakdown`, how many spans an item has in a scene is not counted (typing may
  empty the last one or not), and scenes that are moved or deleted in the
  outline are not modelled; the iterator over the text (`celtxNodeIterator.cpp`), the
  search for names after an import, renaming, and the tree view are left out.
- `NumberingScheme.cpp` turns numbers into letters; its odd values at multiples of
  26 are listed as a hazard, and nothing in the modelled parts reads the result.
- The act and shot trackers follow the scene tracker's scheme without numbers and
  locks; a module would repeat the part of `SceneTracker` that is proved.
- Dead code (section 1) has no module. The Mozilla platform, by far the largest part
  of the repository, has none but for what the modules above rest on (file
  streams, zip writer, XMLHttpRequest, web browser persist, RDF containers).

## 6. Plan

1. (done) `ProjectWindow`, `FileSave`, `SaveRequest`, `ServerSave`, `ShotEditor`, their
   runs, and the proofs of saving to disk.
2. (done) `SceneNumbers`, `SceneTracker`, `RdfSeq`, `SceneBreakdown` with their runs; the
   proofs of `ServerSave`, of `ShotEditor`, of the list of scenes and of the numbers;
   of the numbers of a script through all its changes; of `SceneBreakdown`.
3. `AppQuit`: several windows over the closing part of `ProjectWindow`; quitting
   asks each in turn, one may save, refuse or already have closed. Abstract
   specification: a quit closes all windows or leaves all that refused open and
   able to ask again.
4. `Listings`: `Deferred` and the enumerators of `server.js`, with the dialogs that
   wait; liveness of every waiter.
5. `Login`: the retry loop and the listeners of `nsCeltxService.js`, composed with
   `ServerSave`'s login step.
6. `ShotSelection`: what is selected across undo, redo and save; attribute and
   geometry transactions.
7. `ServerSave` over a server with several copies, so that a project posted twice
   can be stated.
