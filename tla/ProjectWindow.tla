--------------------------- MODULE ProjectWindow ---------------------------
(***************************************************************************)
(* What one Celtx project window (celtx.xul) keeps between its event-loop  *)
(* turns and every way of saving shares: the project's contents in memory  *)
(* and in the temporary project folder, the modified flags, the global     *)
(* gPendingSaveRequest, and the state of the window itself.                *)
(*                                                                         *)
(* JavaScript runs to completion, so one handler is one action.  Contents  *)
(* are versions: mem[e] counts the edits made to entry e, ws[e] is the     *)
(* edit the file in the project folder holds.                              *)
(***************************************************************************)
EXTENDS Naturals, FiniteSets

CONSTANTS
  Docs,                  \* documents that can be open in an editor frame
  Model,                 \* project.rdf, the RDF model of the project
  Saves,                 \* identities of save attempts, each used once
  NoSave,                \* null, as a value of gPendingSaveRequest
  MaxEdits,              \* bound on the edits made to one entry
  AllowLocalSaveCancel   \* gAllowLocalSaveCancel (save.js ships with false)

ASSUME WindowAssumption ==
  /\ Model \notin Docs
  /\ NoSave \notin Saves
  /\ MaxEdits \in Nat
  /\ AllowLocalSaveCancel \in BOOLEAN

Entries == Docs \cup {Model}

VARIABLES
  mem,                   \* edits in memory, per entry
  ws,                    \* edits in the project folder's files, per entry
  wsTemplate,            \* the isTemplate statement in the flushed project.rdf
  isModified,            \* gProject.isModified
  frameModified,         \* documents whose frame.controller.modified is true
  isTemplate,            \* gProject.isTemplate
  saveLocation,          \* gProject.saveLocation
  gPendingSaveRequest,   \* the attempt whose request object is stored, or NoSave
  closeContinuation,     \* window.closeContinuation
  window,                \* open, or the way the window was closed
  phase,                 \* where each attempt is
  caller,                \* who asked for it, hence which callback it holds
  reports,               \* outcomes delivered to its caller (history)
  lateEdits              \* last edit made, or written to the folder by someone
                         \* else, while some save was running (history)

contentVars == <<mem, ws, wsTemplate, frameModified>>
closeVars   == <<closeContinuation, window>>
saveVars    == <<phase, caller, reports>>
windowVars  == <<mem, ws, wsTemplate, isModified, frameModified, isTemplate,
                 saveLocation, gPendingSaveRequest, closeContinuation, window,
                 phase, caller, reports, lateEdits>>

Outcomes == {"succeeded", "failed", "cancelled"}
Callers  == {"user", "autosave", "template", "close", "quit"}
Closers  == {"close", "quit"}
Windows  == {"open", "clean", "saved", "discarded", "continued", "cancelled"}

IsSavePending == gPendingSaveRequest # NoSave

IsProjectModified == isModified \/ frameModified # {}

\* A native file picker is in front of the window.
PickerOpen == \E a \in Saves : phase[a] = "asking"

\* The user can act on the window: it is open and no picker is in front of it.
UserCanAct == window = "open" /\ ~ PickerOpen

Unused(a) == phase[a] = "unused"

\* A fault: every frame counts as saved, whether its controller.save() threw.
WriteProjectFilesCleansAll(written, flushed, template, saving) ==
  /\ ws' = [e \in Entries |-> IF e \in written \/ (e = Model /\ flushed)
                              THEN mem[e] ELSE ws[e]]
  /\ wsTemplate' = IF flushed THEN template ELSE wsTemplate
  /\ frameModified' = {}
  /\ lateEdits' = [e \in Entries |-> IF saving /\ e \in written
                                     THEN mem[e] ELSE lateEdits[e]]
  /\ UNCHANGED mem

(***************************************************************************)
(* writeProjectFiles(): saveAllFrames() flags the project as modified when *)
(* a frame is, then calls controller.save(), whose exceptions it swallows  *)
(* (`written' are the frames that did save); flush() writes project.rdf.   *)
(* `saving' tells whether another save is reading the folder meanwhile.    *)
(***************************************************************************)
WriteProjectFiles(written, flushed, template, saving) ==
  /\ ws' = [e \in Entries |-> IF e \in written \/ (e = Model /\ flushed)
                              THEN mem[e] ELSE ws[e]]
  /\ wsTemplate' = IF flushed THEN template ELSE wsTemplate
  /\ frameModified' = frameModified \ written
  /\ lateEdits' = [e \in Entries |-> IF saving /\ e \in written
                                     THEN mem[e] ELSE lateEdits[e]]
  /\ UNCHANGED mem

\* The value saveAllFrames() leaves in gProject.isModified.
ModifiedAfterWrite == isModified \/ frameModified # {}

(***************************************************************************)
(* An attempt ends: its caller's callback runs.  tryToCloseProject()'s     *)
(* callback closes the window (a quit may still be refused by another      *)
(* window, after closeContinuation was set); the others only tell the user *)
(* and are let go.                                                         *)
(***************************************************************************)
Report(a, c, outcome) ==
  /\ phase' = [phase EXCEPT ![a] = outcome]
  /\ caller' = [caller EXCEPT ![a] = "user"]
  /\ reports' = [reports EXCEPT ![a] = @ + 1]
  /\ \/ /\ c \in Closers /\ outcome = "succeeded"
        /\ closeContinuation' = TRUE
        /\ window' \in IF c = "quit" THEN {"open", "saved"} ELSE {"saved"}
     \/ /\ c \in Closers /\ outcome # "succeeded"
        /\ closeContinuation' = FALSE
        /\ UNCHANGED window
     \/ c \notin Closers /\ UNCHANGED closeVars

(***************************************************************************)
(* Edits.  `saving' tells whether an attempt is under way; it only feeds   *)
(* the history variable.                                                   *)
(***************************************************************************)
NoteEdit(e, saving) ==
  lateEdits' = IF saving THEN [lateEdits EXCEPT ![e] = mem'[e]] ELSE lateEdits

\* A change to the project's model: every such handler sets isModified.
EditModel(saving) ==
  /\ UserCanAct /\ mem[Model] < MaxEdits
  /\ mem' = [mem EXCEPT ![Model] = @ + 1]
  /\ isModified' = TRUE
  /\ NoteEdit(Model, saving)
  /\ UNCHANGED <<ws, wsTemplate, frameModified, isTemplate, saveLocation,
                 gPendingSaveRequest, closeVars, saveVars>>

\* A change in an editor: only the frame's controller knows of it.
EditDoc(d, saving) ==
  /\ UserCanAct /\ mem[d] < MaxEdits
  /\ mem' = [mem EXCEPT ![d] = @ + 1]
  /\ frameModified' = frameModified \cup {d}
  /\ NoteEdit(d, saving)
  /\ UNCHANGED <<ws, wsTemplate, isModified, isTemplate, saveLocation,
                 gPendingSaveRequest, closeVars, saveVars>>

\* onTabWillClose(), answer Save: the document is written to the project folder.
CloseTabSaving(d, saving) ==
  /\ UserCanAct /\ d \in frameModified
  /\ ws' = [ws EXCEPT ![d] = mem[d]]
  /\ frameModified' = frameModified \ {d}
  /\ isModified' = TRUE
  /\ UNCHANGED mem
  /\ NoteEdit(d, saving)
  /\ UNCHANGED <<wsTemplate, isTemplate, saveLocation, gPendingSaveRequest,
                 closeVars, saveVars>>

\* onTabWillClose(), answer Don't Save, or Save when controller.save() throws:
\* the tab closes and the frame's edits are gone.
CloseTabDiscarding(d) ==
  /\ UserCanAct /\ d \in frameModified
  /\ mem' = [mem EXCEPT ![d] = ws[d]]
  /\ frameModified' = frameModified \ {d}
  /\ lateEdits' = [lateEdits EXCEPT ![d] = IF @ > ws[d] THEN ws[d] ELSE @]
  /\ UNCHANGED <<ws, wsTemplate, isModified, isTemplate, saveLocation,
                 gPendingSaveRequest, closeVars, saveVars>>

\* loadProject(): a project opened from a file of its own (location "disk") or
\* from a template, which has no save location and is modified from the start.
WindowInit(location) ==
  /\ mem = [e \in Entries |-> 0]
  /\ ws = mem
  /\ wsTemplate = FALSE
  /\ isModified = (location = "none")
  /\ frameModified = {}
  /\ isTemplate = FALSE
  /\ saveLocation = location
  /\ gPendingSaveRequest = NoSave
  /\ closeContinuation = FALSE
  /\ window = "open"
  /\ phase = [a \in Saves |-> "unused"]
  /\ caller = [a \in Saves |-> "user"]
  /\ reports = [a \in Saves |-> 0]
  /\ lateEdits = mem

ContentTypeOK ==
  /\ mem \in [Entries -> Nat]
  /\ ws \in [Entries -> Nat]
  /\ wsTemplate \in BOOLEAN
  /\ frameModified \subseteq Docs
  /\ lateEdits \in [Entries -> Nat]

BookTypeOK(phases, locations) ==
  /\ isModified \in BOOLEAN
  /\ isTemplate \in BOOLEAN
  /\ saveLocation \in locations
  /\ gPendingSaveRequest \in Saves \cup {NoSave}
  /\ closeContinuation \in BOOLEAN
  /\ window \in Windows
  /\ phase \in [Saves -> phases]
  /\ caller \in [Saves -> Callers]
  /\ reports \in [Saves -> Nat]
=============================================================================
