------------------------------ MODULE FileSave ------------------------------
(***************************************************************************)
(* Saving a project to disk (save.js): the user's commands and the         *)
(* autosave timer, the file picker, archiveCeltxProject()'s chain of       *)
(* setTimeout(0) steps over the safe zip writer (nsSafeZipWriter.cpp on    *)
(* nsSafeFileOutputStream), and tryToCloseProject() (celtx.js).            *)
(***************************************************************************)
EXTENDS ProjectWindow

CONSTANTS
  Paths,         \* files a project can be saved to
  Opened,        \* the path the project was opened from
  TemplatePath,  \* the file a template is saved to
  NoFile,        \* null, as the result of getProjectFile()
  TimersDuringPicker   \* the native file picker spins the event loop that runs
                       \* the window's timers (the platform decides)

ASSUME FileAssumption ==
  /\ Opened \in Paths
  /\ TemplatePath \notin Paths
  /\ NoFile \notin Paths \cup {TemplatePath}
  /\ TimersDuringPicker \in BOOLEAN

Files == Paths \cup {TemplatePath}

VARIABLES
  projectFile,   \* window._celtxfiledesc
  disk,          \* what each file holds
  job            \* what the closures of an archiving attempt hold

fileVars == <<projectFile, disk, job>>
vars == <<windowVars, fileVars>>

Zips == [has : [Entries -> Nat], template : BOOLEAN]
Blank == [has |-> [e \in Entries |-> 0], template |-> FALSE]
Absent == [state |-> "absent", zip |-> Blank]
Partial == [state |-> "partial", zip |-> Blank]
Corrupt == [state |-> "corrupt", zip |-> Blank]
Whole(z) == [state |-> "whole", zip |-> z]

(***************************************************************************)
(* file (the zip goes there when done), queue (the entries yet to archive),*)
(* zip (what it holds so far), inPlace (the zip is the file itself, since  *)
(* there was none to protect), wasModified (doSaveProjectToTemplate()'s).  *)
(***************************************************************************)
NoJob == [file |-> Opened, queue |-> {}, zip |-> Blank,
          inPlace |-> FALSE, wasModified |-> FALSE]

EndJob(a) == job' = [job EXCEPT ![a] = NoJob]

Archiving(a) == phase[a] = "running"
SomeSaveRuns == \E a \in Saves : Archiving(a)
TimersRun == window = "open" /\ (PickerOpen => TimersDuringPicker)

----------------------------------------------------------------------------
(* The callbacks of saveProjectToFile(), with the template's around them.  *)

\* doSaveProjectToTemplate()'s callbacks put back the flags it found.
EndFlags(a, modified) ==
  /\ isModified' = IF caller[a] = "template" THEN job[a].wasModified ELSE modified
  /\ isTemplate' = (isTemplate /\ caller[a] # "template")

\* A fault: a finished template is recorded as a save location of its own.
SucceededTemplateLocation(a) ==
  /\ EndFlags(a, isModified /\ isTemplate)
  /\ saveLocation' = IF isTemplate THEN "template" ELSE "disk"
  /\ projectFile' = IF isTemplate THEN projectFile ELSE job[a].file
  /\ Report(a, caller[a], "succeeded")

\* A fault: the template flag is not taken back when the template is saved.
SucceededKeepsFlag(a) ==
  /\ isModified' = IF caller[a] = "template" THEN job[a].wasModified
                   ELSE isModified /\ isTemplate
  /\ saveLocation' = IF isTemplate THEN saveLocation ELSE "disk"
  /\ projectFile' = IF isTemplate THEN projectFile ELSE job[a].file
  /\ UNCHANGED isTemplate
  /\ Report(a, caller[a], "succeeded")

\* innercb.succeeded: while isTemplate is set none of the bookkeeping is done.
Succeeded(a) ==
  /\ EndFlags(a, isModified /\ isTemplate)
  /\ saveLocation' = IF isTemplate THEN saveLocation ELSE "disk"
  /\ projectFile' = IF isTemplate THEN projectFile ELSE job[a].file
  /\ Report(a, caller[a], "succeeded")

\* A fault: the template flag is not taken back when the template fails.
FailedKeepsFlag(a, recorded) ==
  /\ isModified' = IF caller[a] = "template" THEN job[a].wasModified ELSE TRUE
  /\ saveLocation' = "none"
  /\ projectFile' = IF recorded THEN job[a].file ELSE projectFile
  /\ UNCHANGED isTemplate
  /\ Report(a, caller[a], "failed")

\* innercb.failed, also run when the bookkeeping of innercb.succeeded throws:
\* in that case the new project file has been recorded already.
Failed(a, recorded) ==
  /\ EndFlags(a, TRUE)
  /\ saveLocation' = "none"
  /\ projectFile' = IF recorded THEN job[a].file ELSE projectFile
  /\ Report(a, caller[a], "failed")

\* innercb.cancelled
Cancelled(a) ==
  /\ EndFlags(a, TRUE)
  /\ Report(a, caller[a], "cancelled")
  /\ UNCHANGED <<saveLocation, projectFile>>

----------------------------------------------------------------------------
\* A fault: the writer is opened on the target itself, not on a temporary file.
StartArchiveInPlace(a, c, p) ==
  /\ \E written \in SUBSET frameModified :
       WriteProjectFiles(written, TRUE, isTemplate \/ c = "template", SomeSaveRuns)
  /\ isTemplate' = (isTemplate \/ c = "template")
  /\ isModified' = ModifiedAfterWrite
  /\ gPendingSaveRequest' = a
  /\ phase' = [phase EXCEPT ![a] = "running"]
  /\ caller' = [caller EXCEPT ![a] = c]
  /\ job' = [job EXCEPT ![a] =
       [file |-> p, queue |-> Entries, zip |-> Blank,
        inPlace |-> TRUE, wasModified |-> IsProjectModified]]
  /\ disk' = [disk EXCEPT ![p] = Partial]
  /\ UNCHANGED <<saveLocation, closeVars, reports, projectFile>>

(***************************************************************************)
(* doSaveProjectToFile(p) and doSaveProjectToTemplate(p) down to the first *)
(* setTimeout.  Opening the safe writer leaves an existing target alone    *)
(* (the zip goes to a temporary file); a missing target is created and     *)
(* written in place.                                                       *)
(***************************************************************************)
StartArchive(a, c, p) ==
  /\ \E written \in SUBSET frameModified :
       WriteProjectFiles(written, TRUE, isTemplate \/ c = "template", SomeSaveRuns)
  /\ isTemplate' = (isTemplate \/ c = "template")
  /\ isModified' = ModifiedAfterWrite
  /\ gPendingSaveRequest' = a
  /\ phase' = [phase EXCEPT ![a] = "running"]
  /\ caller' = [caller EXCEPT ![a] = c]
  /\ job' = [job EXCEPT ![a] =
       [file |-> p, queue |-> Entries, zip |-> Blank,
        inPlace |-> disk[p].state = "absent", wasModified |-> IsProjectModified]]
  /\ disk' = [disk EXCEPT ![p] = IF @.state = "absent" THEN Partial ELSE @]
  /\ UNCHANGED <<saveLocation, closeVars, reports, projectFile>>

\* writeProjectFiles() or zipwriter.open() throws: saveProjectToFile()'s catch
\* clause calls callback.failed without touching the flags.
StartFails(a, c) ==
  /\ \E written \in SUBSET frameModified, flushed \in BOOLEAN :
       WriteProjectFiles(written, flushed, isTemplate \/ c = "template", SomeSaveRuns)
  /\ isModified' = IF c = "template" THEN IsProjectModified
                   ELSE ModifiedAfterWrite
  /\ isTemplate' = (isTemplate /\ c # "template")
  /\ Report(a, c, "failed")
  /\ UNCHANGED <<saveLocation, gPendingSaveRequest, fileVars>>

SaveProjectToFile(a, c, p) == StartArchive(a, c, p) \/ StartFails(a, c)

----------------------------------------------------------------------------
(* User actions and timers.                                                *)

\* promptForFileSaveLocation() opens the picker.
AskLocation(a, c) ==
  /\ phase' = [phase EXCEPT ![a] = "asking"]
  /\ caller' = [caller EXCEPT ![a] = c]
  /\ UNCHANGED <<contentVars, isModified, isTemplate, saveLocation,
                 gPendingSaveRequest, closeVars, reports, lateEdits, fileVars>>

\* The picker returns.  Whether a save is pending is not looked at again.
PickLocation(a, p) ==
  /\ window = "open" /\ phase[a] = "asking"
  /\ (p = TemplatePath) = (caller[a] = "template")
  /\ SaveProjectToFile(a, caller[a], p)

\* The picker is cancelled: no callback is called.
PickNothing(a) ==
  /\ window = "open" /\ phase[a] = "asking"
  /\ phase' = [phase EXCEPT ![a] = "dropped"]
  /\ UNCHANGED <<contentVars, isModified, isTemplate, saveLocation,
                 gPendingSaveRequest, closeVars, caller, reports, lateEdits,
                 fileVars>>

\* A fault: cmdSaveProject() does not look for a pending save.
CmdSaveProjectUnguarded(a, c) ==
  /\ Unused(a)
  /\ \/ /\ saveLocation = "disk" /\ projectFile # NoFile
        /\ SaveProjectToFile(a, c, projectFile)
     \/ saveLocation = "disk" /\ AskLocation(a, "user")
     \/ saveLocation = "none" /\ AskLocation(a, c)

\* cmdSaveProject(), for a project without a server location.  getProjectFile()
\* can fail to resolve its descriptor (`found'); the callback is then lost.
CmdSaveProject(a, c) ==
  /\ Unused(a) /\ ~ IsSavePending
  /\ \/ /\ saveLocation = "disk" /\ projectFile # NoFile
        /\ SaveProjectToFile(a, c, projectFile)
     \/ saveLocation = "disk" /\ AskLocation(a, "user")
     \/ saveLocation = "none" /\ AskLocation(a, c)

\* The save commands are dispatched by gController, which
\* projectWindowWillClose() removes when it sets closeContinuation.
CommandsWork == UserCanAct /\ ~ closeContinuation

UserSaves(a) == CommandsWork /\ CmdSaveProject(a, "user")

\* cmdSaveProjectAsFile() and cmdSaveProjectAsTemplate()
UserSavesAs(a, c) ==
  /\ CommandsWork /\ Unused(a) /\ ~ IsSavePending
  /\ AskLocation(a, c)

\* autosave(), the handler of an interval timer.
Autosave(a) ==
  /\ TimersRun /\ Unused(a)
  /\ IsProjectModified /\ ~ IsSavePending
  /\ saveLocation = "disk" /\ projectFile # NoFile
  /\ disk[projectFile].state # "absent"
  /\ SaveProjectToFile(a, "autosave", projectFile)

----------------------------------------------------------------------------
(* archiveNextEntry(): one entry per turn of the event loop.               *)

ArchiveEntry(a) ==
  /\ TimersRun /\ Archiving(a)
  /\ \E e \in job[a].queue :
       job' = [job EXCEPT
         ![a].queue = @ \ {e},
         ![a].zip.has[e] = ws[e],
         ![a].zip.template = IF e = Model THEN wsTemplate ELSE @]
  /\ UNCHANGED <<windowVars, projectFile, disk>>

\* A fault: an archive step that throws does not reset gPendingSaveRequest.
ArchiveFailsKeepsPending(a) ==
  /\ TimersRun /\ Archiving(a)
  /\ disk' = IF job[a].inPlace THEN [disk EXCEPT ![job[a].file] = Absent] ELSE disk
  /\ Failed(a, FALSE)
  /\ EndJob(a)
  /\ UNCHANGED <<contentVars, lateEdits, gPendingSaveRequest>>

\* A fault: an archive step's exception is swallowed, the callback never told.
ArchiveFailsSilently(a) ==
  /\ TimersRun /\ Archiving(a)
  /\ gPendingSaveRequest' = NoSave
  /\ phase' = [phase EXCEPT ![a] = "dropped"]
  /\ EndJob(a)
  /\ UNCHANGED <<contentVars, isModified, isTemplate, saveLocation, closeVars,
                 caller, reports, lateEdits, projectFile, disk>>

\* addEntryFile() throws, or finish() does: the writer drops its zip.
ArchiveFails(a) ==
  /\ TimersRun /\ Archiving(a)
  /\ disk' = IF job[a].inPlace THEN [disk EXCEPT ![job[a].file] = Absent] ELSE disk
  /\ gPendingSaveRequest' = NoSave
  /\ Failed(a, FALSE)
  /\ EndJob(a)
  /\ UNCHANGED <<contentVars, lateEdits>>

\* finish() moves the zip to its place.  One that was written in place while
\* another save moved its own there went to a file that has no name any more.
Land(a, content) ==
  disk' = IF job[a].inPlace /\ disk[job[a].file].state # "partial"
          THEN disk
          ELSE [disk EXCEPT ![job[a].file] = content]

\* The integrity check passes.
ArchiveFinishes(a) ==
  /\ TimersRun /\ Archiving(a) /\ job[a].queue = {}
  /\ Land(a, Whole(job[a].zip))
  /\ gPendingSaveRequest' = NoSave
  /\ \/ Succeeded(a)
     \/ ~ isTemplate /\ Failed(a, TRUE)
  /\ EndJob(a)
  /\ UNCHANGED <<contentVars, lateEdits>>

\* The integrity check fails, once the old archive has been replaced.
ArchiveIsBad(a) ==
  /\ TimersRun /\ Archiving(a) /\ job[a].queue = {}
  /\ Land(a, Corrupt)
  /\ gPendingSaveRequest' = NoSave
  /\ Failed(a, FALSE)
  /\ EndJob(a)
  /\ UNCHANGED <<contentVars, lateEdits>>

\* A fault: abort() tells the callback but leaves the archiving timer running.
CancelPendingSaveKeepsTimer ==
  /\ gPendingSaveRequest # NoSave
  /\ gPendingSaveRequest' = NoSave
  /\ isModified' = TRUE
  /\ reports' = [reports EXCEPT ![gPendingSaveRequest] = @ + 1]
  /\ UNCHANGED <<contentVars, isTemplate, saveLocation, closeVars, phase, caller,
                 lateEdits, fileVars>>

\* cancelPendingSaveRequest(): abort() of the stored request object.  The zip
\* writer is not closed, so a zip written in place stays behind.
CancelPendingSave ==
  /\ gPendingSaveRequest # NoSave
  /\ gPendingSaveRequest' = NoSave
  /\ Cancelled(gPendingSaveRequest)
  /\ EndJob(gPendingSaveRequest)
  /\ UNCHANGED <<contentVars, lateEdits, disk>>

\* The status bar's button is shown for local saves only if it may be used.
CancelButton == UserCanAct /\ AllowLocalSaveCancel /\ CancelPendingSave

----------------------------------------------------------------------------
(***************************************************************************)
(* tryToCloseProject().  Refusals (a save is pending, the user answers     *)
(* Cancel) change nothing and are left out.                                *)
(***************************************************************************)
CloseAs(how) ==
  /\ window' = how
  /\ UNCHANGED <<contentVars, isModified, isTemplate, saveLocation,
                 gPendingSaveRequest, closeContinuation, saveVars, lateEdits,
                 fileVars>>

CloseContinues == UserCanAct /\ closeContinuation /\ CloseAs("continued")

ShouldPrompt == IsProjectModified \/ saveLocation = "none"

\* A fault: documents open in a frame are not asked whether they are modified.
CloseCleanIgnoringFrames ==
  /\ UserCanAct /\ ~ closeContinuation /\ ~ IsSavePending
  /\ ~ isModified /\ saveLocation # "none"
  /\ CloseAs("clean")

CloseClean ==
  /\ UserCanAct /\ ~ closeContinuation /\ ~ IsSavePending /\ ~ ShouldPrompt
  /\ CloseAs("clean")

CloseDontSave ==
  /\ UserCanAct /\ ~ closeContinuation /\ ~ IsSavePending /\ ShouldPrompt
  /\ CloseAs("discarded")

CloseSave(a, c) ==
  /\ UserCanAct /\ ~ closeContinuation /\ ~ IsSavePending /\ ShouldPrompt
  /\ CmdSaveProject(a, c)

\* A pending save can only be given up when gAllowLocalSaveCancel is set.
CloseCancelling ==
  /\ UserCanAct /\ ~ closeContinuation
  /\ AllowLocalSaveCancel /\ IsSavePending
  /\ gPendingSaveRequest' = NoSave
  /\ LET a == gPendingSaveRequest IN
       /\ EndFlags(a, TRUE)
       /\ phase' = [phase EXCEPT ![a] = "cancelled"]
       /\ reports' = [reports EXCEPT ![a] = @ + 1]
       /\ EndJob(a)
  /\ window' = "cancelled"
  /\ UNCHANGED <<contentVars, caller, saveLocation, closeContinuation, lateEdits,
                 projectFile, disk>>

----------------------------------------------------------------------------
Init ==
  /\ \/ WindowInit("disk") /\ projectFile = Opened
     \/ WindowInit("none") /\ projectFile = NoFile
  /\ disk = [p \in Files |-> IF p = Opened THEN Whole(Blank) ELSE Absent]
  /\ job = [a \in Saves |-> NoJob]

Editing ==
  /\ \/ EditModel(SomeSaveRuns)
     \/ \E d \in Docs : \/ EditDoc(d, SomeSaveRuns)
                        \/ CloseTabSaving(d, SomeSaveRuns)
                        \/ CloseTabDiscarding(d)
  /\ UNCHANGED fileVars

Asking(a) ==
  \/ UserSaves(a)
  \/ \E c \in {"user", "template"} : UserSavesAs(a, c)
  \/ Autosave(a)
  \/ \E p \in Files : PickLocation(a, p)
  \/ PickNothing(a)

Archive(a) ==
  ArchiveEntry(a) \/ ArchiveFails(a) \/ ArchiveFinishes(a) \/ ArchiveIsBad(a)

Closing ==
  \/ CloseContinues \/ CloseClean \/ CloseDontSave \/ CloseCancelling
  \/ \E a \in Saves, c \in Closers : CloseSave(a, c)

Next ==
  \/ Editing
  \/ \E a \in Saves : Asking(a) \/ Archive(a)
  \/ CancelButton
  \/ Closing

\* The event loop runs the timer of every archive step; nothing makes a user
\* act or the autosave interval elapse.
Fairness == \A a \in Saves : WF_vars(Archive(a))

Spec == Init /\ [][Next]_vars /\ Fairness

----------------------------------------------------------------------------
Phases == {"unused", "asking", "dropped", "running"} \cup Outcomes
Locations == {"none", "disk"}
DiskEntries == [state : {"absent", "partial", "corrupt", "whole"}, zip : Zips]
Jobs == [file : Files, queue : SUBSET Entries, zip : Zips,
         inPlace : BOOLEAN, wasModified : BOOLEAN]

FileTypeOK ==
  /\ projectFile \in Files \cup {NoFile}
  /\ disk \in [Files -> DiskEntries]
  /\ job \in [Saves -> Jobs]

\* Type correctness.
TypeOK == ContentTypeOK /\ BookTypeOK(Phases, Locations) /\ FileTypeOK

\* The project is taken for a template only while a template is being saved: a
\* flag left behind would make every later save skip its bookkeeping.
TemplateFlagOwned ==
  isTemplate => \E a \in Saves : Archiving(a) /\ caller[a] = "template"

Stored(e) == /\ projectFile \in Paths
             /\ disk[projectFile].state = "whole"
             /\ disk[projectFile].zip.has[e] = mem[e]

\* No file of the user's is left saying it is a template (it would open as a new,
\* unsaved project): isTemplate never leaks into an ordinary save.
NoTemplateOnPath == \A p \in Paths : ~ disk[p].zip.template

\* A project that does not ask to be saved (nothing is modified, and it has a
\* file of its own) is in that file, up to edits made while a save was running.
CleanMeansStored ==
  window = "open" /\ ~ ShouldPrompt =>
    \A e \in Entries : Stored(e) \/ mem[e] <= lateEdits[e]

\* The same of a window that tryToCloseProject() let close without asking; one
\* it closed after the save it had asked for succeeded may also have lost the
\* documents whose controller.save() threw, which are still modified.
ClosedMeansStored ==
  /\ window = "clean" => \A e \in Entries : Stored(e) \/ mem[e] <= lateEdits[e]
  /\ window = "saved" => \A e \in Entries \ frameModified :
                           Stored(e) \/ mem[e] <= lateEdits[e]

\* Once a file holds a whole archive, no failure, abort or overlap of saves
\* leaves a partial file or none in its place.
WholeStaysWhole ==
  [][\A p \in Files : disk[p].state = "whole" =>
       disk'[p].state \notin {"partial", "absent"}]_vars

\* A save that is being archived ends with an outcome, unless its window goes.
SaveEnds ==
  \A a \in Saves : Archiving(a) ~> (phase[a] \in Outcomes \/ window # "open")

\* The requests of this window behave as save.js promises their callers.
Request == INSTANCE SaveRequest WITH pending <- gPendingSaveRequest
RefinesRequest == Request!Spec

\* gPendingSaveRequest never outlives its save: whatever it holds is still
\* being archived, so isSavePending() cannot lock saving and closing for good.
NoStalePending == Request!NoStalePending

\* Every callback is told one outcome, once, and only when the save has ended:
\* whichever of the archive steps fails, throws or is aborted.
ReportedOnce == Request!ReportedOnce

----------------------------------------------------------------------------
(* What save.js and celtx.js say of themselves; the code does not keep all. *)

\* "Returns true if there is an active save request" (isSavePending).
SavePendingExact == SomeSaveRuns => IsSavePending

\* "If the project has been modified ... this will prompt the user to save the
\* project" (tryToCloseProject): no edit disappears without a question.
ClosingAsks == window = "clean" => \A e \in Entries : Stored(e)

\* The same promise, for a window that closes because an earlier close had set
\* closeContinuation.
ContinuingAsks == window = "continued" => ~ IsProjectModified
=============================================================================
