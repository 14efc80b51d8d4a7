----------------------------- MODULE ServerSave -----------------------------
(***************************************************************************)
(* Saving a project to the Studio server (save.js): the user's commands,   *)
(* login and dialogs, and the steps that doSaveProjectToServer() and       *)
(* saveProjectToServer() chain with setTimeout(0) and with the events of   *)
(* XMLHttpRequest (nsXMLHttpRequest.cpp) and nsWebBrowserPersist.cpp.      *)
(* gPendingSaveRequest holds a request while one is on the network, and    *)
(* what an upload that could not begin has left there.                     *)
(* A standalone script, opened from the server, is sent in one request.    *)
(***************************************************************************)
EXTENDS ProjectWindow

CONSTANTS
  Script,      \* the document a standalone script consists of
  MaxEdited    \* bound on the entries that are edited

\* The tests for gAllowLocalSaveCancel are left out.
ASSUME ServerAssumption ==
  Script \in Docs /\ MaxEdited \in Nat /\ ~ AllowLocalSaveCancel

VARIABLES
  wsref,        \* gProject.wsref is set: the project has its place on the server
  standalone,   \* gProject.standalone: it is a script with its place there
  cancelShown,  \* the status bar shows the cancel button
  server,       \* what the server's copy of the project holds, per entry
  lost,         \* entries a finished save gave up or was never to send (history)
  step,         \* the step, event or answer each attempt waits for
  sync          \* what the closures and the requests of an attempt hold

serverVars == <<wsref, standalone, server, lost>>
siteVars == <<serverVars, cancelShown>>
vars == <<windowVars, siteVars, step, sync>>

\* What is open of an upload: the file's channel, still to be read or read to
\* its end, and the server's channel.
Channels == {"file", "fileRead", "server"}
Requests == {"versionRequest", "modelRequest", "fileUpload", "finishRequest",
             "scriptRequest"}
Timers == {"checkVersion", "getCommitMessage", "sendModel", "sendUploadModel",
           "prepareUploads", "uploadNextFile", "finishUploads", "finished",
           "versionAborted", "aborted"}
Dialogs == {"login", "loginToServer", "studioDialog", "commitPrompt"}
Dead == {"none", "silent", "refused"}

(***************************************************************************)
(* who (the caller, told of every outcome), known (the save replaces a     *)
(* project the server has), sent (what was read of an entry to send it),   *)
(* asked (what its copy would still lack), todo (the files to come), file  *)
(* (the one being uploaded), got (what reached the server), channels,      *)
(* crossed (an upload went on after its outcome was told), committed.      *)
(***************************************************************************)
NoSync == [who |-> "user", known |-> FALSE, sent |-> [e \in Entries |-> 0],
           asked |-> {}, todo |-> {}, file |-> Model, got |-> {},
           channels |-> {}, crossed |-> FALSE, committed |-> FALSE]

\* An attempt has read the model or the script it sends, and perhaps more.
Sending(a) == sync[a].got # {}
OtherSaveRuns(a) == \E b \in Saves \ {a} : Sending(b)
SomeSaveRuns == \E a \in Saves : Sending(a)

\* Timers do not run behind a modal dialog (nsGlobalWindow::RunTimeout); events
\* of the network do.
Timer(a, s) == window = "open" /\ ~ PickerOpen /\ step[a] = s
Event(a, s) == window = "open" /\ step[a] = s

Goto(a, s) == step' = [step EXCEPT ![a] = s]
bookVars == <<isModified, isTemplate, saveLocation>>

\* A step that changes nothing but what comes next.
OnlyGoto(a, s) ==
  /\ Goto(a, s)
  /\ UNCHANGED <<windowVars, siteVars, sync>>

\* The closures are let go; whether the attempt was told twice is history.
Settle(a) == sync' = [sync EXCEPT ![a] = [NoSync EXCEPT !.crossed = sync[a].crossed]]

\* send() or saveURI() succeeds: the request is stored, and on the network.
Send(a, s) ==
  /\ gPendingSaveRequest' = a
  /\ Goto(a, s)
  /\ UNCHANGED <<contentVars, bookVars, closeVars, saveVars, lateEdits, siteVars>>

----------------------------------------------------------------------------
(* The callbacks: those of doSaveProjectToServer() and                     *)
(* doSaveScriptToServer() hide the cancel button and pass the outcome on,  *)
(* those of saveProjectToServer() keep the project's books first.          *)

Tell(a, outcome) ==
  /\ cancelShown' = FALSE
  /\ Report(a, sync[a].who, outcome)

\* An outcome that does not come from saveProjectToServer().
EndEarly(a, outcome) ==
  /\ Tell(a, outcome)
  /\ UNCHANGED <<contentVars, bookVars, lateEdits, serverVars>>

Succeeded(a) ==
  /\ isModified' = FALSE
  /\ saveLocation' = "server"
  /\ wsref' = TRUE
  /\ standalone' = FALSE
  /\ Tell(a, "succeeded")
  /\ UNCHANGED <<contentVars, isTemplate, lateEdits, server, lost>>

\* innercb.failed and innercb.cancelled
Unfinished(a, outcome) ==
  /\ isModified' = TRUE
  /\ Tell(a, outcome)
  /\ UNCHANGED <<contentVars, isTemplate, saveLocation, lateEdits, serverVars>>

\* A step of saveProjectToServer() throws before it has sent anything.
Throws(a) ==
  /\ Goto(a, "none")
  /\ Unfinished(a, "failed")
  /\ Settle(a)
  /\ UNCHANGED gPendingSaveRequest

\* A network error.  The onerror handlers read statusText, which throws when no
\* response has come: then innercb.failed is not called.
RequestFails(a, early) ==
  /\ gPendingSaveRequest' = NoSave
  /\ \/ /\ Goto(a, "silent")
        /\ UNCHANGED <<contentVars, bookVars, closeVars, saveVars, lateEdits, siteVars>>
     \/ /\ Goto(a, "none")
        /\ IF early THEN EndEarly(a, "failed") ELSE Unfinished(a, "failed")
  /\ Settle(a)

\* The status of the answer is not a success.
Refused(a, early) ==
  /\ gPendingSaveRequest' = NoSave
  /\ Goto(a, "none")
  /\ IF early THEN EndEarly(a, "failed") ELSE Unfinished(a, "failed")
  /\ Settle(a)

----------------------------------------------------------------------------
(* User actions and the autosave timer.                                    *)

\* doSaveScriptToServer(): the project files are written, and the script is sent.
StartScript(a, c) ==
  /\ \E written \in SUBSET frameModified :
       WriteProjectFiles(written, TRUE, isTemplate, OtherSaveRuns(a))
  /\ isModified' = ModifiedAfterWrite
  /\ gPendingSaveRequest' = a
  /\ phase' = [phase EXCEPT ![a] = "running"]
  /\ caller' = [caller EXCEPT ![a] = c]
  /\ Goto(a, "scriptRequest")
  /\ sync' = [sync EXCEPT ![a] =
       [NoSync EXCEPT !.who = c, !.sent[Script] = ws'[Script],
                      !.asked = Entries, !.got = {Script}]]
  /\ cancelShown' = FALSE
  /\ UNCHANGED <<isTemplate, saveLocation, closeVars, reports, serverVars>>

\* The same when it throws or cannot read the script.
ScriptFails(a, c) ==
  /\ \E written \in SUBSET frameModified, flushed \in BOOLEAN :
       WriteProjectFiles(written, flushed, isTemplate, OtherSaveRuns(a))
  /\ isModified' = ModifiedAfterWrite
  /\ Report(a, c, "failed")
  /\ cancelShown' = FALSE
  /\ Goto(a, "none")
  /\ UNCHANGED <<isTemplate, saveLocation, gPendingSaveRequest, serverVars, sync>>

SaveScript(a, c) == StartScript(a, c) \/ ScriptFails(a, c)

\* doSaveProjectToServer(), whose first step only sets a timer.
Start(a, c, known) ==
  /\ phase' = [phase EXCEPT ![a] = "running"]
  /\ caller' = [caller EXCEPT ![a] = c]
  /\ Goto(a, "checkVersion")
  /\ sync' = [sync EXCEPT ![a] = [NoSync EXCEPT !.who = c, !.known = known]]
  /\ cancelShown' = TRUE
  /\ UNCHANGED <<contentVars, bookVars, gPendingSaveRequest, closeVars, reports,
                 lateEdits, serverVars>>

\* The user is asked; only the login request leaves the window usable.
Ask(a, c, dialog) ==
  /\ phase' = [phase EXCEPT ![a] = IF dialog = "studioDialog" THEN "asking" ELSE "login"]
  /\ caller' = [caller EXCEPT ![a] = c]
  /\ Goto(a, dialog)
  /\ UNCHANGED <<contentVars, bookVars, gPendingSaveRequest, closeVars, reports,
                 lateEdits, siteVars, sync>>

\* cmdSaveProject() for a project kept on the server, once logged in.
SaveToItsPlace(a, c) ==
  \/ standalone /\ SaveScript(a, c)
  \/ ~ standalone /\ wsref /\ Start(a, c, TRUE)
  \/ ~ standalone /\ ~ wsref /\ Ask(a, c, "studioDialog")

\* cmdSaveProject(), for a project kept on the server.
CmdSaveProject(a, c) ==
  /\ Unused(a) /\ ~ IsSavePending /\ saveLocation = "server"
  /\ SaveToItsPlace(a, c) \/ Ask(a, c, "login")

CommandsWork == UserCanAct /\ ~ closeContinuation

UserSaves(a) == CommandsWork /\ CmdSaveProject(a, "user")

\* cmdSaveProjectToServer()
UserSavesToServer(a) ==
  /\ CommandsWork /\ Unused(a) /\ ~ IsSavePending
  /\ \E dialog \in {"studioDialog", "loginToServer"} : Ask(a, "user", dialog)

\* The login is given up or refused: nobody is told.
LoginFails(a) ==
  /\ window = "open" /\ phase[a] = "login"
  /\ phase' = [phase EXCEPT ![a] = "dropped"]
  /\ Goto(a, "none")
  /\ UNCHANGED <<contentVars, bookVars, gPendingSaveRequest, closeVars, caller,
                 reports, lateEdits, siteVars, sync>>

\* onLogin(true): the command starts over, and may find a save pending by now.
LoginSucceeds(a) ==
  /\ window = "open" /\ phase[a] = "login" /\ ~ PickerOpen
  /\ \/ /\ IsSavePending
        /\ Goto(a, "none")
        /\ Report(a, caller[a], "failed")
        /\ UNCHANGED <<contentVars, bookVars, gPendingSaveRequest, lateEdits, siteVars,
                       sync>>
     \/ /\ ~ IsSavePending
        /\ IF step[a] = "login" THEN SaveToItsPlace(a, caller[a])
                                ELSE Ask(a, caller[a], "studioDialog")

\* The dialog names a project to replace or a new one; whether a save is pending
\* is not looked at again.
StudioDialogAccepted(a) ==
  /\ window = "open" /\ step[a] = "studioDialog"
  /\ \E known \in {wsref, FALSE} : Start(a, caller[a], known)

StudioDialogCancelled(a) ==
  /\ window = "open" /\ step[a] = "studioDialog"
  /\ phase' = [phase EXCEPT ![a] = "dropped"]
  /\ Goto(a, "none")
  /\ UNCHANGED <<contentVars, bookVars, gPendingSaveRequest, closeVars, caller,
                 reports, lateEdits, siteVars, sync>>

\* autosave(), the handler of an interval timer; it passes no callback either.
Autosave(a) ==
  /\ window = "open" /\ ~ PickerOpen /\ Unused(a)
  /\ IsProjectModified /\ ~ IsSavePending
  /\ saveLocation = "server" /\ (standalone \/ wsref)
  /\ SaveToItsPlace(a, "user")

----------------------------------------------------------------------------
(* doSaveProjectToServer_step                                              *)

\* "checkVersion", which nothing guards against an exception.
CheckVersion(a) ==
  /\ Timer(a, "checkVersion")
  /\ \/ ~ sync[a].known /\ OnlyGoto(a, "getCommitMessage")
     \/ sync[a].known /\ Send(a, "versionRequest") /\ UNCHANGED sync
     \/ sync[a].known /\ OnlyGoto(a, "silent")

\* "getCommitMessage": the preference tells whether to ask for a message.
MessageStep(a) ==
  \/ /\ Goto(a, "sendModel")
     /\ UNCHANGED phase
  \/ /\ Goto(a, "commitPrompt")
     /\ phase' = [phase EXCEPT ![a] = "asking"]

VersionAnswered(a) ==
  /\ Event(a, "versionRequest")
  /\ \/ /\ gPendingSaveRequest' = NoSave
        /\ MessageStep(a)
        /\ UNCHANGED <<contentVars, bookVars, closeVars, caller, reports, lateEdits,
                       siteVars, sync>>
     \/ Refused(a, TRUE)
     \/ RequestFails(a, TRUE)

GetCommitMessage(a) ==
  /\ Timer(a, "getCommitMessage")
  /\ MessageStep(a)
  /\ UNCHANGED <<contentVars, bookVars, gPendingSaveRequest, closeVars, caller, reports,
                 lateEdits, siteVars, sync>>

PromptAccepted(a) ==
  /\ window = "open" /\ step[a] = "commitPrompt"
  /\ phase' = [phase EXCEPT ![a] = "running"]
  /\ Goto(a, "sendModel")
  /\ UNCHANGED <<contentVars, bookVars, gPendingSaveRequest, closeVars, caller, reports,
                 lateEdits, siteVars, sync>>

PromptCancelled(a) ==
  /\ window = "open" /\ step[a] = "commitPrompt"
  /\ Goto(a, "none")
  /\ EndEarly(a, "cancelled")
  /\ Settle(a)
  /\ UNCHANGED gPendingSaveRequest

\* A fault: the model is copied before the project files are written.
SendModelCopiesFirst(a) ==
  /\ Timer(a, "sendModel")
  /\ \E written \in SUBSET frameModified :
       WriteProjectFiles(written, TRUE, isTemplate, OtherSaveRuns(a))
  /\ isModified' = ModifiedAfterWrite
  /\ sync' = [sync EXCEPT ![a].sent[Model] = ws[Model], ![a].got = {Model}]
  /\ Goto(a, "sendUploadModel")
  /\ UNCHANGED <<isTemplate, saveLocation, gPendingSaveRequest, closeVars, saveVars,
                 siteVars>>

\* "sendModel": saveProjectToServer() runs its first step, which writes the
\* project files and copies the model.
SendModel(a) ==
  /\ Timer(a, "sendModel")
  /\ \E written \in SUBSET frameModified :
       WriteProjectFiles(written, TRUE, isTemplate, OtherSaveRuns(a))
  /\ isModified' = ModifiedAfterWrite
  /\ sync' = [sync EXCEPT ![a].sent[Model] = mem[Model], ![a].got = {Model}]
  /\ Goto(a, "sendUploadModel")
  /\ UNCHANGED <<isTemplate, saveLocation, gPendingSaveRequest, closeVars, saveVars,
                 siteVars>>

\* The same when it throws.
SendModelFails(a) ==
  /\ Timer(a, "sendModel")
  /\ \E written \in SUBSET frameModified, flushed \in BOOLEAN :
       WriteProjectFiles(written, flushed, isTemplate, OtherSaveRuns(a))
  /\ isModified' = TRUE
  /\ Goto(a, "none")
  /\ Tell(a, "failed")
  /\ Settle(a)
  /\ UNCHANGED <<isTemplate, saveLocation, gPendingSaveRequest, serverVars>>

----------------------------------------------------------------------------
(* saveProjectToServer_step                                                *)

\* "sendModel"
SendUploadModel(a) ==
  /\ Timer(a, "sendUploadModel")
  /\ \/ Send(a, "modelRequest") /\ UNCHANGED sync
     \/ Throws(a)

\* The server answers with the files it wants: at least those it does not hold
\* as they are in the project folder.
ModelAccepted(a) ==
  /\ gPendingSaveRequest' = NoSave
  /\ \E asked \in SUBSET Docs :
       /\ {d \in Docs : ~ sync[a].known \/ server[d] # ws[d]} \subseteq asked
       /\ sync' = [sync EXCEPT ![a].asked = asked, ![a].todo = asked]
  /\ Goto(a, "prepareUploads")
  /\ UNCHANGED <<contentVars, bookVars, closeVars, saveVars, lateEdits, siteVars>>

\* A fault: the handler goes on after it has found a bad status.
ModelAnsweredContinues(a) ==
  /\ Event(a, "modelRequest")
  /\ \/ ModelAccepted(a)
     \/ /\ gPendingSaveRequest' = NoSave
        /\ Goto(a, "prepareUploads")
        /\ Unfinished(a, "failed")
        /\ UNCHANGED sync
     \/ RequestFails(a, FALSE)

ModelAnswered(a) ==
  /\ Event(a, "modelRequest")
  /\ ModelAccepted(a) \/ Refused(a, FALSE) \/ RequestFails(a, FALSE)

\* A fault: the next step is not scheduled.
PrepareUploadsStops(a) ==
  /\ Timer(a, "prepareUploads")
  /\ OnlyGoto(a, "none") \/ Throws(a)

PrepareUploads(a) ==
  /\ Timer(a, "prepareUploads")
  /\ OnlyGoto(a, "uploadNextFile") \/ Throws(a)

\* A file that cannot be read is skipped.
SkipFile(a, d) ==
  /\ sync' = [sync EXCEPT ![a].todo = @ \ {d}]
  /\ UNCHANGED <<windowVars, siteVars, step>>

\* saveURI() throws when the file's channel cannot be opened: the caller is told,
\* but what was stored before the call stays.
SaveURIThrows(a) ==
  /\ gPendingSaveRequest' = a
  /\ Goto(a, "refused")
  /\ Unfinished(a, "failed")
  /\ Settle(a)

UploadFile(a, d) ==
  \/ /\ Send(a, "fileUpload")
     /\ sync' = [sync EXCEPT ![a].todo = @ \ {d}, ![a].file = d,
                             ![a].channels = {"file"}]
  \/ SaveURIThrows(a)

UploadNextFile(a) ==
  /\ Timer(a, "uploadNextFile")
  /\ \/ sync[a].todo = {} /\ OnlyGoto(a, "finishUploads")
     \/ \E d \in sync[a].todo : SkipFile(a, d) \/ UploadFile(a, d)
     \/ Throws(a)

----------------------------------------------------------------------------
(* nsWebBrowserPersist and uploadListener                                  *)

\* The file has been read: what it holds is sent to the server.
FileRead(a) ==
  /\ Event(a, "fileUpload") /\ "file" \in sync[a].channels
  /\ sync' = [sync EXCEPT ![a].channels = (@ \ {"file"}) \cup {"fileRead", "server"},
                          ![a].sent[sync[a].file] = ws[sync[a].file]]
  /\ UNCHANGED <<windowVars, siteVars, step>>

\* A fault: any channel that stops is taken for the end of the upload.
ChannelEndsUnmasked(a, c, stored) ==
  /\ Event(a, "fileUpload") /\ c \in sync[a].channels
  /\ sync' = [sync EXCEPT
       ![a].channels = @ \ {c},
       ![a].got = IF c = "server" /\ stored THEN @ \cup {sync[a].file} ELSE @]
  /\ gPendingSaveRequest' = NoSave
  /\ Goto(a, "uploadNextFile")
  /\ UNCHANGED <<contentVars, bookVars, closeVars, saveVars, lateEdits, siteVars>>

\* A channel stops without an error of the network.  The file's does so too when
\* it was empty, or the server's could not be opened; the server's, when the
\* answer is an HTTP error (~ `stored').  The upload is over with the last one.
ChannelEnds(a, c, stored) ==
  /\ Event(a, "fileUpload") /\ c \in sync[a].channels
  /\ sync' = [sync EXCEPT
       ![a].channels = @ \ {c},
       ![a].got = IF c = "server" /\ stored THEN @ \cup {sync[a].file} ELSE @]
  /\ IF sync[a].channels = {c}
       THEN /\ gPendingSaveRequest' = NoSave
            /\ Goto(a, "uploadNextFile")
       ELSE UNCHANGED <<gPendingSaveRequest, step>>
  /\ UNCHANGED <<contentVars, bookVars, closeVars, saveVars, lateEdits, siteVars>>

\* What follows the end of channel c once an outcome has been told: the other
\* channel, if there is one, stays.
CloseChannel(a, c) ==
  LET rest == sync[a].channels \ {c} IN
  IF rest = {} THEN Settle(a)
               ELSE sync' = [sync EXCEPT ![a].channels = rest, ![a].crossed = TRUE]

\* A fault: the error path does not reset gPendingSaveRequest.
ChannelFailsKeepsPending(a, c) ==
  /\ Event(a, "fileUpload") /\ c \in sync[a].channels
  /\ Unfinished(a, "failed")
  /\ CloseChannel(a, c)
  /\ Goto(a, IF sync[a].channels = {c} THEN "none" ELSE "fileUpload")
  /\ UNCHANGED gPendingSaveRequest

\* A channel stops with an error.  A channel left over is still listened to.
ChannelFails(a, c) ==
  /\ Event(a, "fileUpload") /\ c \in sync[a].channels
  /\ gPendingSaveRequest' = NoSave
  /\ Unfinished(a, "failed")
  /\ CloseChannel(a, c)
  /\ Goto(a, IF sync[a].channels = {c} THEN "none" ELSE "fileUpload")

\* A channel closed by cancelSave() stops: each one tells of the cancelling.
ChannelCancelled(a, c) ==
  /\ Event(a, "stopping") /\ c \in sync[a].channels
  /\ gPendingSaveRequest' = NoSave
  /\ Unfinished(a, "cancelled")
  /\ CloseChannel(a, c)
  /\ Goto(a, IF sync[a].channels = {c} THEN "none" ELSE "stopping")

----------------------------------------------------------------------------
\* "finishUploads"
FinishUploads(a) ==
  /\ Timer(a, "finishUploads")
  /\ \/ Send(a, "finishRequest") /\ UNCHANGED sync
     \/ Throws(a)

\* The server receives the finish request, or a script: what was uploaded becomes
\* its copy.
Commit(a) ==
  /\ window = "open" /\ step[a] \in {"finishRequest", "scriptRequest"}
  /\ ~ sync[a].committed
  /\ server' = [e \in Entries |-> IF e \in sync[a].got THEN sync[a].sent[e]
                                                       ELSE server[e]]
  /\ lost' = (lost \ sync[a].got) \cup (sync[a].asked \ (sync[a].got \cup sync[a].todo))
  /\ sync' = [sync EXCEPT ![a].committed = TRUE]
  /\ UNCHANGED <<windowVars, wsref, standalone, cancelShown, step>>

\* A fault: the status of the answer is not looked at.
FinishAnsweredUnchecked(a) ==
  /\ Event(a, "finishRequest")
  /\ \/ /\ gPendingSaveRequest' = NoSave
        /\ \/ Goto(a, "finished") /\ UNCHANGED sync
           \/ Goto(a, "silent") /\ Settle(a)
        /\ UNCHANGED <<contentVars, bookVars, closeVars, saveVars, lateEdits, siteVars>>
     \/ RequestFails(a, FALSE)

\* An answer the handler cannot parse stops it: nobody is told.
FinishAnswered(a) ==
  /\ Event(a, "finishRequest")
  /\ \/ /\ sync[a].committed
        /\ gPendingSaveRequest' = NoSave
        /\ \/ Goto(a, "finished") /\ UNCHANGED sync
           \/ Goto(a, "silent") /\ Settle(a)
        /\ UNCHANGED <<contentVars, bookVars, closeVars, saveVars, lateEdits, siteVars>>
     \/ Refused(a, FALSE)
     \/ RequestFails(a, FALSE)

\* saveScriptToServer(): the one request has been answered.
ScriptAnswered(a) ==
  /\ Event(a, "scriptRequest")
  /\ \/ /\ sync[a].committed
        /\ gPendingSaveRequest' = NoSave
        /\ isModified' = FALSE
        /\ Tell(a, "succeeded")
        /\ Goto(a, "none")
        /\ Settle(a)
        /\ UNCHANGED <<contentVars, isTemplate, saveLocation, lateEdits, serverVars>>
     \/ Refused(a, TRUE)
     \/ RequestFails(a, TRUE)

\* "downloadNextFile", "finishDownloads" and "finished", which do nothing else.
Finished(a) ==
  /\ Timer(a, "finished")
  /\ Succeeded(a)
  /\ Goto(a, "none")
  /\ Settle(a)
  /\ UNCHANGED gPendingSaveRequest

----------------------------------------------------------------------------
(***************************************************************************)
(* cancelPendingSaveRequest(), the status bar's button.  abort() lets the  *)
(* handlers see readyState 4; a timer they set then finds readyState 0.    *)
(* The button is not there for a script, whose save hides it.              *)
(* cancelSave() cancels the channels, which stop later on.                 *)
(***************************************************************************)
CancelPendingSave ==
  /\ UserCanAct /\ cancelShown /\ IsSavePending
  /\ gPendingSaveRequest' = NoSave
  /\ LET a == gPendingSaveRequest IN
     CASE step[a] = "versionRequest" -> Goto(a, "versionAborted")
       [] step[a] \in {"modelRequest", "finishRequest"} -> Goto(a, "aborted")
       [] step[a] = "fileUpload" -> Goto(a, "stopping")
       [] OTHER -> UNCHANGED step
  /\ UNCHANGED <<contentVars, bookVars, closeVars, saveVars, lateEdits, siteVars, sync>>

\* The timers set by the onreadystatechange handlers.
AbortSeen(a) ==
  /\ \/ Timer(a, "versionAborted") /\ EndEarly(a, "cancelled")
     \/ Timer(a, "aborted") /\ Unfinished(a, "cancelled")
  /\ Goto(a, "none")
  /\ Settle(a)
  /\ UNCHANGED gPendingSaveRequest

----------------------------------------------------------------------------
(***************************************************************************)
(* tryToCloseProject().  Refusals (a save is pending, the user answers     *)
(* Cancel) change nothing and are left out, and so is the answer Save for  *)
(* a project that has no save location (FileSave).  Closing the window is  *)
(* quitting with no other window to refuse.  The timers and requests of a  *)
(* window go with it.                                                      *)
(***************************************************************************)
CloseAs(how) ==
  /\ window' = how
  /\ step' = [a \in Saves |-> "none"]
  /\ sync' = [a \in Saves |-> [NoSync EXCEPT !.crossed = sync[a].crossed]]
  /\ UNCHANGED <<contentVars, bookVars, gPendingSaveRequest, closeContinuation,
                 saveVars, lateEdits, siteVars>>

CloseContinues == UserCanAct /\ closeContinuation /\ CloseAs("continued")

ShouldPrompt == IsProjectModified \/ saveLocation = "none"

\* The user closes the window or quits, and nothing is pending.
MayClose == UserCanAct /\ ~ closeContinuation /\ ~ IsSavePending

CloseClean == MayClose /\ ~ ShouldPrompt /\ CloseAs("clean")

CloseDontSave == MayClose /\ ShouldPrompt /\ CloseAs("discarded")

CloseSave(a) == MayClose /\ ShouldPrompt /\ CmdSaveProject(a, "quit")

----------------------------------------------------------------------------
\* loadProject(): a project opened from the server, or a new one.
LoadProject ==
  /\ standalone = FALSE
  /\ wsref \in BOOLEAN
  /\ WindowInit(IF wsref THEN "server" ELSE "none")

\* loadScript(): a script of the server, which has no project there.
LoadScript ==
  /\ standalone = TRUE
  /\ wsref = FALSE
  /\ WindowInit("server")

Init ==
  /\ LoadProject \/ LoadScript
  /\ cancelShown = FALSE
  /\ server = [e \in Entries |-> 0]
  /\ lost = IF standalone THEN Entries \ {Script} ELSE {}
  /\ step = [a \in Saves |-> "none"]
  /\ sync = [a \in Saves |-> NoSync]

Editing ==
  /\ \/ EditModel(SomeSaveRuns)
     \/ \E d \in Docs : \/ EditDoc(d, SomeSaveRuns)
                        \/ CloseTabSaving(d, SomeSaveRuns)
                        \/ CloseTabDiscarding(d)
  /\ Cardinality({e \in Entries : mem'[e] > 0}) <= MaxEdited
  /\ UNCHANGED <<siteVars, step, sync>>

Commands(a) ==
  \/ UserSaves(a) \/ UserSavesToServer(a) \/ Autosave(a)
  \/ LoginFails(a) \/ LoginSucceeds(a)
  \/ StudioDialogAccepted(a) \/ StudioDialogCancelled(a)
  \/ PromptAccepted(a) \/ PromptCancelled(a)

TimerFires(a) ==
  \/ CheckVersion(a) \/ GetCommitMessage(a)
  \/ SendModel(a) \/ SendModelFails(a) \/ SendUploadModel(a)
  \/ PrepareUploads(a) \/ UploadNextFile(a)
  \/ FinishUploads(a) \/ Finished(a) \/ AbortSeen(a)

NetworkAnswers(a) ==
  \/ VersionAnswered(a) \/ ModelAnswered(a) \/ FileRead(a) \/ FinishAnswered(a)
  \/ ScriptAnswered(a)
  \/ \E c \in Channels : \/ \E stored \in BOOLEAN : ChannelEnds(a, c, stored)
                         \/ ChannelFails(a, c)
                         \/ ChannelCancelled(a, c)

Closing ==
  \/ CloseContinues \/ CloseClean \/ CloseDontSave
  \/ \E a \in Saves : CloseSave(a)

Next ==
  \/ Editing
  \/ \E a \in Saves : \/ Commands(a) \/ TimerFires(a)
                      \/ NetworkAnswers(a) \/ Commit(a)
  \/ CancelPendingSave
  \/ Closing

\* Timers fire, and a request is answered or fails in the end; nothing makes a
\* user act or the server accept what it was sent.
Fairness == \A a \in Saves : WF_vars(TimerFires(a)) /\ WF_vars(NetworkAnswers(a))

Spec == Init /\ [][Next]_vars /\ Fairness

----------------------------------------------------------------------------
Phases == {"unused", "asking", "login", "dropped", "running"} \cup Outcomes
Steps == Timers \cup Requests \cup Dialogs \cup Dead \cup {"stopping"}
Syncs == [who : Callers, known : BOOLEAN, sent : [Entries -> Nat],
          asked : SUBSET Entries, todo : SUBSET Docs, file : Entries,
          got : SUBSET Entries, channels : SUBSET Channels, crossed : BOOLEAN,
          committed : BOOLEAN]

\* Type correctness; what is still to be uploaded was asked for, and only an
\* upload has channels.
TypeOK ==
  /\ ContentTypeOK /\ BookTypeOK(Phases, {"none", "server"})
  /\ {wsref, standalone, cancelShown} \subseteq BOOLEAN
  /\ server \in [Entries -> Nat]
  /\ lost \subseteq Entries
  /\ step \in [Saves -> Steps]
  /\ sync \in [Saves -> Syncs]
  /\ \A a \in Saves :
       /\ sync[a].todo \subseteq sync[a].asked
       /\ sync[a].channels # {} <=> step[a] \in {"fileUpload", "stopping"}

\* While gPendingSaveRequest is set, commands and closing are refused.  It holds a
\* request that is on the network; a save that has ended keeps it set only when
\* saveURI() threw, and that save's caller was told that it failed.
PendingHasRequest ==
  window = "open" /\ IsSavePending =>
    \/ step[gPendingSaveRequest] \in Requests
    \/ step[gPendingSaveRequest] = "refused" /\ phase[gPendingSaveRequest] = "failed"

OnServer(e) == server[e] = mem[e]

\* A project that does not ask to be saved is on the server, up to edits made
\* while a save was sending it, to files whose upload the save did not check, and
\* to all but the script of a standalone script.
CleanMeansOnServer ==
  window = "open" /\ ~ ShouldPrompt =>
    \A e \in Entries : OnServer(e) \/ mem[e] <= lateEdits[e] \/ e \in lost

\* The same of a window that closed without asking, or after the save it asked
\* for succeeded; there, documents whose controller.save() threw are missing too.
ClosedMeansOnServer ==
  /\ window = "clean" => \A e \in Entries :
       OnServer(e) \/ mem[e] <= lateEdits[e] \/ e \in lost
  /\ window = "saved" => \A e \in Entries \ frameModified :
       OnServer(e) \/ mem[e] <= lateEdits[e] \/ e \in lost

\* A caller is told one outcome, unless an upload went on after the first one.
ToldOnce == \A a \in Saves : reports[a] > 1 => sync[a].crossed

\* A save that was begun ends with an outcome, except where an exception in a
\* handler of its request swallowed it, a dialog is waiting or the window goes.
SaveToServerEnds ==
  \A a \in Saves : phase[a] = "running" ~>
    \/ phase[a] \in Outcomes \/ step[a] = "silent"
    \/ PickerOpen \/ window # "open"
=============================================================================
