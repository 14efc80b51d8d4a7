-------------------------- MODULE ServerSaveProofs --------------------------
(***************************************************************************)
(* Theorems about ServerSave, for every set of documents and of save       *)
(* attempts: however many saves overlap, what is pending is real, a caller *)
(* is told once, and what does not ask to be saved is on the server.       *)
(***************************************************************************)
EXTENDS ServerSave, TLAPS

BookOK == BookTypeOK(Phases, {"none", "server"})

SiteOK ==
  /\ {wsref, standalone, cancelShown} \subseteq BOOLEAN
  /\ server \in [Entries -> Nat]
  /\ lost \subseteq Entries

StepsOK ==
  /\ step \in [Saves -> Steps]
  /\ sync \in [Saves -> Syncs]
  /\ \A a \in Saves :
       /\ sync[a].todo \subseteq sync[a].asked
       /\ sync[a].channels # {} <=> step[a] \in {"fileUpload", "stopping"}

LEMMA TypeParts == TypeOK <=> ContentTypeOK /\ BookOK /\ SiteOK /\ StepsOK
BY DEF TypeOK, BookOK, SiteOK, StepsOK

LEMMA TypePartsNext == ContentTypeOK' /\ BookOK' /\ SiteOK' /\ StepsOK' => TypeOK'
BY DEF TypeOK, BookOK, SiteOK, StepsOK

----------------------------------------------------------------------------
(* Types.                                                                  *)

LEMMA StepNames ==
  /\ Timers \cup Requests \cup Dialogs \cup Dead \cup {"stopping"} = Steps
  /\ {"user", "quit"} \subseteq Callers /\ Outcomes \subseteq Phases
  /\ "fileUpload" \in Requests
  /\ \A s \in Timers \cup Dialogs \cup Dead \cup (Requests \ {"fileUpload"}) :
       s \notin {"fileUpload", "stopping"}
BY DEF Steps, Timers, Requests, Dialogs, Dead, Callers, Outcomes, Phases

LEMMA NoSyncType == NoSync \in Syncs /\ \A a \in Saves :
  sync[a].crossed \in BOOLEAN => [NoSync EXCEPT !.crossed = sync[a].crossed] \in Syncs
BY DEF NoSync, Syncs, Entries, Callers

\* A step of one attempt.
LEMMA StepsType ==
  ASSUME StepsOK, NEW a \in Saves, NEW s \in Steps, NEW r \in Syncs,
         r.todo \subseteq r.asked,
         r.channels # {} <=> s \in {"fileUpload", "stopping"},
         step' = [step EXCEPT ![a] = s], sync' = [sync EXCEPT ![a] = r]
  PROVE  StepsOK'
BY DEF StepsOK

\* A step that needs no channel, before which there was none.
LEMMA GotoType ==
  ASSUME StepsOK, NEW a \in Saves, NEW s \in Steps,
         step[a] \notin {"fileUpload", "stopping"},
         s \notin {"fileUpload", "stopping"}, Goto(a, s), UNCHANGED sync
  PROVE  StepsOK'
BY DEF StepsOK, Goto

LEMMA SettleType ==
  ASSUME StepsOK, NEW a \in Saves, NEW s \in Steps,
         s \notin {"fileUpload", "stopping"}, Goto(a, s), Settle(a)
  PROVE  StepsOK'
<1>. DEFINE r == [NoSync EXCEPT !.crossed = sync[a].crossed]
<1>1. r \in Syncs
  BY NoSyncType DEF StepsOK, Syncs
<1>2. r.todo = {} /\ r.asked = {} /\ r.channels = {}
  BY DEF NoSync
<1>3. sync' = [sync EXCEPT ![a] = r] /\ step' = [step EXCEPT ![a] = s]
  BY DEF Settle, Goto
<1>. HIDE DEF r
<1>. QED BY <1>1, <1>2, <1>3, StepsType

LEMMA ReportType ==
  ASSUME BookOK, NEW a \in Saves, NEW c \in Callers, NEW o \in Outcomes,
         Report(a, c, o)
  PROVE  /\ closeContinuation' \in BOOLEAN
         /\ window' \in Windows
         /\ phase' \in [Saves -> Phases]
         /\ caller' \in [Saves -> Callers]
         /\ reports' \in [Saves -> Nat]
<1>1. closeContinuation' \in BOOLEAN /\ window' \in Windows
  BY DEF BookOK, BookTypeOK, Report, Windows, closeVars
<1>2. phase' \in [Saves -> Phases] /\ caller' \in [Saves -> Callers]
  BY DEF BookOK, BookTypeOK, Report, Phases, Callers
<1>3. reports' \in [Saves -> Nat]
  BY DEF BookOK, BookTypeOK, Report
<1>. QED BY <1>1, <1>2, <1>3

LEMMA WriteType ==
  ASSUME ContentTypeOK, NEW written \in SUBSET frameModified,
         NEW flushed \in BOOLEAN, NEW t \in BOOLEAN, NEW s \in BOOLEAN,
         WriteProjectFiles(written, flushed, t, s)
  PROVE  ContentTypeOK'
BY DEF ContentTypeOK, WriteProjectFiles

\* Outcomes keep the types of all but the attempt's own step.
LEMMA OutcomeType ==
  ASSUME TypeOK, NEW a \in Saves, NEW o \in Outcomes,
         EndEarly(a, o) \/ Unfinished(a, o) \/ (Succeeded(a) /\ o = "succeeded"),
         gPendingSaveRequest' \in Saves \cup {NoSave}
  PROVE  ContentTypeOK' /\ BookOK' /\ SiteOK'
<1>. USE TypeParts
<1>1. Report(a, sync[a].who, o) /\ cancelShown' = FALSE
  BY DEF EndEarly, Unfinished, Succeeded, Tell
<1>2. sync[a].who \in Callers
  BY DEF StepsOK, Syncs
<1>3. /\ closeContinuation' \in BOOLEAN /\ window' \in Windows
      /\ phase' \in [Saves -> Phases] /\ caller' \in [Saves -> Callers]
      /\ reports' \in [Saves -> Nat]
  BY <1>1, <1>2, ReportType
<1>4. ContentTypeOK'
  BY DEF EndEarly, Unfinished, Succeeded, ContentTypeOK, contentVars
<1>5. isModified' \in BOOLEAN /\ isTemplate' \in BOOLEAN /\ saveLocation' \in {"none", "server"}
  BY DEF EndEarly, Unfinished, Succeeded, bookVars, BookOK, BookTypeOK
<1>6. SiteOK'
  BY <1>1 DEF EndEarly, Unfinished, Succeeded, SiteOK, serverVars
<1>. QED BY <1>3, <1>4, <1>5, <1>6 DEF BookOK, BookTypeOK

\* Commands that ask, or drop, change the phase and the step only.
LEMMA AskType ==
  ASSUME TypeOK, NEW a \in Saves, NEW c \in Callers,
         NEW d \in {"login", "loginToServer", "studioDialog"},
         step[a] \notin {"fileUpload", "stopping"}, Ask(a, c, d)
  PROVE  TypeOK'
<1>. USE TypeParts
<1>1. ContentTypeOK' /\ SiteOK'
  BY DEF Ask, ContentTypeOK, SiteOK, contentVars, siteVars, serverVars
<1>2. BookOK'
  BY DEF Ask, BookOK, BookTypeOK, bookVars, closeVars, Phases
<1>3. StepsOK'
  <2>1. d \in Steps /\ d \notin {"fileUpload", "stopping"}
    BY DEF Steps, Dialogs
  <2>. QED BY <2>1, GotoType DEF Ask
<1>. QED BY <1>1, <1>2, <1>3, TypePartsNext

LEMMA StartScriptType ==
  ASSUME TypeOK, NEW a \in Saves, NEW c \in Callers, StartScript(a, c)
  PROVE  TypeOK'
<1>. USE TypeParts
<1>1. ContentTypeOK'
  <2>1. PICK written \in SUBSET frameModified :
          WriteProjectFiles(written, TRUE, isTemplate, OtherSaveRuns(a))
    BY DEF StartScript
  <2>2. isTemplate \in BOOLEAN /\ OtherSaveRuns(a) \in BOOLEAN
    BY DEF BookOK, BookTypeOK, OtherSaveRuns
  <2>. QED BY <2>1, <2>2, WriteType
<1>2. BookOK'
  BY DEF StartScript, BookOK, BookTypeOK, ModifiedAfterWrite, Phases, closeVars
<1>3. SiteOK'
  BY DEF StartScript, SiteOK, serverVars
<1>4. StepsOK'
  <2>. DEFINE r == [NoSync EXCEPT !.who = c, !.sent[Script] = ws'[Script],
                                  !.asked = Entries, !.got = {Script}]
  <2>1. Script \in Entries /\ ws'[Script] \in Nat
    BY <1>1, ServerAssumption DEF Entries, ContentTypeOK
  <2>2. r \in Syncs /\ r.todo = {} /\ r.channels = {}
    BY <2>1, NoSyncType DEF NoSync, Syncs
  <2>3. sync' = [sync EXCEPT ![a] = r] /\ step' = [step EXCEPT ![a] = "scriptRequest"]
    BY DEF StartScript, Goto
  <2>4. "scriptRequest" \in Steps
    BY DEF Steps, Requests
  <2>. HIDE DEF r
  <2>. QED BY <2>2, <2>3, <2>4, StepsType
<1>. QED BY <1>1, <1>2, <1>3, <1>4, TypePartsNext

LEMMA ScriptFailsType ==
  ASSUME TypeOK, NEW a \in Saves, NEW c \in Callers,
         step[a] \notin {"fileUpload", "stopping"}, ScriptFails(a, c)
  PROVE  TypeOK'
<1>. USE TypeParts
<1>1. ContentTypeOK'
  <2>1. PICK written \in SUBSET frameModified, flushed \in BOOLEAN :
          WriteProjectFiles(written, flushed, isTemplate, OtherSaveRuns(a))
    BY DEF ScriptFails
  <2>2. isTemplate \in BOOLEAN /\ OtherSaveRuns(a) \in BOOLEAN
    BY DEF BookOK, BookTypeOK, OtherSaveRuns
  <2>. QED BY <2>1, <2>2, WriteType
<1>2. BookOK'
  <2>1. Report(a, c, "failed") /\ "failed" \in Outcomes
    BY DEF ScriptFails, Outcomes
  <2>2. isModified' \in BOOLEAN
    BY DEF ScriptFails, ModifiedAfterWrite, BookOK, BookTypeOK
  <2>. QED BY <2>1, <2>2, ReportType DEF ScriptFails, BookOK, BookTypeOK
<1>3. SiteOK'
  BY DEF ScriptFails, SiteOK, serverVars
<1>4. StepsOK'
  <2>1. "none" \in Steps
    BY DEF Steps, Dead
  <2>. QED BY <2>1, GotoType DEF ScriptFails
<1>. QED BY <1>1, <1>2, <1>3, <1>4, TypePartsNext

LEMMA StartType ==
  ASSUME TypeOK, NEW a \in Saves, NEW c \in Callers, NEW known \in BOOLEAN,
         Start(a, c, known)
  PROVE  TypeOK'
<1>. USE TypeParts
<1>1. ContentTypeOK' /\ SiteOK'
  BY DEF Start, ContentTypeOK, SiteOK, contentVars, serverVars
<1>2. BookOK'
  BY DEF Start, BookOK, BookTypeOK, bookVars, closeVars, Phases
<1>3. StepsOK'
  <2>. DEFINE r == [NoSync EXCEPT !.who = c, !.known = known]
  <2>1. r \in Syncs /\ r.todo = {} /\ r.channels = {}
    BY NoSyncType DEF NoSync, Syncs
  <2>2. sync' = [sync EXCEPT ![a] = r] /\ step' = [step EXCEPT ![a] = "checkVersion"]
    BY DEF Start, Goto
  <2>3. "checkVersion" \in Steps
    BY DEF Steps, Timers
  <2>. HIDE DEF r
  <2>. QED BY <2>1, <2>2, <2>3, StepsType
<1>. QED BY <1>1, <1>2, <1>3, TypePartsNext

LEMMA SaveToItsPlaceType ==
  ASSUME TypeOK, NEW a \in Saves, NEW c \in Callers,
         step[a] \notin {"fileUpload", "stopping"}, SaveToItsPlace(a, c)
  PROVE  TypeOK'
BY StartScriptType, ScriptFailsType, StartType, AskType DEF SaveToItsPlace, SaveScript

\* The steps before anything is read to be sent, where no outcome was told.
Early == {"checkVersion", "versionRequest", "versionAborted", "getCommitMessage",
          "commitPrompt", "sendModel"}

\* Which phases go with which steps.
PhaseInv(a) ==
  /\ phase[a] = "unused" => step[a] = "none" /\ ~ Sending(a)
  /\ phase[a] = "login" => step[a] \in {"login", "loginToServer"} /\ ~ Sending(a)
  /\ step[a] = "studioDialog" => phase[a] = "asking"
  /\ step[a] \in Early => phase[a] \in {"running", "asking"} /\ ~ Sending(a)
  /\ step[a] = "refused" => phase[a] = "failed"

LEMMA CmdSaveProjectType ==
  ASSUME TypeOK, NEW a \in Saves, NEW c \in Callers, PhaseInv(a), CmdSaveProject(a, c)
  PROVE  TypeOK'
<1>1. step[a] \notin {"fileUpload", "stopping"}
  BY DEF PhaseInv, CmdSaveProject, Unused
<1>. QED BY <1>1, SaveToItsPlaceType, AskType DEF CmdSaveProject

\* A dialog or a prompt is left.
LEMMA LeaveType ==
  ASSUME TypeOK, NEW a \in Saves, NEW p \in Phases, NEW s \in Steps,
         step[a] \notin {"fileUpload", "stopping"},
         s \notin {"fileUpload", "stopping"},
         phase' = [phase EXCEPT ![a] = p], Goto(a, s),
         UNCHANGED <<contentVars, bookVars, gPendingSaveRequest, closeVars, caller,
                     reports, lateEdits, siteVars, sync>>
  PROVE  TypeOK'
<1>. USE TypeParts
<1>1. ContentTypeOK' /\ SiteOK'
  BY DEF ContentTypeOK, SiteOK, contentVars, siteVars, serverVars
<1>2. BookOK'
  BY DEF BookOK, BookTypeOK, bookVars, closeVars
<1>3. StepsOK'
  BY GotoType
<1>. QED BY <1>1, <1>2, <1>3, TypePartsNext

LEMMA CommandsType ==
  ASSUME TypeOK, NEW a \in Saves, PhaseInv(a), Commands(a)
  PROVE  TypeOK'
<1>. USE TypeParts
<1>0. /\ {"user"} \subseteq Callers /\ caller[a] \in Callers
      /\ {"dropped", "running"} \subseteq Phases
      /\ {"none", "sendModel"} \subseteq Steps
      /\ wsref \in BOOLEAN
  BY DEF BookOK, BookTypeOK, SiteOK, Callers, Phases, Steps, Timers, Dead
<1>1. CASE UserSaves(a)
  BY <1>0, <1>1, CmdSaveProjectType DEF UserSaves
<1>2. CASE UserSavesToServer(a)
  <2>1. step[a] = "none"
    BY <1>2 DEF UserSavesToServer, Unused, PhaseInv
  <2>. QED BY <1>0, <1>2, <2>1, AskType DEF UserSavesToServer
<1>3. CASE Autosave(a)
  <2>1. step[a] = "none"
    BY <1>3 DEF Autosave, Unused, PhaseInv
  <2>. QED BY <1>0, <1>3, <2>1, SaveToItsPlaceType DEF Autosave
<1>4. CASE LoginFails(a)
  <2>1. step[a] \notin {"fileUpload", "stopping"}
    BY <1>4 DEF LoginFails, PhaseInv
  <2>. QED BY <1>0, <1>4, <2>1, LeaveType DEF LoginFails
<1>5. CASE LoginSucceeds(a)
  <2>1. step[a] \notin {"fileUpload", "stopping"}
    BY <1>5 DEF LoginSucceeds, PhaseInv
  <2>2. CASE /\ Goto(a, "none") /\ Report(a, caller[a], "failed")
             /\ UNCHANGED <<contentVars, bookVars, gPendingSaveRequest, lateEdits,
                            siteVars, sync>>
    <3>1. ContentTypeOK' /\ SiteOK'
      BY <2>2 DEF ContentTypeOK, SiteOK, contentVars, siteVars, serverVars
    <3>2. BookOK'
      <4>1. "failed" \in Outcomes
        BY DEF Outcomes
      <4>. QED BY <1>0, <2>2, <4>1, ReportType DEF BookOK, BookTypeOK, bookVars
    <3>3. StepsOK'
      BY <1>0, <2>1, <2>2, GotoType
    <3>. QED BY <3>1, <3>2, <3>3, TypePartsNext
  <2>. QED BY <1>0, <1>5, <2>1, <2>2, SaveToItsPlaceType, AskType DEF LoginSucceeds
<1>6. CASE StudioDialogAccepted(a)
  BY <1>0, <1>6, StartType DEF StudioDialogAccepted
<1>7. CASE StudioDialogCancelled(a)
  BY <1>0, <1>7, LeaveType DEF StudioDialogCancelled
<1>8. CASE PromptAccepted(a)
  BY <1>0, <1>8, LeaveType DEF PromptAccepted
<1>9. CASE PromptCancelled(a)
  <2>1. "cancelled" \in Outcomes /\ gPendingSaveRequest' \in Saves \cup {NoSave}
    BY <1>9 DEF PromptCancelled, Outcomes, BookOK, BookTypeOK
  <2>2. StepsOK'
    BY <1>0, <1>9, SettleType DEF PromptCancelled
  <2>. QED BY <1>9, <2>1, <2>2, OutcomeType, TypePartsNext DEF PromptCancelled
<1>. QED BY <1>1, <1>2, <1>3, <1>4, <1>5, <1>6, <1>7, <1>8, <1>9 DEF Commands

LEMMA ThrowsType ==
  ASSUME TypeOK, NEW a \in Saves, Throws(a) \/ SaveURIThrows(a)
  PROVE  TypeOK'
<1>. USE TypeParts
<1>1. "failed" \in Outcomes /\ gPendingSaveRequest' \in Saves \cup {NoSave}
  BY DEF Throws, SaveURIThrows, Outcomes, BookOK, BookTypeOK
<1>2. StepsOK'
  <2>1. {"none", "refused"} \subseteq Steps \ {"fileUpload", "stopping"}
    BY DEF Steps, Dead
  <2>. QED BY <2>1, SettleType DEF Throws, SaveURIThrows
<1>. QED BY <1>1, <1>2, OutcomeType, TypePartsNext DEF Throws, SaveURIThrows

\* A request that came to nothing.
LEMMA NoAnswerType ==
  ASSUME TypeOK, NEW a \in Saves, NEW early \in BOOLEAN,
         RequestFails(a, early) \/ Refused(a, early)
  PROVE  TypeOK'
<1>. USE TypeParts
<1>1. "failed" \in Outcomes /\ gPendingSaveRequest' \in Saves \cup {NoSave}
  BY DEF RequestFails, Refused, Outcomes
<1>2. StepsOK'
  <2>1. {"none", "silent"} \subseteq Steps
    BY DEF Steps, Dead
  <2>. QED BY <2>1, SettleType DEF RequestFails, Refused
<1>3. CASE EndEarly(a, "failed") \/ Unfinished(a, "failed")
  BY <1>1, <1>2, <1>3, OutcomeType, TypePartsNext
<1>4. CASE UNCHANGED <<contentVars, bookVars, closeVars, saveVars, lateEdits, siteVars>>
  <2>1. ContentTypeOK' /\ SiteOK'
    BY <1>4 DEF ContentTypeOK, SiteOK, contentVars, siteVars, serverVars
  <2>2. BookOK'
    BY <1>1, <1>4 DEF BookOK, BookTypeOK, bookVars, closeVars, saveVars
  <2>. QED BY <1>2, <2>1, <2>2, TypePartsNext
<1>. QED BY <1>3, <1>4 DEF RequestFails, Refused

\* All but what is pending and the attempt's own step stays.
LEMMA StillType ==
  ASSUME TypeOK, gPendingSaveRequest' \in Saves \cup {NoSave}, StepsOK',
         UNCHANGED <<contentVars, bookVars, closeVars, saveVars, lateEdits, siteVars>>
  PROVE  TypeOK'
<1>. USE TypeParts
<1>1. ContentTypeOK' /\ SiteOK'
  BY DEF ContentTypeOK, SiteOK, contentVars, siteVars, serverVars
<1>2. BookOK'
  BY DEF BookOK, BookTypeOK, bookVars, closeVars, saveVars
<1>. QED BY <1>1, <1>2, TypePartsNext

\* A step that leaves one attempt at step s with the closures r.
LEMMA MoveType ==
  ASSUME TypeOK, NEW a \in Saves, NEW s \in Steps, NEW r \in Syncs,
         gPendingSaveRequest' \in Saves \cup {NoSave},
         r.todo \subseteq r.asked,
         r.channels # {} <=> s \in {"fileUpload", "stopping"},
         step' = [step EXCEPT ![a] = s], sync' = [sync EXCEPT ![a] = r],
         UNCHANGED <<contentVars, bookVars, closeVars, saveVars, lateEdits, siteVars>>
  PROVE  TypeOK'
BY StepsType, StillType, TypeParts

\* The same without a change of the closures.
LEMMA GoType ==
  ASSUME TypeOK, NEW a \in Saves, NEW s \in Steps,
         gPendingSaveRequest' \in Saves \cup {NoSave},
         step[a] \notin {"fileUpload", "stopping"},
         s \notin {"fileUpload", "stopping"}, Goto(a, s),
         UNCHANGED <<contentVars, bookVars, closeVars, saveVars, lateEdits, siteVars, sync>>
  PROVE  TypeOK'
BY GotoType, StillType, TypeParts

LEMMA OnlyGotoType ==
  ASSUME TypeOK, NEW a \in Saves, NEW s \in Steps,
         step[a] \notin {"fileUpload", "stopping"},
         s \notin {"fileUpload", "stopping"}, OnlyGoto(a, s)
  PROVE  TypeOK'
<1>1. gPendingSaveRequest' \in Saves \cup {NoSave}
  BY DEF OnlyGoto, windowVars, TypeOK, BookTypeOK
<1>2. UNCHANGED <<contentVars, bookVars, closeVars, saveVars, lateEdits, siteVars, sync>>
  BY DEF OnlyGoto, windowVars, contentVars, bookVars, closeVars, saveVars
<1>. QED BY <1>1, <1>2, GoType DEF OnlyGoto

LEMMA SendType ==
  ASSUME TypeOK, NEW a \in Saves, NEW s \in Steps,
         step[a] \notin {"fileUpload", "stopping"},
         s \notin {"fileUpload", "stopping"}, Send(a, s), UNCHANGED sync
  PROVE  TypeOK'
BY GoType DEF Send

LEMMA SendModelType ==
  ASSUME TypeOK, NEW a \in Saves, SendModel(a)
  PROVE  TypeOK'
<1>. USE TypeParts
<1>1. ContentTypeOK'
  <2>1. PICK written \in SUBSET frameModified :
          WriteProjectFiles(written, TRUE, isTemplate, OtherSaveRuns(a))
    BY DEF SendModel
  <2>2. isTemplate \in BOOLEAN /\ OtherSaveRuns(a) \in BOOLEAN
    BY DEF BookOK, BookTypeOK, OtherSaveRuns
  <2>. QED BY <2>1, <2>2, WriteType
<1>2. BookOK'
  BY DEF SendModel, BookOK, BookTypeOK, ModifiedAfterWrite, closeVars, saveVars
<1>3. SiteOK'
  BY DEF SendModel, SiteOK, siteVars, serverVars
<1>4. StepsOK'
  <2>. DEFINE sent == [sync[a].sent EXCEPT ![Model] = mem[Model]]
              r == [sync[a] EXCEPT !.sent = sent, !.got = {Model}]
  <2>1. sent \in [Entries -> Nat] /\ {Model} \subseteq Entries
    BY DEF Entries, ContentTypeOK, StepsOK, Syncs
  <2>2. sync[a] \in Syncs /\ sync[a].todo \subseteq sync[a].asked /\ sync[a].channels = {}
    BY DEF SendModel, Timer, StepsOK
  <2>3. sync' = [sync EXCEPT ![a] = r]
    BY DEF SendModel
  <2>4. r \in Syncs /\ r.todo \subseteq r.asked /\ r.channels = {}
    <3>. HIDE DEF sent
    <3>. QED BY <2>1, <2>2 DEF Syncs
  <2>5. "sendUploadModel" \in Steps /\ step' = [step EXCEPT ![a] = "sendUploadModel"]
    BY DEF SendModel, Goto, Steps, Timers
  <2>. HIDE DEF r
  <2>. QED BY <2>3, <2>4, <2>5, StepsType
<1>. QED BY <1>1, <1>2, <1>3, <1>4, TypePartsNext

LEMMA SendModelFailsType ==
  ASSUME TypeOK, NEW a \in Saves, SendModelFails(a)
  PROVE  TypeOK'
<1>. USE TypeParts
<1>1. ContentTypeOK'
  <2>1. PICK written \in SUBSET frameModified, flushed \in BOOLEAN :
          WriteProjectFiles(written, flushed, isTemplate, OtherSaveRuns(a))
    BY DEF SendModelFails
  <2>2. isTemplate \in BOOLEAN /\ OtherSaveRuns(a) \in BOOLEAN
    BY DEF BookOK, BookTypeOK, OtherSaveRuns
  <2>. QED BY <2>1, <2>2, WriteType
<1>2. BookOK'
  <2>1. Report(a, sync[a].who, "failed") /\ "failed" \in Outcomes
    BY DEF SendModelFails, Tell, Outcomes
  <2>2. sync[a].who \in Callers
    BY DEF StepsOK, Syncs
  <2>. QED BY <2>1, <2>2, ReportType DEF SendModelFails, BookOK, BookTypeOK
<1>3. SiteOK'
  BY DEF SendModelFails, Tell, SiteOK, serverVars
<1>4. StepsOK'
  <2>1. "none" \in Steps
    BY DEF Steps, Dead
  <2>. QED BY <2>1, SettleType DEF SendModelFails
<1>. QED BY <1>1, <1>2, <1>3, <1>4, TypePartsNext

LEMMA UploadNextFileType ==
  ASSUME TypeOK, NEW a \in Saves, UploadNextFile(a)
  PROVE  TypeOK'
<1>. USE TypeParts
<1>0. /\ step[a] = "uploadNextFile" /\ sync[a] \in Syncs
      /\ sync[a].todo \subseteq sync[a].asked /\ sync[a].channels = {}
      /\ sync[a].todo \subseteq Docs /\ Docs \subseteq Entries
      /\ step = [step EXCEPT ![a] = "uploadNextFile"]
      /\ {"uploadNextFile", "finishUploads", "fileUpload"} \subseteq Steps
  BY DEF UploadNextFile, Timer, StepsOK, Syncs, Entries, Steps, Timers, Requests, Dead
<1>1. CASE OnlyGoto(a, "finishUploads") \/ Throws(a)
  BY <1>0, <1>1, OnlyGotoType, ThrowsType
<1>2. ASSUME NEW d \in sync[a].todo, SkipFile(a, d)
      PROVE  TypeOK'
  <2>. DEFINE r == [sync[a] EXCEPT !.todo = @ \ {d}]
  <2>1. r \in Syncs /\ r.todo \subseteq r.asked /\ r.channels = {}
    BY <1>0 DEF Syncs
  <2>2. sync' = [sync EXCEPT ![a] = r]
    BY <1>2 DEF SkipFile
  <2>3. /\ UNCHANGED <<contentVars, bookVars, closeVars, saveVars, lateEdits, siteVars>>
        /\ gPendingSaveRequest' \in Saves \cup {NoSave}
    BY <1>2 DEF SkipFile, windowVars, contentVars, bookVars, closeVars, saveVars,
                BookOK, BookTypeOK
  <2>4. step' = [step EXCEPT ![a] = "uploadNextFile"]
    BY <1>0, <1>2 DEF SkipFile
  <2>. HIDE DEF r
  <2>. QED BY <1>0, <2>1, <2>2, <2>3, <2>4, MoveType
<1>3. ASSUME NEW d \in sync[a].todo, UploadFile(a, d)
      PROVE  TypeOK'
  <2>1. CASE Send(a, "fileUpload") /\ sync' = [sync EXCEPT ![a].todo = @ \ {d},
                             ![a].file = d, ![a].channels = {"file"}]
    <3>. DEFINE r == [sync[a] EXCEPT !.todo = @ \ {d}, !.file = d, !.channels = {"file"}]
    <3>1. r \in Syncs /\ r.todo \subseteq r.asked /\ r.channels # {}
      BY <1>0 DEF Syncs, Channels
    <3>2. sync' = [sync EXCEPT ![a] = r]
      BY <2>1 DEF StepsOK
    <3>3. /\ UNCHANGED <<contentVars, bookVars, closeVars, saveVars, lateEdits, siteVars>>
          /\ gPendingSaveRequest' \in Saves \cup {NoSave}
          /\ step' = [step EXCEPT ![a] = "fileUpload"]
      BY <2>1 DEF Send, Goto
    <3>. HIDE DEF r
    <3>. QED BY <1>0, <3>1, <3>2, <3>3, MoveType
  <2>2. CASE SaveURIThrows(a)
    BY <2>2, ThrowsType
  <2>. QED BY <1>3, <2>1, <2>2 DEF UploadFile
<1>. QED BY <1>1, <1>2, <1>3 DEF UploadNextFile

LEMMA TimerFiresType ==
  ASSUME TypeOK, NEW a \in Saves, TimerFires(a)
  PROVE  TypeOK'
<1>. USE TypeParts
<1>0. /\ {"getCommitMessage", "versionRequest", "silent", "none", "sendModel",
          "commitPrompt", "modelRequest", "uploadNextFile", "finishRequest"}
           \subseteq Steps \ {"fileUpload", "stopping"}
      /\ "asking" \in Phases
      /\ \A s \in Timers : s \notin {"fileUpload", "stopping"}
  BY DEF Steps, Timers, Requests, Dialogs, Dead, Phases
<1>1. CASE CheckVersion(a)
  <2>1. step[a] \notin {"fileUpload", "stopping"}
    BY <1>1 DEF CheckVersion, Timer
  <2>. QED BY <1>0, <1>1, <2>1, OnlyGotoType, SendType DEF CheckVersion
<1>2. CASE GetCommitMessage(a)
  <2>1. step[a] \notin {"fileUpload", "stopping"} /\ phase[a] \in Phases
    BY <1>2 DEF GetCommitMessage, Timer, BookOK, BookTypeOK
  <2>2. phase = [phase EXCEPT ![a] = phase[a]]
    BY DEF BookOK, BookTypeOK
  <2>. QED BY <1>0, <1>2, <2>1, <2>2, LeaveType DEF GetCommitMessage, MessageStep
<1>3. CASE SendModel(a) \/ SendModelFails(a)
  BY <1>3, SendModelType, SendModelFailsType
<1>4. CASE SendUploadModel(a)
  <2>1. step[a] \notin {"fileUpload", "stopping"}
    BY <1>4 DEF SendUploadModel, Timer
  <2>. QED BY <1>0, <1>4, <2>1, SendType, ThrowsType DEF SendUploadModel
<1>5. CASE PrepareUploads(a)
  <2>1. step[a] \notin {"fileUpload", "stopping"}
    BY <1>5 DEF PrepareUploads, Timer
  <2>. QED BY <1>0, <1>5, <2>1, OnlyGotoType, ThrowsType DEF PrepareUploads
<1>6. CASE UploadNextFile(a)
  BY <1>6, UploadNextFileType
<1>7. CASE FinishUploads(a)
  <2>1. step[a] \notin {"fileUpload", "stopping"}
    BY <1>7 DEF FinishUploads, Timer
  <2>. QED BY <1>0, <1>7, <2>1, SendType, ThrowsType DEF FinishUploads
<1>8. CASE Finished(a) \/ AbortSeen(a)
  <2>1. \E o \in Outcomes : EndEarly(a, o) \/ Unfinished(a, o) \/ (Succeeded(a) /\ o = "succeeded")
    BY <1>8 DEF Finished, AbortSeen, Outcomes
  <2>2. gPendingSaveRequest' \in Saves \cup {NoSave}
    BY <1>8 DEF Finished, AbortSeen, BookOK, BookTypeOK
  <2>3. StepsOK'
    BY <1>0, <1>8, SettleType DEF Finished, AbortSeen
  <2>. QED BY <2>1, <2>2, <2>3, OutcomeType, TypePartsNext
<1>. QED BY <1>1, <1>2, <1>3, <1>4, <1>5, <1>6, <1>7, <1>8 DEF TimerFires

LEMMA ModelAcceptedType ==
  ASSUME TypeOK, NEW a \in Saves, step[a] = "modelRequest", ModelAccepted(a)
  PROVE  TypeOK'
<1>. PICK asked \in SUBSET Docs :
       sync' = [sync EXCEPT ![a].asked = asked, ![a].todo = asked]
  BY DEF ModelAccepted
<1>. DEFINE r == [sync[a] EXCEPT !.asked = asked, !.todo = asked]
<1>1. sync[a] \in Syncs /\ sync[a].channels = {}
  BY DEF TypeOK
<1>2. r \in Syncs /\ r.todo \subseteq r.asked /\ r.channels = {}
  BY <1>1 DEF Syncs, Entries
<1>3. sync' = [sync EXCEPT ![a] = r]
  BY DEF TypeOK
<1>4. "prepareUploads" \in Steps /\ step' = [step EXCEPT ![a] = "prepareUploads"]
  BY DEF ModelAccepted, Goto, Steps, Timers
<1>. HIDE DEF r
<1>. QED BY <1>2, <1>3, <1>4, MoveType DEF ModelAccepted

LEMMA FileReadType ==
  ASSUME TypeOK, NEW a \in Saves, FileRead(a)
  PROVE  TypeOK'
<1>. DEFINE sent == [sync[a].sent EXCEPT ![sync[a].file] = ws[sync[a].file]]
            channels == (sync[a].channels \ {"file"}) \cup {"fileRead", "server"}
            r == [sync[a] EXCEPT !.channels = channels, !.sent = sent]
<1>1. sync[a] \in Syncs /\ sync[a].todo \subseteq sync[a].asked
  BY DEF TypeOK
<1>2. sent \in [Entries -> Nat]
  BY <1>1 DEF Syncs, TypeOK, ContentTypeOK
<1>3. r \in Syncs /\ r.todo \subseteq r.asked /\ r.channels # {}
  <2>1. channels \in SUBSET Channels /\ channels # {}
    BY <1>1 DEF Syncs, Channels
  <2>. HIDE DEF sent, channels
  <2>. QED BY <1>1, <1>2, <2>1 DEF Syncs
<1>4. sync' = [sync EXCEPT ![a] = r]
  BY DEF FileRead, TypeOK
<1>5. /\ "fileUpload" \in Steps /\ step[a] = "fileUpload"
      /\ step' = [step EXCEPT ![a] = "fileUpload"]
  BY DEF FileRead, Event, Steps, Requests, TypeOK
<1>6. /\ UNCHANGED <<contentVars, bookVars, closeVars, saveVars, lateEdits, siteVars>>
      /\ gPendingSaveRequest' \in Saves \cup {NoSave}
  BY DEF FileRead, windowVars, contentVars, bookVars, closeVars, saveVars,
         TypeOK, BookTypeOK
<1>. HIDE DEF r
<1>. QED BY <1>3, <1>4, <1>5, <1>6, MoveType

LEMMA ChannelEndsType ==
  ASSUME TypeOK, NEW a \in Saves, NEW c \in Channels, NEW stored \in BOOLEAN,
         ChannelEnds(a, c, stored)
  PROVE  TypeOK'
<1>. DEFINE got == IF c = "server" /\ stored THEN sync[a].got \cup {sync[a].file}
                                              ELSE sync[a].got
            channels == sync[a].channels \ {c}
            r == [sync[a] EXCEPT !.channels = channels, !.got = got]
            s == IF sync[a].channels = {c} THEN "uploadNextFile" ELSE "fileUpload"
<1>1. /\ sync[a] \in Syncs /\ sync[a].todo \subseteq sync[a].asked
      /\ step[a] = "fileUpload" /\ step = [step EXCEPT ![a] = "fileUpload"]
      /\ c \in sync[a].channels
  BY DEF TypeOK, ChannelEnds, Event
<1>2. got \in SUBSET Entries /\ channels \in SUBSET Channels
  BY <1>1 DEF Syncs
<1>3. r \in Syncs /\ r.todo \subseteq r.asked /\ r.channels = channels
  <2>. HIDE DEF got, channels
  <2>. QED BY <1>1, <1>2 DEF Syncs
<1>4. sync' = [sync EXCEPT ![a] = r]
  BY DEF ChannelEnds, TypeOK
<1>5. s \in Steps /\ (channels # {} <=> s \in {"fileUpload", "stopping"})
  BY <1>1 DEF Steps, Timers, Requests
<1>6. step' = [step EXCEPT ![a] = s]
  BY <1>1 DEF ChannelEnds, Goto
<1>7. gPendingSaveRequest' \in Saves \cup {NoSave}
  BY DEF ChannelEnds, TypeOK, BookTypeOK
<1>. HIDE DEF r, s, channels
<1>. QED BY <1>3, <1>4, <1>5, <1>6, <1>7, MoveType DEF ChannelEnds

\* A channel ends, and with it the attempt or not.
LEMMA CloseChannelType ==
  ASSUME TypeOK, NEW a \in Saves, NEW c \in sync[a].channels,
         NEW s \in {"fileUpload", "stopping"}, step[a] = s, CloseChannel(a, c),
         Goto(a, IF sync[a].channels = {c} THEN "none" ELSE s)
  PROVE  StepsOK'
<1>. USE TypeParts
<1>1. CASE sync[a].channels = {c}
  <2>1. "none" \in Steps
    BY DEF Steps, Dead
  <2>2. Settle(a)
    BY <1>1 DEF CloseChannel
  <2>. QED BY <1>1, <2>1, <2>2, SettleType
<1>2. CASE sync[a].channels # {c}
  <2>. DEFINE channels == sync[a].channels \ {c}
              r == [sync[a] EXCEPT !.channels = channels, !.crossed = TRUE]
  <2>1. sync[a] \in Syncs /\ sync[a].todo \subseteq sync[a].asked
    BY DEF StepsOK
  <2>2. channels \in SUBSET Channels /\ channels # {}
    BY <1>2, <2>1 DEF Syncs
  <2>3. r \in Syncs /\ r.todo \subseteq r.asked /\ r.channels # {}
    <3>. HIDE DEF channels
    <3>. QED BY <2>1, <2>2 DEF Syncs
  <2>4. sync' = [sync EXCEPT ![a] = r]
    BY <2>2 DEF CloseChannel, StepsOK
  <2>5. s \in Steps /\ step' = [step EXCEPT ![a] = s]
    BY <1>2 DEF Goto, Steps, Requests
  <2>. HIDE DEF r
  <2>. QED BY <2>3, <2>4, <2>5, StepsType
<1>. QED BY <1>1, <1>2

LEMMA NetworkAnswersType ==
  ASSUME TypeOK, NEW a \in Saves, NetworkAnswers(a)
  PROVE  TypeOK'
<1>. USE TypeParts
<1>0. /\ {"sendModel", "commitPrompt", "none", "silent", "finished"}
           \subseteq Steps \ {"fileUpload", "stopping"}
      /\ "asking" \in Phases
      /\ {"succeeded", "failed", "cancelled"} \subseteq Outcomes
      /\ gPendingSaveRequest \in Saves \cup {NoSave}
  BY DEF Steps, Timers, Dialogs, Dead, Phases, Outcomes, BookOK, BookTypeOK
<1>1. CASE VersionAnswered(a)
  <2>1. step[a] \notin {"fileUpload", "stopping"} /\ phase[a] \in Phases
    BY <1>1 DEF VersionAnswered, Event, BookOK, BookTypeOK
  <2>2. CASE /\ gPendingSaveRequest' = NoSave /\ MessageStep(a)
             /\ UNCHANGED <<contentVars, bookVars, closeVars, caller, reports,
                            lateEdits, siteVars, sync>>
    <3>1. ContentTypeOK' /\ SiteOK'
      BY <2>2 DEF ContentTypeOK, SiteOK, contentVars, siteVars, serverVars
    <3>2. BookOK'
      BY <1>0, <2>2 DEF MessageStep, BookOK, BookTypeOK, bookVars, closeVars
    <3>3. StepsOK'
      BY <1>0, <2>1, <2>2, GotoType DEF MessageStep
    <3>. QED BY <3>1, <3>2, <3>3, TypePartsNext
  <2>. QED BY <1>1, <2>2, NoAnswerType DEF VersionAnswered
<1>2. CASE ModelAnswered(a)
  <2>1. step[a] = "modelRequest"
    BY <1>2 DEF ModelAnswered, Event
  <2>. QED BY <1>2, <2>1, NoAnswerType, ModelAcceptedType DEF ModelAnswered
<1>3. CASE FileRead(a)
  BY <1>3, FileReadType
<1>4. CASE FinishAnswered(a)
  <2>1. step[a] \notin {"fileUpload", "stopping"}
    BY <1>4 DEF FinishAnswered, Event
  <2>2. CASE /\ gPendingSaveRequest' = NoSave
             /\ \/ Goto(a, "finished") /\ UNCHANGED sync
                \/ Goto(a, "silent") /\ Settle(a)
             /\ UNCHANGED <<contentVars, bookVars, closeVars, saveVars, lateEdits, siteVars>>
    <3>1. StepsOK'
      BY <1>0, <2>1, <2>2, GotoType, SettleType
    <3>. QED BY <2>2, <3>1, StillType
  <2>. QED BY <1>4, <2>2, NoAnswerType DEF FinishAnswered
<1>5. CASE ScriptAnswered(a)
  <2>1. CASE /\ gPendingSaveRequest' = NoSave /\ isModified' = FALSE
             /\ Tell(a, "succeeded") /\ Goto(a, "none") /\ Settle(a)
             /\ UNCHANGED <<contentVars, isTemplate, saveLocation, lateEdits, serverVars>>
    <3>1. Report(a, sync[a].who, "succeeded") /\ sync[a].who \in Callers
      BY <2>1 DEF Tell, StepsOK, Syncs
    <3>2. BookOK'
      BY <1>0, <2>1, <3>1, ReportType DEF BookOK, BookTypeOK
    <3>3. ContentTypeOK' /\ SiteOK'
      BY <2>1 DEF Tell, ContentTypeOK, SiteOK, contentVars, serverVars
    <3>4. StepsOK'
      BY <1>0, <2>1, SettleType
    <3>. QED BY <3>2, <3>3, <3>4, TypePartsNext
  <2>. QED BY <1>5, <2>1, NoAnswerType DEF ScriptAnswered
<1>6. ASSUME NEW c \in Channels, NEW stored \in BOOLEAN, ChannelEnds(a, c, stored)
      PROVE  TypeOK'
  BY <1>6, ChannelEndsType
<1>7. ASSUME NEW c \in Channels, ChannelFails(a, c)
      PROVE  TypeOK'
  <2>1. StepsOK'
    BY <1>7, CloseChannelType DEF ChannelFails, Event
  <2>. QED BY <1>0, <1>7, <2>1, OutcomeType, TypePartsNext DEF ChannelFails
<1>8. ASSUME NEW c \in Channels, ChannelCancelled(a, c)
      PROVE  TypeOK'
  <2>1. StepsOK'
    BY <1>8, CloseChannelType DEF ChannelCancelled, Event
  <2>. QED BY <1>0, <1>8, <2>1, OutcomeType, TypePartsNext DEF ChannelCancelled
<1>. QED BY <1>1, <1>2, <1>3, <1>4, <1>5, <1>6, <1>7, <1>8 DEF NetworkAnswers

LEMMA CommitType ==
  ASSUME TypeOK, NEW a \in Saves, Commit(a)
  PROVE  TypeOK'
<1>. USE TypeParts
<1>1. ContentTypeOK' /\ BookOK'
  BY DEF Commit, windowVars, ContentTypeOK, BookOK, BookTypeOK
<1>2. SiteOK'
  <2>1. \A e \in sync[a].got : sync[a].sent[e] \in Nat
    BY DEF StepsOK, Syncs
  <2>2. sync[a].asked \subseteq Entries
    BY DEF StepsOK, Syncs
  <2>. QED BY <2>1, <2>2 DEF Commit, SiteOK
<1>3. StepsOK'
  <2>. DEFINE r == [sync[a] EXCEPT !.committed = TRUE]
  <2>1. sync[a] \in Syncs
    BY DEF StepsOK
  <2>2. r \in Syncs /\ r.todo = sync[a].todo /\ r.asked = sync[a].asked
        /\ r.channels = sync[a].channels
    BY <2>1 DEF Syncs
  <2>3. sync' = [sync EXCEPT ![a] = r] /\ step' = [step EXCEPT ![a] = step[a]]
    BY DEF Commit, StepsOK
  <2>. HIDE DEF r
  <2>. QED BY <2>2, <2>3, StepsType DEF StepsOK
<1>. QED BY <1>1, <1>2, <1>3, TypePartsNext

LEMMA CancelType ==
  ASSUME TypeOK, CancelPendingSave
  PROVE  TypeOK'
<1>. USE TypeParts
<1>. DEFINE a == gPendingSaveRequest
<1>1. a \in Saves /\ gPendingSaveRequest' \in Saves \cup {NoSave} /\ UNCHANGED sync
  BY DEF CancelPendingSave, IsSavePending, BookOK, BookTypeOK
<1>2. \/ step[a] = "versionRequest" /\ Goto(a, "versionAborted")
      \/ step[a] \in {"modelRequest", "finishRequest"} /\ Goto(a, "aborted")
      \/ step[a] = "fileUpload" /\ Goto(a, "stopping")
      \/ UNCHANGED step
  BY DEF CancelPendingSave
<1>3. {"versionAborted", "aborted", "stopping"} \subseteq Steps
  BY DEF Steps, Timers
<1>4. StepsOK'
  <2>1. CASE UNCHANGED step
    BY <1>1, <2>1 DEF StepsOK
  <2>2. CASE step[a] = "fileUpload" /\ Goto(a, "stopping")
    BY <1>1, <1>3, <2>2 DEF StepsOK, Goto
  <2>. QED BY <1>1, <1>2, <1>3, <2>1, <2>2, GotoType
<1>. QED BY <1>1, <1>4, StillType DEF CancelPendingSave

LEMMA CloseAsType ==
  ASSUME TypeOK, NEW how \in Windows, CloseAs(how)
  PROVE  TypeOK'
<1>. USE TypeParts
<1>1. ContentTypeOK' /\ BookOK' /\ SiteOK'
  BY DEF CloseAs, ContentTypeOK, BookOK, BookTypeOK, SiteOK, contentVars, bookVars,
         saveVars, siteVars, serverVars
<1>2. "none" \in Steps
  BY DEF Steps, Dead
<1>3. \A a \in Saves : /\ sync'[a] = [NoSync EXCEPT !.crossed = sync[a].crossed]
                       /\ sync'[a] \in Syncs /\ step'[a] = "none"
  BY NoSyncType DEF CloseAs, StepsOK, Syncs
<1>4. step' \in [Saves -> Steps] /\ sync' \in [Saves -> Syncs]
  BY <1>2, <1>3 DEF CloseAs
<1>5. \A a \in Saves : sync'[a].todo = {} /\ sync'[a].channels = {}
  BY <1>3 DEF NoSync
<1>6. StepsOK'
  BY <1>3, <1>4, <1>5 DEF StepsOK
<1>. QED BY <1>1, <1>6, TypePartsNext

LEMMA ClosingType ==
  ASSUME TypeOK, \A a \in Saves : PhaseInv(a), Closing
  PROVE  TypeOK'
<1>1. CASE CloseContinues \/ CloseClean \/ CloseDontSave
  BY <1>1, CloseAsType DEF CloseContinues, CloseClean, CloseDontSave, Windows
<1>2. CASE \E a \in Saves : CloseSave(a)
  BY <1>2, CmdSaveProjectType DEF CloseSave, Callers
<1>. QED BY <1>1, <1>2 DEF Closing

LEMMA EditingType ==
  ASSUME TypeOK, Editing
  PROVE  TypeOK'
<1>. USE TypeParts
<1>. Model \in Entries /\ Docs \subseteq Entries
  BY DEF Entries
<1>1. SiteOK' /\ StepsOK'
  BY DEF Editing, SiteOK, StepsOK, siteVars, serverVars
<1>2. CASE EditModel(SomeSaveRuns)
  <2>1. ContentTypeOK'
    BY <1>2 DEF EditModel, NoteEdit, ContentTypeOK
  <2>2. BookOK'
    BY <1>2 DEF EditModel, BookOK, BookTypeOK, closeVars, saveVars
  <2>. QED BY <1>1, <2>1, <2>2, TypePartsNext
<1>3. ASSUME NEW d \in Docs, EditDoc(d, SomeSaveRuns)
      PROVE  TypeOK'
  <2>1. ContentTypeOK'
    BY <1>3 DEF EditDoc, NoteEdit, ContentTypeOK
  <2>2. BookOK'
    BY <1>3 DEF EditDoc, BookOK, BookTypeOK, closeVars, saveVars
  <2>. QED BY <1>1, <2>1, <2>2, TypePartsNext
<1>4. ASSUME NEW d \in Docs, CloseTabSaving(d, SomeSaveRuns)
      PROVE  TypeOK'
  <2>1. ContentTypeOK'
    <3>1. ws' \in [Entries -> Nat] /\ mem' \in [Entries -> Nat]
      BY <1>4 DEF CloseTabSaving, ContentTypeOK
    <3>2. lateEdits' \in [Entries -> Nat]
      BY <1>4, <3>1 DEF CloseTabSaving, NoteEdit, ContentTypeOK
    <3>. QED BY <1>4, <3>1, <3>2 DEF CloseTabSaving, ContentTypeOK
  <2>2. BookOK'
    BY <1>4 DEF CloseTabSaving, BookOK, BookTypeOK, closeVars, saveVars
  <2>. QED BY <1>1, <2>1, <2>2, TypePartsNext
<1>5. ASSUME NEW d \in Docs, CloseTabDiscarding(d)
      PROVE  TypeOK'
  <2>1. ContentTypeOK'
    <3>. DEFINE late == IF lateEdits[d] > ws[d] THEN ws[d] ELSE lateEdits[d]
    <3>1. late \in Nat /\ ws[d] \in Nat
      BY DEF ContentTypeOK
    <3>2. /\ mem' = [mem EXCEPT ![d] = ws[d]]
          /\ lateEdits' = [lateEdits EXCEPT ![d] = late]
          /\ frameModified' = frameModified \ {d}
          /\ UNCHANGED <<ws, wsTemplate>>
      BY <1>5 DEF CloseTabDiscarding
    <3>. HIDE DEF late
    <3>. QED BY <3>1, <3>2 DEF ContentTypeOK
  <2>2. BookOK'
    BY <1>5 DEF CloseTabDiscarding, BookOK, BookTypeOK, closeVars, saveVars
  <2>. QED BY <1>1, <2>1, <2>2, TypePartsNext
<1>. QED BY <1>2, <1>3, <1>4, <1>5 DEF Editing

LEMMA InitType == Init => TypeOK
<1>. SUFFICES ASSUME Init PROVE TypeOK
  OBVIOUS
<1>1. /\ wsref \in BOOLEAN /\ standalone \in BOOLEAN
      /\ \E location \in {"none", "server"} : WindowInit(location)
  BY DEF Init, LoadProject, LoadScript
<1>2. ContentTypeOK
  <2>1. mem \in [Entries -> Nat]
    BY <1>1 DEF WindowInit
  <2>. QED BY <1>1, <2>1 DEF WindowInit, ContentTypeOK
<1>3. BookOK
  <2>. PICK location \in {"none", "server"} : WindowInit(location)
    BY <1>1
  <2>. QED BY DEF WindowInit, BookOK, BookTypeOK, Phases, Windows, Callers
<1>4. SiteOK
  BY <1>1 DEF Init, SiteOK
<1>5. StepsOK
  <2>1. "none" \in Steps /\ "none" \notin {"fileUpload", "stopping"}
    BY DEF Steps, Dead
  <2>2. NoSync.todo = {} /\ NoSync.channels = {}
    BY DEF NoSync
  <2>3. NoSync \in Syncs
    BY NoSyncType
  <2>4. step = [a \in Saves |-> "none"] /\ sync = [a \in Saves |-> NoSync]
    BY DEF Init
  <2>. QED BY <2>1, <2>2, <2>3, <2>4 DEF StepsOK
<1>. QED BY <1>2, <1>3, <1>4, <1>5, TypeParts

LEMMA StutterType == TypeOK /\ UNCHANGED vars => TypeOK'
BY DEF TypeOK, ContentTypeOK, BookTypeOK, vars, windowVars, siteVars, serverVars

LEMMA NextType ==
  ASSUME TypeOK, \A a \in Saves : PhaseInv(a), Next
  PROVE  TypeOK'
BY EditingType, CommandsType, TimerFiresType, NetworkAnswersType, CommitType,
   CancelType, ClosingType DEF Next

----------------------------------------------------------------------------
(***************************************************************************)
(* Which attempt was told, and what is pending.                            *)
(***************************************************************************)

\* An attempt whose outcome was told is over, or its other channel goes on.
ToldInv(a) ==
  /\ reports[a] > 0 => /\ phase[a] \in Outcomes
                       /\ step[a] \in {"none", "refused"} \/ sync[a].crossed
  /\ reports[a] > 1 => sync[a].crossed

Control(a) == PhaseInv(a) /\ ToldInv(a)

\* What is pending is on the network or was refused by saveURI().
PendingInv ==
  IsSavePending => step[gPendingSaveRequest] \in Requests \cup {"refused"}

\* Nobody but a moves.
OnlyMoves(a) ==
  \A b \in Saves \ {a} : /\ step'[b] = step[b] /\ sync'[b] = sync[b]
                         /\ phase'[b] = phase[b] /\ reports'[b] = reports[b]

LEMMA FunctionTypes ==
  ASSUME TypeOK
  PROVE  /\ step \in [Saves -> Steps] /\ sync \in [Saves -> Syncs]
         /\ phase \in [Saves -> Phases] /\ reports \in [Saves -> Nat]
BY DEF TypeOK, BookTypeOK

LEMMA OthersControl ==
  ASSUME NEW a \in Saves, \A b \in Saves : Control(b), OnlyMoves(a), Control(a)'
  PROVE  \A b \in Saves : Control(b)'
BY DEF OnlyMoves, Control, PhaseInv, ToldInv, Sending

\* The step of an attempt that has nothing pending leaves what is pending.
LEMMA PendingKept ==
  ASSUME NEW a \in Saves, PendingInv, step[a] \notin Requests \cup {"refused"},
         OnlyMoves(a), gPendingSaveRequest \in Saves \cup {NoSave},
         UNCHANGED gPendingSaveRequest
  PROVE  PendingInv'
BY DEF PendingInv, OnlyMoves, IsSavePending

LEMMA PendingGone == ASSUME gPendingSaveRequest' = NoSave PROVE PendingInv'
BY DEF PendingInv, IsSavePending

LEMMA SettleEffect ==
  ASSUME TypeOK, NEW a \in Saves, Settle(a)
  PROVE  /\ sync'[a].crossed = sync[a].crossed /\ sync'[a].got = {}
         /\ sync'[a].todo = {} /\ sync'[a].channels = {}
         /\ sync'[a].committed = FALSE
         /\ \A b \in Saves \ {a} : sync'[b] = sync[b]
BY FunctionTypes DEF Settle, NoSync

\* A caller is told: nothing if it was told before, but for a crossed upload.
LEMMA ReportControl ==
  ASSUME TypeOK, NEW a \in Saves, NEW c, NEW o \in Outcomes, Report(a, c, o),
         Control(a), step[a] \notin {"none", "refused"} \/ phase[a] = "unused",
         step'[a] \notin Early \cup {"studioDialog"},
         step'[a] \in {"none", "refused"} \/ sync'[a].crossed,
         step'[a] = "refused" => o = "failed",
         sync[a].crossed => sync'[a].crossed,
         \A b \in Saves \ {a} : step'[b] = step[b] /\ sync'[b] = sync[b]
  PROVE  Control(a)' /\ OnlyMoves(a)
<1>1. /\ phase' = [phase EXCEPT ![a] = o] /\ reports' = [reports EXCEPT ![a] = @ + 1]
      /\ phase \in [Saves -> Phases] /\ reports \in [Saves -> Nat]
  BY FunctionTypes DEF Report
<1>2. o \notin {"unused", "login"} /\ phase'[a] = o /\ reports'[a] = reports[a] + 1
      /\ reports[a] \in Nat /\ "unused" \notin Outcomes
  BY <1>1 DEF Outcomes
<1>3. PhaseInv(a)'
  BY <1>2 DEF PhaseInv
<1>4. reports[a] > 0 => sync[a].crossed
  BY <1>2 DEF Control, ToldInv
<1>5. ToldInv(a)'
  BY <1>2, <1>4 DEF ToldInv
<1>. QED BY <1>1, <1>3, <1>5 DEF OnlyMoves, Control

\* An attempt that was not told goes on to run, or to a later step.
LEMMA RunControl ==
  ASSUME TypeOK, NEW a \in Saves, Control(a),
         phase[a] \in {"unused", "login", "asking", "running"},
         phase'[a] \in {"running", "asking", "dropped", "login"},
         reports'[a] = reports[a], PhaseInv(a)'
  PROVE  Control(a)'
<1>1. reports[a] \in Nat /\ phase[a] \notin Outcomes
  BY FunctionTypes DEF Outcomes
<1>2. reports[a] = 0
  BY <1>1 DEF Control, ToldInv
<1>. QED BY <1>2 DEF Control, ToldInv

\* The attempt moves on to step s, keeping its phase.
LEMMA GoControl ==
  ASSUME TypeOK, NEW a \in Saves, NEW s, Goto(a, s), Control(a),
         phase[a] \notin {"unused", "login"},
         step[a] \notin {"none", "refused"}, s \notin {"studioDialog", "refused"},
         s \in Early => step[a] \in Early /\ sync'[a] = sync[a],
         s = "none" \/ sync'[a].crossed = sync[a].crossed,
         sync[a].crossed => sync'[a].crossed,
         UNCHANGED <<phase, reports>>,
         \A b \in Saves \ {a} : sync'[b] = sync[b]
  PROVE  Control(a)' /\ OnlyMoves(a)
<1>1. step'[a] = s /\ \A b \in Saves \ {a} : step'[b] = step[b]
  BY FunctionTypes DEF Goto
<1>2. reports[a] \in Nat
  BY FunctionTypes
<1>. QED BY <1>1, <1>2 DEF Control, PhaseInv, ToldInv, OnlyMoves, Sending

\* What the steps below show of an attempt's step.
Controlled(a) == Control(a)' /\ OnlyMoves(a) /\ PendingInv'

LEMMA AskControl ==
  ASSUME TypeOK, PendingInv, NEW a \in Saves, Control(a), phase[a] \in {"unused", "login"},
         NEW c, NEW d \in {"login", "loginToServer", "studioDialog"}, Ask(a, c, d)
  PROVE  Controlled(a)
<1>1. /\ step' = [step EXCEPT ![a] = d]
      /\ phase' = [phase EXCEPT ![a] = IF d = "studioDialog" THEN "asking" ELSE "login"]
      /\ UNCHANGED <<reports, sync, gPendingSaveRequest>>
  BY DEF Ask, Goto
<1>2. step'[a] = d /\ phase'[a] = (IF d = "studioDialog" THEN "asking" ELSE "login")
  BY <1>1, FunctionTypes
<1>3. OnlyMoves(a)
  BY <1>1, FunctionTypes DEF OnlyMoves
<1>4. ~ Sending(a) /\ step[a] \in {"none", "login", "loginToServer"}
  BY DEF Control, PhaseInv
<1>5. PhaseInv(a)'
  BY <1>1, <1>2, <1>4 DEF PhaseInv, Early, Sending
<1>6. Control(a)'
  BY <1>1, <1>2, <1>5, RunControl
<1>7. PendingInv'
  <2>1. step[a] \notin Requests \cup {"refused"}
    BY <1>4 DEF Requests
  <2>. QED BY <1>1, <1>3, <2>1, PendingKept DEF TypeOK, BookTypeOK
<1>. QED BY <1>3, <1>6, <1>7 DEF Controlled

LEMMA StartControl ==
  ASSUME TypeOK, PendingInv, NEW a \in Saves, Control(a),
         phase[a] \in {"unused", "login"} \/ step[a] = "studioDialog",
         NEW c, NEW known, Start(a, c, known)
  PROVE  Controlled(a)
<1>1. /\ step' = [step EXCEPT ![a] = "checkVersion"]
      /\ phase' = [phase EXCEPT ![a] = "running"]
      /\ sync' = [sync EXCEPT ![a] = [NoSync EXCEPT !.who = c, !.known = known]]
      /\ UNCHANGED <<reports, gPendingSaveRequest>>
  BY DEF Start, Goto
<1>2. step'[a] = "checkVersion" /\ phase'[a] = "running" /\ sync'[a].got = {}
  BY <1>1, FunctionTypes DEF NoSync
<1>3. OnlyMoves(a)
  BY <1>1, FunctionTypes DEF OnlyMoves
<1>4. step[a] \in {"none", "login", "loginToServer", "studioDialog"}
      /\ phase[a] \in {"unused", "login", "asking"}
  BY DEF Control, PhaseInv
<1>5. PhaseInv(a)'
  BY <1>2 DEF PhaseInv, Sending
<1>6. Control(a)'
  BY <1>1, <1>2, <1>4, <1>5, RunControl
<1>7. PendingInv'
  <2>1. step[a] \notin Requests \cup {"refused"}
    BY <1>4 DEF Requests
  <2>. QED BY <1>1, <1>3, <2>1, PendingKept DEF TypeOK, BookTypeOK
<1>. QED BY <1>3, <1>6, <1>7 DEF Controlled

LEMMA StartScriptControl ==
  ASSUME TypeOK, PendingInv, NEW a \in Saves, Control(a), phase[a] \in {"unused", "login"},
         NEW c, StartScript(a, c)
  PROVE  Controlled(a)
<1>1. /\ step' = [step EXCEPT ![a] = "scriptRequest"]
      /\ phase' = [phase EXCEPT ![a] = "running"]
      /\ gPendingSaveRequest' = a
      /\ UNCHANGED reports
      /\ \A b \in Saves \ {a} : sync'[b] = sync[b]
  BY FunctionTypes DEF StartScript, Goto
<1>2. step'[a] = "scriptRequest" /\ phase'[a] = "running"
  BY <1>1, FunctionTypes
<1>3. OnlyMoves(a)
  BY <1>1, FunctionTypes DEF OnlyMoves
<1>4. PhaseInv(a)'
  BY <1>2 DEF PhaseInv, Early
<1>5. Control(a)'
  BY <1>1, <1>2, <1>4, RunControl
<1>6. PendingInv'
  BY <1>1, <1>2 DEF PendingInv, Requests
<1>. QED BY <1>3, <1>5, <1>6 DEF Controlled

LEMMA ScriptFailsControl ==
  ASSUME TypeOK, PendingInv, NEW a \in Saves, Control(a), phase[a] \in {"unused", "login"},
         NEW c, ScriptFails(a, c)
  PROVE  Controlled(a)
<1>1. step' = [step EXCEPT ![a] = "none"] /\ UNCHANGED <<sync, gPendingSaveRequest>>
  BY DEF ScriptFails, Goto
<1>2. step'[a] = "none" /\ \A b \in Saves \ {a} : step'[b] = step[b]
  BY <1>1, FunctionTypes
<1>3. Control(a)' /\ OnlyMoves(a)
  <2>1. step[a] \notin {"none", "refused"} \/ phase[a] = "unused"
    BY DEF Control, PhaseInv
  <2>2. "failed" \in Outcomes /\ Report(a, c, "failed") /\ "none" \notin Early
    BY DEF ScriptFails, Outcomes, Early
  <2>. QED BY <1>1, <1>2, <2>1, <2>2, ReportControl
<1>4. PendingInv'
  <2>1. step[a] \notin Requests \cup {"refused"}
    BY DEF Requests, Control, PhaseInv
  <2>. QED BY <1>1, <1>3, <2>1, PendingKept DEF TypeOK, BookTypeOK
<1>. QED BY <1>3, <1>4 DEF Controlled

LEMMA SaveToItsPlaceControl ==
  ASSUME TypeOK, PendingInv, NEW a \in Saves, Control(a), phase[a] \in {"unused", "login"},
         NEW c, SaveToItsPlace(a, c)
  PROVE  Controlled(a)
BY StartScriptControl, ScriptFailsControl, StartControl, AskControl
   DEF SaveToItsPlace, SaveScript

LEMMA CmdSaveProjectControl ==
  ASSUME TypeOK, PendingInv, NEW a \in Saves, Control(a), NEW c, CmdSaveProject(a, c)
  PROVE  Controlled(a)
BY SaveToItsPlaceControl, AskControl DEF CmdSaveProject, Unused

\* An attempt that keeps or loses its dialog and is not told.
LEMMA LeaveControl ==
  ASSUME TypeOK, PendingInv, NEW a \in Saves, Control(a),
         step[a] \notin Requests \cup {"refused"},
         phase[a] \in {"login", "asking", "running"},
         NEW p \in {"dropped", "running", "asking"}, NEW s,
         s \notin {"studioDialog", "refused"},
         s \in Early => step[a] \in Early /\ p # "dropped",
         phase' = [phase EXCEPT ![a] = p], Goto(a, s),
         UNCHANGED <<gPendingSaveRequest, reports, sync>>
  PROVE  Controlled(a)
<1>1. step'[a] = s /\ phase'[a] = p /\ sync'[a] = sync[a]
  BY FunctionTypes DEF Goto
<1>2. OnlyMoves(a)
  BY FunctionTypes DEF OnlyMoves, Goto
<1>3. PhaseInv(a)'
  BY <1>1 DEF PhaseInv, Control, Sending
<1>4. Control(a)'
  BY <1>1, <1>3, RunControl
<1>5. PendingInv'
  BY <1>2, PendingKept DEF TypeOK, BookTypeOK
<1>. QED BY <1>2, <1>4, <1>5 DEF Controlled

\* An outcome is told, and what was pending is let go or was not this attempt's.
LEMMA OutcomeControl ==
  ASSUME TypeOK, PendingInv, NEW a \in Saves, Control(a), NEW c, NEW o \in Outcomes,
         Report(a, c, o), step[a] \notin {"none", "refused"}, Goto(a, "none"), Settle(a),
         \/ gPendingSaveRequest' = NoSave
         \/ UNCHANGED gPendingSaveRequest /\ step[a] \notin Requests \cup {"refused"}
  PROVE  Controlled(a)
<1>1. step'[a] = "none" /\ \A b \in Saves \ {a} : step'[b] = step[b]
  BY FunctionTypes DEF Goto
<1>2. "none" \notin Early 
  BY DEF Early
<1>3. Control(a)' /\ OnlyMoves(a)
  BY <1>1, <1>2, SettleEffect, ReportControl
<1>4. PendingInv'
  BY <1>3, PendingKept, PendingGone DEF TypeOK, BookTypeOK
<1>. QED BY <1>3, <1>4 DEF Controlled

LEMMA CommandsControl ==
  ASSUME TypeOK, PendingInv, NEW a \in Saves, Control(a), Commands(a)
  PROVE  Controlled(a)
<1>1. CASE UserSaves(a)
  BY <1>1, CmdSaveProjectControl DEF UserSaves
<1>2. CASE UserSavesToServer(a)
  BY <1>2, AskControl DEF UserSavesToServer, Unused
<1>3. CASE Autosave(a)
  BY <1>3, SaveToItsPlaceControl DEF Autosave, Unused
<1>4. CASE LoginFails(a)
  <2>1. step[a] \notin Requests \cup {"refused"}
    BY <1>4 DEF LoginFails, Requests, Control, PhaseInv
  <2>. QED BY <1>4, <2>1, LeaveControl DEF LoginFails, Early
<1>5. CASE LoginSucceeds(a)
  <2>1. phase[a] = "login" /\ step[a] \in {"login", "loginToServer"}
    BY <1>5 DEF LoginSucceeds, Control, PhaseInv
  <2>2. CASE /\ Goto(a, "none") /\ Report(a, caller[a], "failed")
             /\ UNCHANGED <<gPendingSaveRequest, sync>>
    <3>1. step'[a] = "none" /\ \A b \in Saves \ {a} : step'[b] = step[b]
      BY <2>2, FunctionTypes DEF Goto
    <3>2. "none" \notin Early /\ "failed" \in Outcomes
          /\ step[a] \notin Requests \cup {"refused"}
      BY <2>1 DEF Early, Outcomes, Requests
    <3>3. Control(a)' /\ OnlyMoves(a)
      BY <2>1, <2>2, <3>1, <3>2, ReportControl
    <3>4. PendingInv'
      BY <2>2, <3>2, <3>3, PendingKept DEF TypeOK, BookTypeOK
    <3>. QED BY <3>3, <3>4 DEF Controlled
  <2>. QED BY <1>5, <2>1, <2>2, SaveToItsPlaceControl, AskControl DEF LoginSucceeds
<1>6. CASE StudioDialogAccepted(a)
  BY <1>6, StartControl DEF StudioDialogAccepted
<1>7. CASE StudioDialogCancelled(a)
  <2>1. step[a] \notin Requests \cup {"refused"} /\ phase[a] = "asking"
    BY <1>7 DEF StudioDialogCancelled, Requests, Control, PhaseInv
  <2>. QED BY <1>7, <2>1, LeaveControl DEF StudioDialogCancelled, Early
<1>8. CASE PromptAccepted(a)
  <2>1. /\ step[a] \notin Requests \cup {"refused"} /\ step[a] \in Early
        /\ phase[a] \in {"running", "asking"}
    BY <1>8 DEF PromptAccepted, Requests, Early, Control, PhaseInv
  <2>. QED BY <1>8, <2>1, LeaveControl DEF PromptAccepted
<1>9. CASE PromptCancelled(a)
  <2>1. step[a] \notin Requests \cup {"refused", "none"} /\ "cancelled" \in Outcomes
    BY <1>9 DEF PromptCancelled, Requests, Outcomes
  <2>. QED BY <1>9, <2>1, OutcomeControl DEF PromptCancelled, EndEarly, Tell
<1>. QED BY <1>1, <1>2, <1>3, <1>4, <1>5, <1>6, <1>7, <1>8, <1>9 DEF Commands

\* A step of an attempt that has nothing pending.
LEMMA TimerGoes ==
  ASSUME TypeOK, PendingInv, NEW a \in Saves, Control(a),
         step[a] \in Timers, NEW s, Goto(a, s),
         s \notin {"studioDialog", "none", "refused"},
         s \in Early => step[a] \in Early /\ sync'[a] = sync[a],
         sync'[a].crossed = sync[a].crossed,
         \A b \in Saves \ {a} : sync'[b] = sync[b],
         UNCHANGED <<phase, reports>>,
         \/ UNCHANGED gPendingSaveRequest
         \/ gPendingSaveRequest' = a /\ s \in Requests
  PROVE  Controlled(a)
<1>1. step[a] \notin Requests \cup {"refused", "none", "login", "loginToServer"}
  BY DEF Timers, Requests
<1>2. phase[a] \notin {"unused", "login"}
  BY <1>1 DEF Control, PhaseInv
<1>3. Control(a)' /\ OnlyMoves(a)
  BY <1>1, <1>2, GoControl
<1>4. PendingInv'
  <2>1. step'[a] = s
    BY FunctionTypes DEF Goto
  <2>. QED BY <1>1, <1>3, <2>1, PendingKept DEF TypeOK, BookTypeOK, PendingInv
<1>. QED BY <1>3, <1>4 DEF Controlled

LEMMA OnlyGotoControl ==
  ASSUME TypeOK, PendingInv, NEW a \in Saves, Control(a), step[a] \in Timers,
         NEW s, s \notin {"studioDialog", "none", "refused"}, s \in Early => step[a] \in Early,
         OnlyGoto(a, s)
  PROVE  Controlled(a)
BY TimerGoes DEF OnlyGoto, windowVars

LEMMA SendControl ==
  ASSUME TypeOK, PendingInv, NEW a \in Saves, Control(a), step[a] \in Timers,
         NEW s \in Requests, s \in Early => step[a] \in Early /\ UNCHANGED sync,
         Send(a, s), sync'[a].crossed = sync[a].crossed,
         \A b \in Saves \ {a} : sync'[b] = sync[b]
  PROVE  Controlled(a)
<1>1. s \notin {"studioDialog", "none", "refused"}
  BY DEF Requests
<1>. QED BY <1>1, TimerGoes DEF Send, saveVars

LEMMA ThrowsControl ==
  ASSUME TypeOK, PendingInv, NEW a \in Saves, Control(a), step[a] \in Timers, Throws(a)
  PROVE  Controlled(a)
<1>1. step[a] \notin Requests \cup {"refused", "none"} /\ "failed" \in Outcomes
  BY DEF Timers, Requests, Outcomes
<1>. QED BY <1>1, OutcomeControl DEF Throws, Unfinished, Tell

\* What was stored before saveURI() threw stays; the caller knows.
LEMMA SaveURIThrowsControl ==
  ASSUME TypeOK, PendingInv, NEW a \in Saves, Control(a), step[a] \in Timers,
         SaveURIThrows(a)
  PROVE  Controlled(a)
<1>1. step[a] \notin {"none", "refused"} /\ "failed" \in Outcomes
      /\ "refused" \notin Early
  BY DEF Timers, Outcomes, Early
<1>2. step'[a] = "refused" /\ \A b \in Saves \ {a} : step'[b] = step[b]
  BY FunctionTypes DEF SaveURIThrows, Goto
<1>3. Report(a, sync[a].who, "failed") /\ Settle(a) /\ gPendingSaveRequest' = a
  BY DEF SaveURIThrows, Unfinished, Tell
<1>4. Control(a)' /\ OnlyMoves(a)
  BY <1>1, <1>2, <1>3, SettleEffect, ReportControl
<1>5. PendingInv'
  BY <1>2, <1>3 DEF PendingInv
<1>. QED BY <1>4, <1>5 DEF Controlled

LEMMA TimerFiresControl ==
  ASSUME TypeOK, PendingInv, NEW a \in Saves, Control(a), TimerFires(a)
  PROVE  Controlled(a)
<1>. USE DEF Timer
<1>1. CASE CheckVersion(a)
  <2>1. step[a] \in Timers /\ step[a] \in Early
        /\ "versionRequest" \in Requests /\ "silent" \notin Early
    BY <1>1 DEF CheckVersion, Timers, Early, Requests
  <2>. QED BY <1>1, <2>1, OnlyGotoControl, SendControl DEF CheckVersion
<1>2. CASE GetCommitMessage(a)
  <2>1. /\ step[a] \notin Requests \cup {"refused"} /\ step[a] \in Early
        /\ phase[a] \in {"running", "asking"} /\ phase = [phase EXCEPT ![a] = phase[a]]
    BY <1>2, FunctionTypes DEF GetCommitMessage, Requests, Early, Control, PhaseInv
  <2>. QED BY <1>2, <2>1, LeaveControl DEF GetCommitMessage, MessageStep
<1>3. CASE SendModel(a)
  <2>1. step[a] \in Timers /\ "sendUploadModel" \notin Early
    BY <1>3 DEF SendModel, Timers, Early
  <2>2. sync'[a].crossed = sync[a].crossed /\ \A b \in Saves \ {a} : sync'[b] = sync[b]
    BY <1>3, FunctionTypes DEF SendModel, Syncs
  <2>. QED BY <1>3, <2>1, <2>2, TimerGoes DEF SendModel, saveVars
<1>4. CASE SendModelFails(a)
  <2>1. step[a] \notin Requests \cup {"refused", "none"} /\ "failed" \in Outcomes
    BY <1>4 DEF SendModelFails, Requests, Outcomes
  <2>. QED BY <1>4, <2>1, OutcomeControl DEF SendModelFails, Tell
<1>5. CASE SendUploadModel(a)
  <2>1. step[a] \in Timers /\ "modelRequest" \in Requests /\ "modelRequest" \notin Early
    BY <1>5 DEF SendUploadModel, Timers, Requests, Early
  <2>. QED BY <1>5, <2>1, SendControl, ThrowsControl DEF SendUploadModel
<1>6. CASE PrepareUploads(a)
  <2>1. step[a] \in Timers /\ "uploadNextFile" \notin Early
    BY <1>6 DEF PrepareUploads, Timers, Early
  <2>. QED BY <1>6, <2>1, OnlyGotoControl, ThrowsControl DEF PrepareUploads
<1>7. CASE UploadNextFile(a)
  <2>1. /\ step[a] \in Timers
        /\ {"fileUpload", "finishUploads", "uploadNextFile"} \cap Early = {}
        /\ "fileUpload" \in Requests
    BY <1>7 DEF UploadNextFile, Timers, Requests, Early
  <2>2. CASE OnlyGoto(a, "finishUploads") \/ Throws(a)
    BY <2>1, <2>2, OnlyGotoControl, ThrowsControl
  <2>3. ASSUME NEW d \in sync[a].todo, SkipFile(a, d)
        PROVE  Controlled(a)
    <3>1. sync'[a].crossed = sync[a].crossed /\ \A b \in Saves \ {a} : sync'[b] = sync[b]
      BY <2>3, FunctionTypes DEF SkipFile, Syncs
    <3>2. Goto(a, "uploadNextFile")
      BY <1>7, <2>3, FunctionTypes DEF SkipFile, UploadNextFile, Goto
    <3>. QED BY <2>1, <2>3, <3>1, <3>2, TimerGoes DEF SkipFile, windowVars
  <2>4. ASSUME NEW d \in sync[a].todo, UploadFile(a, d)
        PROVE  Controlled(a)
    <3>1. CASE SaveURIThrows(a)
      BY <2>1, <3>1, SaveURIThrowsControl
    <3>2. CASE /\ Send(a, "fileUpload")
               /\ sync' = [sync EXCEPT ![a].todo = @ \ {d}, ![a].file = d,
                                       ![a].channels = {"file"}]
      <4>1. sync'[a].crossed = sync[a].crossed /\ \A b \in Saves \ {a} : sync'[b] = sync[b]
        BY <3>2, FunctionTypes DEF Syncs
      <4>. QED BY <2>1, <3>2, <4>1, SendControl
    <3>. QED BY <2>4, <3>1, <3>2 DEF UploadFile
  <2>. QED BY <1>7, <2>2, <2>3, <2>4 DEF UploadNextFile
<1>8. CASE FinishUploads(a)
  <2>1. step[a] \in Timers /\ "finishRequest" \in Requests /\ "finishRequest" \notin Early
    BY <1>8 DEF FinishUploads, Timers, Requests, Early
  <2>. QED BY <1>8, <2>1, SendControl, ThrowsControl DEF FinishUploads
<1>9. CASE Finished(a) \/ AbortSeen(a)
  <2>1. step[a] \notin Requests \cup {"refused", "none"}
        /\ {"succeeded", "cancelled"} \subseteq Outcomes
    BY <1>9 DEF Finished, AbortSeen, Requests, Outcomes
  <2>. QED BY <1>9, <2>1, OutcomeControl
        DEF Finished, Succeeded, AbortSeen, EndEarly, Unfinished, Tell
<1>. QED BY <1>1, <1>2, <1>3, <1>4, <1>5, <1>6, <1>7, <1>8, <1>9 DEF TimerFires

\* An answer that lets what was pending go, and goes on.
LEMMA AnswerGoes ==
  ASSUME TypeOK, NEW a \in Saves, Control(a),
         step[a] \in Requests \cup {"stopping"}, NEW s, Goto(a, s),
         s \notin Early \cup {"studioDialog", "none", "refused"},
         sync'[a].crossed = sync[a].crossed,
         \A b \in Saves \ {a} : sync'[b] = sync[b],
         UNCHANGED <<phase, reports>>, gPendingSaveRequest' = NoSave
  PROVE  Controlled(a)
<1>1. step[a] \notin {"none", "refused", "login", "loginToServer"}
  BY DEF Requests
<1>2. phase[a] \notin {"unused", "login"}
  BY <1>1 DEF Control, PhaseInv
<1>. QED BY <1>1, <1>2, GoControl, PendingGone DEF Controlled

LEMMA NoAnswerControl ==
  ASSUME TypeOK, PendingInv, NEW a \in Saves, Control(a),
         step[a] \in Requests, NEW early, RequestFails(a, early) \/ Refused(a, early)
  PROVE  Controlled(a)
<1>1. "failed" \in Outcomes /\ step[a] \notin {"none", "refused"} /\ "silent" \notin Early
  BY DEF Outcomes, Requests, Early
<1>2. CASE Goto(a, "silent") /\ UNCHANGED saveVars /\ Settle(a) /\ gPendingSaveRequest' = NoSave
  BY <1>1, <1>2, AnswerGoes, SettleEffect DEF saveVars
<1>3. CASE Goto(a, "none") /\ (EndEarly(a, "failed") \/ Unfinished(a, "failed"))
           /\ Settle(a) /\ gPendingSaveRequest' = NoSave
  BY <1>1, <1>3, OutcomeControl DEF EndEarly, Unfinished, Tell
<1>. QED BY <1>2, <1>3 DEF RequestFails, Refused

\* A channel that stops with an error, or because it was cancelled.
LEMMA CloseChannelControl ==
  ASSUME TypeOK, NEW a \in Saves, Control(a), NEW c, NEW o \in Outcomes,
         NEW s \in {"fileUpload", "stopping"}, step[a] = s, Unfinished(a, o),
         CloseChannel(a, c), Goto(a, IF sync[a].channels = {c} THEN "none" ELSE s),
         c \in sync[a].channels, gPendingSaveRequest' = NoSave
  PROVE  Controlled(a)
<1>1. Report(a, sync[a].who, o)
  BY DEF Unfinished, Tell
<1>2. /\ step'[a] = (IF sync[a].channels = {c} THEN "none" ELSE s)
      /\ \A b \in Saves \ {a} : step'[b] = step[b]
  BY FunctionTypes DEF Goto
<1>3. CASE sync[a].channels = {c}
  <2>1. Settle(a)
    BY <1>3 DEF CloseChannel
  <2>2. sync'[a].crossed = sync[a].crossed /\ \A b \in Saves \ {a} : sync'[b] = sync[b]
    BY <2>1, SettleEffect
  <2>3. step'[a] \notin Early \cup {"studioDialog"} /\ step[a] \notin {"none", "refused"}
    BY <1>2 DEF Early
  <2>. QED BY <1>1, <1>2, <1>3, <2>2, <2>3, ReportControl, PendingGone DEF Controlled
<1>4. CASE sync[a].channels # {c}
  <2>1. sync'[a].crossed = TRUE /\ \A b \in Saves \ {a} : sync'[b] = sync[b]
    BY <1>4, FunctionTypes DEF CloseChannel, Syncs
  <2>2. step'[a] \notin Early \cup {"studioDialog"} /\ step[a] \notin {"none", "refused"}
    BY <1>2 DEF Early
  <2>. QED BY <1>1, <1>2, <2>1, <2>2, ReportControl, PendingGone DEF Controlled
<1>. QED BY <1>3, <1>4

\* A step that changes the closures only, and not what was told.
LEMMA StayControl ==
  ASSUME TypeOK, PendingInv, NEW a \in Saves, Control(a),
         step[a] \in Requests \ Early, sync'[a].crossed = sync[a].crossed,
         \A b \in Saves \ {a} : sync'[b] = sync[b],
         UNCHANGED <<step, phase, reports, gPendingSaveRequest>>
  PROVE  Controlled(a)
<1>1. step[a] \notin {"none", "refused", "login", "loginToServer"}
  BY DEF Requests
<1>. QED BY <1>1 DEF Controlled, OnlyMoves, PendingInv, IsSavePending, Control,
                     PhaseInv, ToldInv, Sending

LEMMA NetworkAnswersControl ==
  ASSUME TypeOK, PendingInv, NEW a \in Saves, Control(a), NetworkAnswers(a)
  PROVE  Controlled(a)
<1>. USE DEF Event
<1>1. CASE VersionAnswered(a)
  <2>1. step[a] \in Requests /\ step[a] \in Early /\ phase[a] \in {"running", "asking"}
    BY <1>1 DEF VersionAnswered, Requests, Early, Control, PhaseInv
  <2>2. CASE gPendingSaveRequest' = NoSave /\ MessageStep(a) /\ UNCHANGED <<reports, sync>>
    <3>1. /\ step'[a] \in {"sendModel", "commitPrompt"}
          /\ phase'[a] \in {"running", "asking"}
      BY <2>1, <2>2, FunctionTypes DEF MessageStep, Goto
    <3>2. OnlyMoves(a)
      BY <2>2, FunctionTypes DEF MessageStep, Goto, OnlyMoves
    <3>3. PhaseInv(a)'
      BY <2>1, <2>2, <3>1 DEF Control, PhaseInv, Sending
    <3>4. Control(a)'
      BY <2>1, <2>2, <3>1, <3>3, RunControl
    <3>. QED BY <2>2, <3>2, <3>4, PendingGone DEF Controlled
  <2>. QED BY <1>1, <2>1, <2>2, NoAnswerControl DEF VersionAnswered
<1>2. CASE ModelAnswered(a)
  <2>1. step[a] \in Requests /\ "prepareUploads" \notin Early
    BY <1>2 DEF ModelAnswered, Requests, Early
  <2>2. CASE ModelAccepted(a)
    <3>1. sync'[a].crossed = sync[a].crossed /\ \A b \in Saves \ {a} : sync'[b] = sync[b]
      BY <2>2, FunctionTypes DEF ModelAccepted, Syncs
    <3>. QED BY <2>1, <2>2, <3>1, AnswerGoes DEF ModelAccepted, saveVars
  <2>. QED BY <1>2, <2>1, <2>2, NoAnswerControl DEF ModelAnswered
<1>3. CASE FileRead(a)
  <2>1. step[a] \in Requests \ Early
    BY <1>3 DEF FileRead, Requests, Early
  <2>2. sync'[a].crossed = sync[a].crossed /\ \A b \in Saves \ {a} : sync'[b] = sync[b]
    BY <1>3, FunctionTypes DEF FileRead, Syncs
  <2>. QED BY <1>3, <2>1, <2>2, StayControl DEF FileRead, windowVars
<1>4. CASE FinishAnswered(a)
  <2>1. step[a] \in Requests /\ {"finished", "silent"} \cap Early = {}
    BY <1>4 DEF FinishAnswered, Requests, Early
  <2>2. CASE /\ gPendingSaveRequest' = NoSave /\ UNCHANGED saveVars
             /\ \/ Goto(a, "finished") /\ UNCHANGED sync
                \/ Goto(a, "silent") /\ Settle(a)
    BY <2>1, <2>2, AnswerGoes, SettleEffect DEF saveVars
  <2>. QED BY <1>4, <2>1, <2>2, NoAnswerControl DEF FinishAnswered
<1>5. CASE ScriptAnswered(a)
  <2>1. step[a] \in Requests /\ step[a] \notin {"none", "refused"} /\ "succeeded" \in Outcomes
    BY <1>5 DEF ScriptAnswered, Requests, Outcomes
  <2>. QED BY <1>5, <2>1, NoAnswerControl, OutcomeControl DEF ScriptAnswered, Tell
<1>6. ASSUME NEW c \in Channels, NEW stored \in BOOLEAN, ChannelEnds(a, c, stored)
      PROVE  Controlled(a)
  <2>1. step[a] \in Requests \ Early /\ "uploadNextFile" \notin Early
    BY <1>6 DEF ChannelEnds, Requests, Early
  <2>2. sync'[a].crossed = sync[a].crossed /\ \A b \in Saves \ {a} : sync'[b] = sync[b]
    BY <1>6, FunctionTypes DEF ChannelEnds, Syncs
  <2>. QED BY <1>6, <2>1, <2>2, AnswerGoes, StayControl DEF ChannelEnds, saveVars
<1>7. ASSUME NEW c \in Channels, ChannelFails(a, c) \/ ChannelCancelled(a, c)
      PROVE  Controlled(a)
  <2>1. {"failed", "cancelled"} \subseteq Outcomes
    BY DEF Outcomes
  <2>. QED BY <1>7, <2>1, CloseChannelControl DEF ChannelFails, ChannelCancelled
<1>. QED BY <1>1, <1>2, <1>3, <1>4, <1>5, <1>6, <1>7 DEF NetworkAnswers

LEMMA CommitControl ==
  ASSUME TypeOK, PendingInv, NEW a \in Saves, Control(a), Commit(a)
  PROVE  Controlled(a)
<1>1. step[a] \in Requests \ Early
  BY DEF Commit, Requests, Early
<1>2. sync'[a].crossed = sync[a].crossed /\ \A b \in Saves \ {a} : sync'[b] = sync[b]
  BY FunctionTypes DEF Commit, Syncs
<1>. QED BY <1>1, <1>2, StayControl DEF Commit, windowVars

LEMMA CancelControl ==
  ASSUME TypeOK, PendingInv, NEW a \in Saves, a = gPendingSaveRequest, Control(a),
         CancelPendingSave
  PROVE  Controlled(a)
<1>1. gPendingSaveRequest' = NoSave /\ UNCHANGED <<sync, phase, reports>>
  BY DEF CancelPendingSave, saveVars
<1>2. \/ step[a] = "versionRequest" /\ Goto(a, "versionAborted")
      \/ step[a] \in {"modelRequest", "finishRequest"} /\ Goto(a, "aborted")
      \/ step[a] = "fileUpload" /\ Goto(a, "stopping")
      \/ UNCHANGED step
  BY DEF CancelPendingSave
<1>3. CASE UNCHANGED step
  BY <1>1, <1>3, PendingGone
     DEF Controlled, OnlyMoves, Control, PhaseInv, ToldInv, Sending
<1>4. CASE step[a] = "versionRequest" /\ Goto(a, "versionAborted")
  <2>1. step[a] \in Early /\ phase[a] \notin {"unused", "login"}
    BY <1>1, <1>4 DEF Early, Control, PhaseInv
  <2>. QED BY <1>1, <1>4, <2>1, GoControl, PendingGone DEF Controlled
<1>5. CASE \/ step[a] \in {"modelRequest", "finishRequest"} /\ Goto(a, "aborted")
           \/ step[a] = "fileUpload" /\ Goto(a, "stopping")
  <2>1. step[a] \in Requests /\ {"aborted", "stopping"} \cap Early = {}
    BY <1>5 DEF Requests, Early
  <2>. QED BY <1>1, <1>5, <2>1, AnswerGoes
<1>. QED BY <1>1, <1>2, <1>3, <1>4, <1>5

----------------------------------------------------------------------------
(***************************************************************************)
(* What is on the server.  Of a document the server must hold what its     *)
(* file in the project folder holds: closing its tab gives up the rest.    *)
(***************************************************************************)
Held(e) == IF e = Model THEN mem[e] ELSE ws[e]

Accounted(e) == Held(e) = server[e] \/ Held(e) <= lateEdits[e] \/ e \in lost

\* What was read of an entry is what it holds, unless it was edited since.
Fresh(a, e) == sync[a].sent[e] = Held(e) \/ Held(e) <= lateEdits[e]

\* The folder is behind the memory for modified frames and the model only.
FolderInv ==
  /\ \A e \in Entries : ws[e] <= mem[e]
  /\ \A d \in Docs \ frameModified : ws[d] = mem[d]

Uploading == {"prepareUploads", "uploadNextFile", "fileUpload", "stopping",
              "finishUploads", "finishRequest", "finished"}

\* The model has been copied and is being sent.
Reading == {"sendUploadModel", "modelRequest"}

USE DEF Reading

\* All an attempt has read is fresh, and when it asks the server to commit it
\* has nothing left to send.
ReadInv(a) ==
  /\ \A e \in sync[a].got : Fresh(a, e)
  /\ sync[a].channels # {} => sync[a].file \in Docs
  /\ "server" \in sync[a].channels => Fresh(a, sync[a].file)
  /\ step[a] \in Uploading \cup Reading =>
       Model \in sync[a].got
  /\ step[a] \in {"finishUploads", "finishRequest", "finished", "scriptRequest"} =>
       sync[a].todo = {}
  /\ step[a] = "scriptRequest" => Sending(a) /\ sync[a].asked = Entries

\* What it was not asked for is on the server; once committed, all is.
OwedInv(a) ==
  /\ step[a] \in Uploading =>
       \A e \in Entries : e \in sync[a].asked \/ e = Model \/ Accounted(e)
  /\ sync[a].committed => Sending(a) /\ \A e \in Entries : Accounted(e)
  /\ step[a] = "finished" => sync[a].committed

CleanInv == ~ isModified => \A e \in Entries : Accounted(e)

ServerInv ==
  /\ FolderInv
  /\ \A a \in Saves : ReadInv(a) /\ OwedInv(a)
  /\ CleanInv

Served(a) == ReadInv(a)' /\ OwedInv(a)'

LEMMA EntryTypes ==
  ASSUME TypeOK
  PROVE  /\ mem \in [Entries -> Nat] /\ ws \in [Entries -> Nat]
         /\ lateEdits \in [Entries -> Nat] /\ server \in [Entries -> Nat]
         /\ \A e \in Entries : Held(e) \in Nat
         /\ Docs \subseteq Entries /\ Model \in Entries /\ Model \notin Docs
         /\ frameModified \subseteq Docs
BY WindowAssumption DEF TypeOK, ContentTypeOK, Held, Entries

\* An attempt that waits for its channels, or was committed, is sending.
LEMMA SendingWhen ==
  ASSUME TypeOK, NEW a \in Saves, ReadInv(a), OwedInv(a)
  PROVE  /\ step[a] \in Uploading => Sending(a)
         /\ sync[a].committed => Sending(a)
         /\ sync[a].channels # {} => Sending(a)
<1>1. step[a] \in Uploading => Sending(a)
  BY DEF ReadInv, Sending
<1>2. sync[a].channels # {} => step[a] \in Uploading
  BY DEF TypeOK, Uploading
<1>. QED BY <1>1, <1>2 DEF OwedInv

\* The contents stay, and what is done for entry e with them.
Quiet == UNCHANGED <<mem, ws, frameModified, lateEdits, server, lost>>

LEMMA QuietServer ==
  ASSUME ServerInv, NEW a \in Saves, Quiet, OnlyMoves(a), Served(a),
         isModified' \in {isModified, TRUE} \/ sync[a].committed
  PROVE  ServerInv'
<1>1. FolderInv'
  BY DEF ServerInv, FolderInv, Quiet
<1>2. \A e \in Entries : Accounted(e)' <=> Accounted(e)
  BY DEF Quiet, Accounted, Held
<1>3. CleanInv'
  BY <1>2 DEF ServerInv, CleanInv, OwedInv
<1>4. ASSUME NEW b \in Saves \ {a}
      PROVE  ReadInv(b)' /\ OwedInv(b)'
  <2>1. \A e : Fresh(b, e)' <=> Fresh(b, e)
    BY DEF OnlyMoves, Quiet, Fresh, Held
  <2>2. ReadInv(b)'
    BY <2>1 DEF ServerInv, OnlyMoves, ReadInv, Sending
  <2>3. OwedInv(b)'
    BY <1>2 DEF ServerInv, OnlyMoves, OwedInv, Sending
  <2>. QED BY <2>2, <2>3
<1>. QED BY <1>1, <1>3, <1>4 DEF ServerInv, Served

(***************************************************************************)
(* An entry may change while others save: what they have done for it, and  *)
(* what is done for it already, still holds or it counts as edited late.   *)
(***************************************************************************)
Follows(e) ==
  /\ server'[e] = server[e] /\ (e \in lost' <=> e \in lost)
  /\ \/ Held(e)' = Held(e) /\ lateEdits'[e] = lateEdits[e]
     \/ Held(e)' <= lateEdits'[e]

LEMMA FollowsKeeps ==
  ASSUME NEW e, Follows(e)
  PROVE  /\ Accounted(e) => Accounted(e)'
         /\ \A b \in Saves : sync'[b] = sync[b] /\ Fresh(b, e) => Fresh(b, e)'
BY DEF Follows, Accounted, Fresh

\* While it is sending, an attempt that does not move itself keeps its part.
LEMMA OthersFollow ==
  ASSUME TypeOK, NEW b \in Saves, ReadInv(b), OwedInv(b),
         Sending(b) => \A e \in Entries : Follows(e),
         step'[b] = step[b], sync'[b] = sync[b]
  PROVE  ReadInv(b)' /\ OwedInv(b)'
<1>1. CASE Sending(b)
  <2>1. sync[b].got \subseteq Entries /\ sync[b].file \in Entries
    BY FunctionTypes DEF Syncs
  <2>2. \A e \in Entries : /\ Accounted(e) => Accounted(e)'
                           /\ Fresh(b, e) => Fresh(b, e)'
    BY <1>1, FollowsKeeps
  <2>3. ReadInv(b)'
    BY <2>1, <2>2 DEF ReadInv, Sending
  <2>4. OwedInv(b)'
    BY <2>2 DEF OwedInv, Sending
  <2>. QED BY <2>3, <2>4
<1>2. CASE ~ Sending(b)
  <2>1. /\ step[b] \notin Uploading \cup {"sendUploadModel", "modelRequest", "scriptRequest"}
        /\ ~ sync[b].committed /\ sync[b].channels = {} /\ sync[b].got = {}
    BY <1>2, SendingWhen DEF Sending, ReadInv
  <2>2. ReadInv(b)'
    BY <2>1 DEF ReadInv, Uploading
  <2>3. OwedInv(b)'
    BY <2>1 DEF OwedInv, Uploading
  <2>. QED BY <2>2, <2>3
<1>. QED BY <1>1, <1>2

LEMMA WriteServer ==
  ASSUME TypeOK, ServerInv, NEW a \in Saves, NEW written \in SUBSET frameModified,
         NEW flushed, NEW t, WriteProjectFiles(written, flushed, t, OtherSaveRuns(a)),
         UNCHANGED <<server, lost>>, OnlyMoves(a), Served(a),
         isModified' = ModifiedAfterWrite \/ isModified'
  PROVE  ServerInv'
<1>. USE EntryTypes
<1>1. /\ ws' = [e \in Entries |-> IF e \in written \/ (e = Model /\ flushed)
                                  THEN mem[e] ELSE ws[e]]
      /\ frameModified' = frameModified \ written
      /\ lateEdits' = [e \in Entries |-> IF OtherSaveRuns(a) /\ e \in written
                                         THEN mem[e] ELSE lateEdits[e]]
      /\ mem' = mem
  BY DEF WriteProjectFiles
<1>2. FolderInv'
  <2>1. \A e \in Entries : ws'[e] <= mem'[e]
    BY <1>1 DEF ServerInv, FolderInv
  <2>2. \A d \in Docs \ frameModified' : ws'[d] = mem'[d]
    BY <1>1 DEF ServerInv, FolderInv
  <2>. QED BY <2>1, <2>2 DEF FolderInv
<1>3. ASSUME NEW e \in Entries, e \notin written
      PROVE  Follows(e)
  BY <1>1, <1>3 DEF Follows, Held
<1>4. ASSUME NEW e \in written, OtherSaveRuns(a)
      PROVE  Follows(e)
  BY <1>1, <1>4 DEF Follows, Held
<1>5. ASSUME NEW b \in Saves \ {a}
      PROVE  ReadInv(b)' /\ OwedInv(b)'
  <2>1. Sending(b) => \A e \in Entries : Follows(e)
    BY <1>3, <1>4 DEF OtherSaveRuns
  <2>. QED BY <2>1, OthersFollow DEF OnlyMoves, ServerInv
<1>6. CleanInv'
  <2>. SUFFICES ASSUME ~ isModified' PROVE \A e \in Entries : Accounted(e)'
    BY DEF CleanInv
  <2>1. ~ isModified /\ written = {}
    BY DEF ModifiedAfterWrite
  <2>. QED BY <1>3, <2>1, FollowsKeeps DEF ServerInv, CleanInv
<1>. QED BY <1>2, <1>5, <1>6 DEF ServerInv, Served

LEMMA EditingServer ==
  ASSUME TypeOK, ServerInv, Editing
  PROVE  ServerInv'
<1>. USE EntryTypes
<1>1. UNCHANGED <<server, lost, step, sync>>
  BY DEF Editing, siteVars, serverVars
<1>2. ASSUME FolderInv', SomeSaveRuns => \A e \in Entries : Follows(e),
             ~ isModified' => ~ isModified /\ \A e \in Entries : Follows(e)
      PROVE  ServerInv'
  <2>1. \A b \in Saves : ReadInv(b)' /\ OwedInv(b)'
    BY <1>1, <1>2, OthersFollow DEF ServerInv, SomeSaveRuns
  <2>2. CleanInv'
    BY <1>2, FollowsKeeps DEF ServerInv, CleanInv
  <2>. QED BY <1>2, <2>1, <2>2 DEF ServerInv
<1>3. CASE EditModel(SomeSaveRuns)
  <2>1. /\ mem' = [mem EXCEPT ![Model] = @ + 1] /\ UNCHANGED <<ws, frameModified>>
        /\ isModified' = TRUE
        /\ lateEdits' = IF SomeSaveRuns THEN [lateEdits EXCEPT ![Model] = mem'[Model]]
                                        ELSE lateEdits
    BY <1>3 DEF EditModel, NoteEdit
  <2>2. FolderInv'
    BY <2>1 DEF ServerInv, FolderInv
  <2>3. SomeSaveRuns => \A e \in Entries : Follows(e)
    BY <1>1, <2>1 DEF Follows, Held
  <2>. QED BY <1>2, <2>1, <2>2, <2>3
<1>4. ASSUME NEW d \in Docs, EditDoc(d, SomeSaveRuns)
      PROVE  ServerInv'
  <2>1. /\ mem' = [mem EXCEPT ![d] = @ + 1] /\ UNCHANGED <<ws, isModified>>
        /\ frameModified' = frameModified \cup {d}
        /\ lateEdits' = IF SomeSaveRuns THEN [lateEdits EXCEPT ![d] = mem'[d]]
                                        ELSE lateEdits
    BY <1>4 DEF EditDoc, NoteEdit
  <2>2. FolderInv'
    BY <2>1 DEF ServerInv, FolderInv
  <2>3. ws[d] <= mem[d]
    BY DEF ServerInv, FolderInv
  <2>4. \A e \in Entries : Follows(e)
    BY <1>1, <2>1, <2>3 DEF Follows, Held
  <2>. QED BY <1>2, <2>1, <2>2, <2>4
<1>5. ASSUME NEW d \in Docs, CloseTabSaving(d, SomeSaveRuns)
      PROVE  ServerInv'
  <2>1. /\ ws' = [ws EXCEPT ![d] = mem[d]] /\ mem' = mem
        /\ frameModified' = frameModified \ {d} /\ isModified' = TRUE
        /\ lateEdits' = IF SomeSaveRuns THEN [lateEdits EXCEPT ![d] = mem'[d]]
                                        ELSE lateEdits
    BY <1>5 DEF CloseTabSaving, NoteEdit
  <2>2. FolderInv'
    BY <2>1 DEF ServerInv, FolderInv
  <2>3. SomeSaveRuns => \A e \in Entries : Follows(e)
    BY <1>1, <2>1 DEF Follows, Held
  <2>. QED BY <1>2, <2>1, <2>2, <2>3
<1>6. ASSUME NEW d \in Docs, CloseTabDiscarding(d)
      PROVE  ServerInv'
  <2>1. /\ mem' = [mem EXCEPT ![d] = ws[d]] /\ UNCHANGED <<ws, isModified>>
        /\ frameModified' = frameModified \ {d}
        /\ lateEdits' = [lateEdits EXCEPT ![d] = IF @ > ws[d] THEN ws[d] ELSE @]
    BY <1>6 DEF CloseTabDiscarding
  <2>2. FolderInv'
    BY <2>1 DEF ServerInv, FolderInv
  <2>3. \A e \in Entries : Follows(e)
    BY <1>1, <2>1 DEF Follows, Held
  <2>. QED BY <1>2, <2>1, <2>2, <2>3
<1>. QED BY <1>3, <1>4, <1>5, <1>6 DEF Editing

(***************************************************************************)
(* The steps of an attempt.                                                *)
(***************************************************************************)

\* An attempt that lets its closures go owes nothing.
LEMMA SettleServed ==
  ASSUME TypeOK, NEW a \in Saves, NEW s \in {"none", "silent", "refused"}, Goto(a, s), Settle(a)
  PROVE  Served(a)
<1>1. step'[a] = s
  BY FunctionTypes DEF Goto
<1>. QED BY <1>1, SettleEffect DEF Served, ReadInv, OwedInv, Uploading

\* An attempt that only goes to another step, of which as much is asked.
LEMMA GoServed ==
  ASSUME TypeOK, ServerInv, NEW a \in Saves, NEW s, Goto(a, s), UNCHANGED sync, Quiet,
         s \in Uploading => step[a] \in Uploading,
         s \in Reading => step[a] \in Reading,
         s \in {"finishUploads", "finishRequest", "finished"} => sync[a].todo = {},
         s # "scriptRequest", s = "finished" => sync[a].committed
  PROVE  Served(a)
<1>1. step'[a] = s
  BY FunctionTypes DEF Goto
<1>2. \A e \in Entries : Accounted(e)' <=> Accounted(e)
  BY DEF Quiet, Accounted, Held
<1>3. \A e : Fresh(a, e)' <=> Fresh(a, e)
  BY DEF Quiet, Fresh, Held
<1>4. ReadInv(a)'
  BY <1>1, <1>3 DEF ServerInv, ReadInv, Sending
<1>5. OwedInv(a)'
  BY <1>1, <1>2 DEF ServerInv, OwedInv, Sending
<1>. QED BY <1>4, <1>5 DEF Served

LEMMA GoServer ==
  ASSUME TypeOK, ServerInv, NEW a \in Saves, OnlyMoves(a), NEW s, Goto(a, s),
         UNCHANGED <<sync, isModified>>, Quiet,
         s \in Uploading => step[a] \in Uploading,
         s \in Reading => step[a] \in Reading,
         s \in {"finishUploads", "finishRequest", "finished"} => sync[a].todo = {},
         s # "scriptRequest", s = "finished" => sync[a].committed
  PROVE  ServerInv'
BY GoServed, QuietServer

LEMMA StillQuiet ==
  ASSUME UNCHANGED <<contentVars, lateEdits, siteVars>> PROVE Quiet
BY DEF Quiet, contentVars, siteVars, serverVars

LEMMA OutcomeQuiet ==
  ASSUME NEW a \in Saves, NEW o,
         EndEarly(a, o) \/ Unfinished(a, o) \/ Succeeded(a)
  PROVE  Quiet
BY DEF Quiet, EndEarly, Unfinished, Succeeded, contentVars, serverVars

\* An outcome but success, with the end of the attempt.
LEMMA OutcomeServer ==
  ASSUME TypeOK, ServerInv, NEW a \in Saves, OnlyMoves(a), NEW o,
         EndEarly(a, o) \/ Unfinished(a, o),
         NEW s \in {"none", "silent", "refused"}, Goto(a, s), Settle(a)
  PROVE  ServerInv'
<1>1. Quiet /\ isModified' \in {isModified, TRUE}
  BY OutcomeQuiet DEF EndEarly, Unfinished, bookVars
<1>. QED BY <1>1, SettleServed, QuietServer

LEMMA AskServer ==
  ASSUME TypeOK, ServerInv, NEW a \in Saves, OnlyMoves(a), NEW c,
         NEW d \in {"login", "loginToServer", "studioDialog"}, Ask(a, c, d)
  PROVE  ServerInv'
BY StillQuiet, GoServer DEF Ask, bookVars, Uploading

LEMMA StartServer ==
  ASSUME TypeOK, ServerInv, NEW a \in Saves, OnlyMoves(a), NEW c, NEW known,
         Start(a, c, known)
  PROVE  ServerInv'
<1>1. step'[a] = "checkVersion"
  BY FunctionTypes DEF Start, Goto
<1>2. sync'[a].got = {} /\ sync'[a].channels = {} /\ ~ sync'[a].committed
  BY FunctionTypes DEF Start, NoSync
<1>3. Served(a)
  BY <1>1, <1>2 DEF Served, ReadInv, OwedInv, Uploading
<1>4. Quiet /\ UNCHANGED isModified
  BY DEF Start, Quiet, contentVars, bookVars, serverVars
<1>. QED BY <1>3, <1>4, QuietServer

LEMMA StartScriptServer ==
  ASSUME TypeOK, ServerInv, NEW a \in Saves, OnlyMoves(a), NEW c, StartScript(a, c)
  PROVE  ServerInv'
<1>1. PICK written \in SUBSET frameModified :
        WriteProjectFiles(written, TRUE, isTemplate, OtherSaveRuns(a))
  BY DEF StartScript
<1>2. /\ sync'[a].sent = [NoSync.sent EXCEPT ![Script] = ws'[Script]]
      /\ sync'[a].got = {Script} /\ sync'[a].channels = {} /\ sync'[a].todo = {}
      /\ sync'[a].asked = Entries /\ ~ sync'[a].committed
      /\ step'[a] = "scriptRequest"
  BY FunctionTypes DEF StartScript, Goto, NoSync
<1>3. sync'[a].sent[Script] = Held(Script)'
  BY <1>2, ServerAssumption, WindowAssumption DEF NoSync, Entries, Held
<1>4. Served(a)
  BY <1>2, <1>3 DEF Served, ReadInv, OwedInv, Fresh, Uploading, Sending
<1>. QED BY <1>1, <1>4, WriteServer DEF StartScript, serverVars

\* An attempt that is not sending fails to start.
LEMMA ScriptFailsServer ==
  ASSUME TypeOK, ServerInv, NEW a \in Saves, OnlyMoves(a), ~ Sending(a), NEW c,
         ScriptFails(a, c)
  PROVE  ServerInv'
<1>1. PICK written \in SUBSET frameModified, flushed \in BOOLEAN :
        WriteProjectFiles(written, flushed, isTemplate, OtherSaveRuns(a))
  BY DEF ScriptFails
<1>2. step'[a] = "none" /\ sync'[a] = sync[a]
  BY FunctionTypes DEF ScriptFails, Goto
<1>3. sync[a].got = {} /\ sync[a].channels = {} /\ ~ sync[a].committed
  BY SendingWhen DEF ServerInv, Sending
<1>4. Served(a)
  BY <1>2, <1>3 DEF Served, ReadInv, OwedInv, Uploading
<1>. QED BY <1>1, <1>4, WriteServer DEF ScriptFails, serverVars

LEMMA SaveToItsPlaceServer ==
  ASSUME TypeOK, ServerInv, NEW a \in Saves, OnlyMoves(a), ~ Sending(a), NEW c,
         SaveToItsPlace(a, c)
  PROVE  ServerInv'
BY StartScriptServer, ScriptFailsServer, StartServer, AskServer
   DEF SaveToItsPlace, SaveScript

LEMMA CmdSaveProjectServer ==
  ASSUME TypeOK, ServerInv, NEW a \in Saves, OnlyMoves(a), Control(a), NEW c,
         CmdSaveProject(a, c)
  PROVE  ServerInv'
BY SaveToItsPlaceServer, AskServer DEF CmdSaveProject, Unused, Control, PhaseInv

LEMMA CommandsServer ==
  ASSUME TypeOK, ServerInv, NEW a \in Saves, OnlyMoves(a), Control(a), Commands(a)
  PROVE  ServerInv'
<1>1. CASE UserSaves(a)
  BY <1>1, CmdSaveProjectServer DEF UserSaves
<1>2. CASE UserSavesToServer(a)
  BY <1>2, AskServer DEF UserSavesToServer
<1>3. CASE Autosave(a)
  BY <1>3, SaveToItsPlaceServer DEF Autosave, Unused, Control, PhaseInv
<1>4. CASE LoginFails(a) \/ StudioDialogCancelled(a) \/ PromptAccepted(a)
  <2>1. \E s \in {"none", "sendModel"} : Goto(a, s)
    BY <1>4 DEF LoginFails, StudioDialogCancelled, PromptAccepted
  <2>2. Quiet /\ UNCHANGED <<sync, isModified>>
    BY <1>4, StillQuiet DEF LoginFails, StudioDialogCancelled, PromptAccepted, bookVars
  <2>. QED BY <2>1, <2>2, GoServer DEF Uploading
<1>5. CASE LoginSucceeds(a)
  <2>1. ~ Sending(a)
    BY <1>5 DEF LoginSucceeds, Control, PhaseInv
  <2>2. CASE /\ Goto(a, "none")
             /\ UNCHANGED <<contentVars, bookVars, lateEdits, siteVars, sync>>
    BY <2>2, StillQuiet, GoServer DEF bookVars, Uploading
  <2>. QED BY <1>5, <2>1, <2>2, SaveToItsPlaceServer, AskServer DEF LoginSucceeds
<1>6. CASE StudioDialogAccepted(a)
  BY <1>6, StartServer DEF StudioDialogAccepted
<1>7. CASE PromptCancelled(a)
  BY <1>7, OutcomeServer DEF PromptCancelled
<1>. QED BY <1>1, <1>2, <1>3, <1>4, <1>5, <1>6, <1>7 DEF Commands

LEMMA SendServer ==
  ASSUME TypeOK, ServerInv, NEW a \in Saves, OnlyMoves(a), NEW s, Send(a, s), UNCHANGED sync,
         s \in Uploading => step[a] \in Uploading,
         s \in Reading => step[a] \in Reading,
         s \in {"finishUploads", "finishRequest", "finished"} => sync[a].todo = {},
         s \notin {"scriptRequest", "finished"}
  PROVE  ServerInv'
BY StillQuiet, GoServer DEF Send, bookVars

LEMMA OnlyGotoServer ==
  ASSUME TypeOK, ServerInv, NEW a \in Saves, OnlyMoves(a), NEW s, OnlyGoto(a, s),
         s \in Uploading => step[a] \in Uploading,
         s \in {"finishUploads", "finishRequest", "finished"} => sync[a].todo = {},
         s \notin {"sendUploadModel", "modelRequest", "scriptRequest", "finished"}
  PROVE  ServerInv'
<1>1. Quiet /\ UNCHANGED <<sync, isModified>> /\ Goto(a, s)
  BY DEF OnlyGoto, Quiet, windowVars, siteVars, serverVars
<1>. QED BY <1>1, GoServer

LEMMA ThrowsServer ==
  ASSUME TypeOK, ServerInv, NEW a \in Saves, OnlyMoves(a), Throws(a) \/ SaveURIThrows(a)
  PROVE  ServerInv'
BY OutcomeServer DEF Throws, SaveURIThrows

LEMMA SendModelServer ==
  ASSUME TypeOK, ServerInv, NEW a \in Saves, OnlyMoves(a), Control(a), SendModel(a)
  PROVE  ServerInv'
<1>1. PICK written \in SUBSET frameModified :
        WriteProjectFiles(written, TRUE, isTemplate, OtherSaveRuns(a))
  BY DEF SendModel
<1>2. step[a] = "sendModel" /\ ~ Sending(a)
  BY DEF SendModel, Timer, Early, Control, PhaseInv
<1>3. sync[a].channels = {} /\ ~ sync[a].committed
  BY <1>2, SendingWhen DEF ServerInv
<1>4. /\ sync'[a].sent = [sync[a].sent EXCEPT ![Model] = mem[Model]]
      /\ sync'[a].got = {Model} /\ sync'[a].channels = {} /\ ~ sync'[a].committed
      /\ step'[a] = "sendUploadModel"
  BY <1>3, FunctionTypes DEF SendModel, Goto, Syncs
<1>5. sync'[a].sent[Model] = Held(Model)'
  BY <1>1, <1>4, FunctionTypes DEF Syncs, Entries, Held, WriteProjectFiles
<1>6. Served(a)
  BY <1>4, <1>5 DEF Served, ReadInv, OwedInv, Fresh, Uploading, Sending
<1>. QED BY <1>1, <1>6, WriteServer DEF SendModel, siteVars, serverVars

LEMMA SendModelFailsServer ==
  ASSUME TypeOK, ServerInv, NEW a \in Saves, OnlyMoves(a), SendModelFails(a)
  PROVE  ServerInv'
<1>1. PICK written \in SUBSET frameModified, flushed \in BOOLEAN :
        WriteProjectFiles(written, flushed, isTemplate, OtherSaveRuns(a))
  BY DEF SendModelFails
<1>2. Served(a)
  BY SettleServed DEF SendModelFails
<1>. QED BY <1>1, <1>2, WriteServer DEF SendModelFails, serverVars

LEMMA UploadNextFileServer ==
  ASSUME TypeOK, ServerInv, NEW a \in Saves, OnlyMoves(a), UploadNextFile(a)
  PROVE  ServerInv'
<1>0. step[a] = "uploadNextFile" /\ step[a] \in Uploading /\ ReadInv(a) /\ OwedInv(a)
  BY DEF UploadNextFile, Timer, Uploading, ServerInv
<1>1. CASE sync[a].todo = {} /\ OnlyGoto(a, "finishUploads")
  BY <1>0, <1>1, OnlyGotoServer
<1>2. CASE Throws(a)
  BY <1>2, ThrowsServer
<1>3. ASSUME NEW d \in sync[a].todo, SkipFile(a, d)
      PROVE  ServerInv'
  <2>1. /\ step' = step
        /\ sync'[a] = [sync[a] EXCEPT !.todo = @ \ {d}]
    BY <1>3, FunctionTypes DEF SkipFile
  <2>2. Quiet /\ UNCHANGED isModified
    BY <1>3 DEF SkipFile, Quiet, windowVars, siteVars, serverVars
  <2>3. /\ sync'[a].got = sync[a].got /\ sync'[a].sent = sync[a].sent
        /\ sync'[a].channels = sync[a].channels /\ sync'[a].file = sync[a].file
        /\ sync'[a].asked = sync[a].asked /\ sync'[a].committed = sync[a].committed
    BY <2>1, FunctionTypes DEF Syncs
  <2>4. \A e : Fresh(a, e)' <=> Fresh(a, e)
    BY <2>2, <2>3 DEF Quiet, Fresh, Held
  <2>5. \A e : Accounted(e)' <=> Accounted(e)
    BY <2>2 DEF Quiet, Accounted, Held
  <2>6. ReadInv(a)'
    BY <1>0, <2>1, <2>3, <2>4 DEF ReadInv, Sending
  <2>7. OwedInv(a)'
    BY <1>0, <2>1, <2>3, <2>5 DEF OwedInv, Sending
  <2>. QED BY <2>2, <2>6, <2>7, QuietServer DEF Served
<1>4. ASSUME NEW d \in sync[a].todo, Send(a, "fileUpload"),
             sync' = [sync EXCEPT ![a].todo = @ \ {d}, ![a].file = d,
                                  ![a].channels = {"file"}]
      PROVE  ServerInv'
  <2>1. step'[a] = "fileUpload" /\ d \in Docs
    BY <1>4, FunctionTypes DEF Send, Goto, Syncs
  <2>2. Quiet /\ UNCHANGED isModified
    BY <1>4, StillQuiet DEF Send, bookVars
  <2>3. /\ sync'[a].got = sync[a].got /\ sync'[a].sent = sync[a].sent
        /\ sync'[a].channels = {"file"} /\ sync'[a].file = d
        /\ sync'[a].asked = sync[a].asked /\ sync'[a].committed = sync[a].committed
    BY <1>4, FunctionTypes DEF Syncs
  <2>4. \A e : Fresh(a, e)' <=> Fresh(a, e)
    BY <2>2, <2>3 DEF Quiet, Fresh, Held
  <2>5. \A e : Accounted(e)' <=> Accounted(e)
    BY <2>2 DEF Quiet, Accounted, Held
  <2>6. ReadInv(a)'
    BY <1>0, <2>1, <2>3, <2>4 DEF ReadInv
  <2>7. OwedInv(a)'
    BY <1>0, <2>1, <2>3, <2>5 DEF OwedInv, Sending
  <2>. QED BY <2>2, <2>6, <2>7, QuietServer DEF Served
<1>5. CASE SaveURIThrows(a)
  BY <1>5, ThrowsServer
<1>. QED BY <1>1, <1>2, <1>3, <1>4, <1>5 DEF UploadNextFile, UploadFile

LEMMA TimerFiresServer ==
  ASSUME TypeOK, ServerInv, NEW a \in Saves, OnlyMoves(a), Control(a), TimerFires(a)
  PROVE  ServerInv'
<1>. USE DEF Timer
<1>0. ReadInv(a) /\ OwedInv(a)
  BY DEF ServerInv
<1>1. CASE CheckVersion(a)
  BY <1>1, OnlyGotoServer, SendServer DEF CheckVersion, Uploading
<1>2. CASE GetCommitMessage(a)
  <2>1. \E s \in {"sendModel", "commitPrompt"} : Goto(a, s)
    BY <1>2 DEF GetCommitMessage, MessageStep
  <2>2. Quiet /\ UNCHANGED <<sync, isModified>>
    BY <1>2, StillQuiet DEF GetCommitMessage, bookVars
  <2>. QED BY <2>1, <2>2, GoServer DEF Uploading
<1>3. CASE SendModel(a) \/ SendModelFails(a)
  BY <1>3, SendModelServer, SendModelFailsServer
<1>4. CASE SendUploadModel(a)
  BY <1>4, SendServer, ThrowsServer DEF SendUploadModel, Uploading
<1>5. CASE PrepareUploads(a)
  <2>1. step[a] \in Uploading
    BY <1>5 DEF PrepareUploads, Uploading
  <2>. QED BY <1>5, <2>1, OnlyGotoServer, ThrowsServer DEF PrepareUploads
<1>6. CASE UploadNextFile(a)
  BY <1>6, UploadNextFileServer
<1>7. CASE FinishUploads(a)
  <2>1. step[a] \in Uploading /\ sync[a].todo = {}
    BY <1>0, <1>7 DEF FinishUploads, Uploading, ReadInv
  <2>. QED BY <1>7, <2>1, SendServer, ThrowsServer DEF FinishUploads
<1>8. CASE Finished(a)
  <2>1. sync[a].committed
    BY <1>0, <1>8 DEF Finished, OwedInv
  <2>2. Served(a)
    BY <1>8, SettleServed DEF Finished
  <2>3. Quiet
    BY <1>8, OutcomeQuiet DEF Finished
  <2>. QED BY <2>1, <2>2, <2>3, QuietServer
<1>9. CASE AbortSeen(a)
  BY <1>9, OutcomeServer DEF AbortSeen
<1>. QED BY <1>1, <1>2, <1>3, <1>4, <1>5, <1>6, <1>7, <1>8, <1>9 DEF TimerFires

LEMMA NoAnswerServer ==
  ASSUME TypeOK, ServerInv, NEW a \in Saves, OnlyMoves(a), NEW early,
         RequestFails(a, early) \/ Refused(a, early)
  PROVE  ServerInv'
<1>1. CASE /\ Goto(a, "silent") /\ Settle(a)
           /\ UNCHANGED <<contentVars, bookVars, lateEdits, siteVars>>
  BY <1>1, StillQuiet, SettleServed, QuietServer DEF bookVars
<1>2. CASE Goto(a, "none") /\ Settle(a) /\ (EndEarly(a, "failed") \/ Unfinished(a, "failed"))
  BY <1>2, OutcomeServer
<1>. QED BY <1>1, <1>2 DEF RequestFails, Refused

\* The server's copy lacks at most what the server asks for.
LEMMA ModelAcceptedServer ==
  ASSUME TypeOK, ServerInv, NEW a \in Saves, OnlyMoves(a), step[a] = "modelRequest",
         ModelAccepted(a)
  PROVE  ServerInv'
<1>1. PICK asked \in SUBSET Docs :
        /\ {d \in Docs : ~ sync[a].known \/ server[d] # ws[d]} \subseteq asked
        /\ sync' = [sync EXCEPT ![a].asked = asked, ![a].todo = asked]
  BY DEF ModelAccepted
<1>2. /\ step'[a] = "prepareUploads"
      /\ sync'[a].got = sync[a].got /\ sync'[a].sent = sync[a].sent
      /\ sync'[a].channels = sync[a].channels /\ sync'[a].asked = asked
      /\ sync'[a].committed = sync[a].committed /\ sync[a].channels = {}
  <2>1. step'[a] = "prepareUploads" /\ sync[a] \in Syncs
    BY FunctionTypes DEF ModelAccepted, Goto
  <2>2. sync[a].channels = {}
    BY DEF TypeOK
  <2>3. sync'[a] = [sync[a] EXCEPT !.asked = asked, !.todo = asked]
    BY <1>1, FunctionTypes
  <2>. QED BY <2>1, <2>2, <2>3 DEF Syncs
<1>3. Quiet /\ UNCHANGED isModified
  BY StillQuiet DEF ModelAccepted, bookVars
<1>4. \A e : (Fresh(a, e)' <=> Fresh(a, e)) /\ (Accounted(e)' <=> Accounted(e))
  BY <1>2, <1>3 DEF Quiet, Fresh, Accounted, Held
<1>5. ReadInv(a) /\ OwedInv(a)
  BY DEF ServerInv
<1>6. ReadInv(a)'
  BY <1>2, <1>4, <1>5 DEF ReadInv
<1>7. ASSUME NEW e \in Entries, e \notin asked, e # Model
      PROVE  Accounted(e)
  BY <1>1, <1>7 DEF Entries, Accounted, Held
<1>8. OwedInv(a)'
  BY <1>2, <1>4, <1>5, <1>7 DEF OwedInv, Sending
<1>. QED BY <1>3, <1>6, <1>8, QuietServer DEF Served

\* A file is read: what is sent of it is what it holds.
LEMMA FileReadServer ==
  ASSUME TypeOK, ServerInv, NEW a \in Saves, OnlyMoves(a), FileRead(a)
  PROVE  ServerInv'
<1>. PICK f \in Docs : f = sync[a].file
  BY DEF ServerInv, FileRead, ReadInv
<1>0. ReadInv(a) /\ OwedInv(a) /\ f # Model /\ f \in Entries
  BY EntryTypes DEF ServerInv
<1>1. /\ step'[a] = step[a]
      /\ sync'[a].got = sync[a].got /\ sync'[a].file = f
      /\ sync'[a].sent = [sync[a].sent EXCEPT ![f] = ws[f]]
      /\ sync'[a].asked = sync[a].asked /\ sync'[a].todo = sync[a].todo
      /\ sync'[a].committed = sync[a].committed
  BY FunctionTypes DEF FileRead, Syncs
<1>2. Quiet /\ UNCHANGED isModified
  BY DEF FileRead, Quiet, windowVars, siteVars, serverVars
<1>3. Fresh(a, f)'
  <2>1. sync'[a].sent[f] = ws[f]
    BY <1>0, <1>1, FunctionTypes DEF Syncs
  <2>. QED BY <1>0, <1>2, <2>1 DEF Fresh, Held, Quiet
<1>4. \A e \in sync[a].got : Fresh(a, e)'
  <2>1. \A e \in sync[a].got : e # f => sync'[a].sent[e] = sync[a].sent[e]
    BY <1>1, FunctionTypes DEF Syncs
  <2>. QED BY <1>0, <1>2, <1>3, <2>1 DEF ReadInv, Fresh, Held, Quiet
<1>5. \A e : Accounted(e)' <=> Accounted(e)
  BY <1>2 DEF Quiet, Accounted, Held
<1>6. ReadInv(a)'
  BY <1>0, <1>1, <1>3, <1>4 DEF ReadInv, Sending
<1>7. OwedInv(a)'
  BY <1>0, <1>1, <1>5 DEF OwedInv, Sending
<1>. QED BY <1>2, <1>6, <1>7, QuietServer DEF Served

\* The closures lose a channel, and may count its file as received.
LEMMA ChannelServed ==
  ASSUME TypeOK, ServerInv, NEW a \in Saves, Quiet, NEW c \in sync[a].channels,
         step'[a] \in {"uploadNextFile", "fileUpload", "stopping"}, step[a] \in Uploading,
         sync'[a].channels = sync[a].channels \ {c},
         \/ sync'[a].got = sync[a].got
         \/ c = "server" /\ sync'[a].got = sync[a].got \cup {sync[a].file},
         sync'[a].sent = sync[a].sent, sync'[a].file = sync[a].file,
         sync'[a].asked = sync[a].asked, sync'[a].committed = sync[a].committed
  PROVE  Served(a)
<1>0. ReadInv(a) /\ OwedInv(a) /\ Sending(a)
  BY SendingWhen DEF ServerInv
<1>1. \A e : (Fresh(a, e)' <=> Fresh(a, e)) /\ (Accounted(e)' <=> Accounted(e))
  BY DEF Quiet, Fresh, Accounted, Held
<1>2. ReadInv(a)'
  BY <1>0, <1>1 DEF ReadInv
<1>3. OwedInv(a)'
  BY <1>0, <1>1 DEF OwedInv, Sending
<1>. QED BY <1>2, <1>3 DEF Served

LEMMA ChannelEndsServer ==
  ASSUME TypeOK, ServerInv, NEW a \in Saves, OnlyMoves(a), NEW c, NEW stored,
         ChannelEnds(a, c, stored)
  PROVE  ServerInv'
<1>1. /\ c \in sync[a].channels /\ step[a] = "fileUpload" /\ step[a] \in Uploading
      /\ step'[a] \in {"uploadNextFile", "fileUpload"}
  BY FunctionTypes DEF ChannelEnds, Event, Goto, Uploading
<1>2. /\ sync'[a].channels = sync[a].channels \ {c}
      /\ \/ sync'[a].got = sync[a].got
         \/ c = "server" /\ sync'[a].got = sync[a].got \cup {sync[a].file}
      /\ sync'[a].sent = sync[a].sent /\ sync'[a].file = sync[a].file
      /\ sync'[a].asked = sync[a].asked /\ sync'[a].committed = sync[a].committed
  BY FunctionTypes DEF ChannelEnds, Syncs
<1>3. Quiet /\ UNCHANGED isModified
  BY StillQuiet DEF ChannelEnds, bookVars
<1>. QED BY <1>1, <1>2, <1>3, ChannelServed, QuietServer

LEMMA CloseChannelServer ==
  ASSUME TypeOK, ServerInv, NEW a \in Saves, OnlyMoves(a), NEW c \in sync[a].channels,
         NEW o, NEW s \in {"fileUpload", "stopping"}, step[a] = s, Unfinished(a, o),
         CloseChannel(a, c), Goto(a, IF sync[a].channels = {c} THEN "none" ELSE s)
  PROVE  ServerInv'
<1>1. Quiet /\ isModified' = TRUE
  BY OutcomeQuiet DEF Unfinished
<1>2. CASE sync[a].channels = {c}
  BY <1>1, <1>2, SettleServed, QuietServer DEF CloseChannel
<1>3. CASE sync[a].channels # {c}
  <2>1. sync' = [sync EXCEPT ![a].channels = sync[a].channels \ {c}, ![a].crossed = TRUE]
    BY <1>3 DEF CloseChannel
  <2>2. /\ sync'[a].channels = sync[a].channels \ {c} /\ sync'[a].got = sync[a].got
        /\ sync'[a].sent = sync[a].sent /\ sync'[a].file = sync[a].file
        /\ sync'[a].asked = sync[a].asked /\ sync'[a].committed = sync[a].committed
    BY <2>1, FunctionTypes DEF Syncs
  <2>3. step'[a] = s /\ step[a] \in Uploading
    BY <1>3, FunctionTypes DEF Goto, Uploading
  <2>. QED BY <1>1, <2>2, <2>3, ChannelServed, QuietServer
<1>. QED BY <1>2, <1>3

LEMMA NetworkAnswersServer ==
  ASSUME TypeOK, ServerInv, NEW a \in Saves, OnlyMoves(a), NetworkAnswers(a)
  PROVE  ServerInv'
<1>. USE DEF Event
<1>0. ReadInv(a) /\ OwedInv(a)
  BY DEF ServerInv
<1>1. CASE VersionAnswered(a)
  <2>1. CASE /\ MessageStep(a)
             /\ UNCHANGED <<contentVars, bookVars, lateEdits, siteVars, sync>>
    <3>1. \E s \in {"sendModel", "commitPrompt"} : Goto(a, s)
      BY <2>1 DEF MessageStep
    <3>. QED BY <2>1, <3>1, StillQuiet, GoServer DEF bookVars, Uploading
  <2>. QED BY <1>1, <2>1, NoAnswerServer DEF VersionAnswered
<1>2. CASE ModelAnswered(a)
  BY <1>2, NoAnswerServer, ModelAcceptedServer DEF ModelAnswered
<1>3. CASE FileRead(a)
  BY <1>3, FileReadServer
<1>4. CASE FinishAnswered(a)
  <2>1. CASE /\ sync[a].committed /\ step[a] = "finishRequest"
             /\ \/ Goto(a, "finished") /\ UNCHANGED sync
                \/ Goto(a, "silent") /\ Settle(a)
             /\ UNCHANGED <<contentVars, bookVars, lateEdits, siteVars>>
    <3>1. step[a] \in Uploading /\ sync[a].todo = {}
      BY <1>0, <2>1 DEF Uploading, ReadInv
    <3>2. Quiet /\ UNCHANGED isModified
      BY <2>1, StillQuiet DEF bookVars
    <3>. QED BY <2>1, <3>1, <3>2, GoServer, SettleServed, QuietServer
  <2>. QED BY <1>4, <2>1, NoAnswerServer DEF FinishAnswered
<1>5. CASE ScriptAnswered(a)
  <2>1. CASE /\ sync[a].committed /\ Goto(a, "none") /\ Settle(a)
             /\ UNCHANGED <<contentVars, lateEdits, serverVars>>
    <3>1. Quiet
      BY <2>1 DEF Quiet, contentVars, serverVars
    <3>. QED BY <2>1, <3>1, SettleServed, QuietServer
  <2>. QED BY <1>5, <2>1, NoAnswerServer DEF ScriptAnswered
<1>6. ASSUME NEW c \in Channels, NEW stored \in BOOLEAN, ChannelEnds(a, c, stored)
      PROVE  ServerInv'
  BY <1>6, ChannelEndsServer
<1>7. ASSUME NEW c \in Channels, ChannelFails(a, c) \/ ChannelCancelled(a, c)
      PROVE  ServerInv'
  BY <1>7, CloseChannelServer DEF ChannelFails, ChannelCancelled
<1>. QED BY <1>1, <1>2, <1>3, <1>4, <1>5, <1>6, <1>7 DEF NetworkAnswers

\* What the server takes is fresh, and what it was not sent is lost or its own.
LEMMA CommitServer ==
  ASSUME TypeOK, ServerInv, NEW a \in Saves, OnlyMoves(a), Commit(a)
  PROVE  ServerInv'
<1>. USE EntryTypes
<1>0. ReadInv(a) /\ OwedInv(a)
  BY DEF ServerInv
<1>1. /\ server' = [e \in Entries |-> IF e \in sync[a].got THEN sync[a].sent[e]
                                                           ELSE server[e]]
      /\ lost' = (lost \ sync[a].got) \cup (sync[a].asked \ (sync[a].got \cup sync[a].todo))
      /\ UNCHANGED <<mem, ws, frameModified, lateEdits, isModified, step>>
  BY DEF Commit, windowVars
<1>2. /\ sync'[a].got = sync[a].got /\ sync'[a].sent = sync[a].sent
      /\ sync'[a].channels = sync[a].channels /\ sync'[a].file = sync[a].file
      /\ sync'[a].asked = sync[a].asked /\ sync'[a].todo = sync[a].todo
  BY FunctionTypes DEF Commit, Syncs
<1>3. \A e \in Entries : Held(e)' = Held(e)
  BY <1>1 DEF Held
<1>4. ASSUME NEW e \in sync[a].got, e \in Entries PROVE Accounted(e)'
  BY <1>0, <1>1, <1>3, <1>4 DEF ReadInv, Fresh, Accounted
<1>5. ASSUME NEW e \in Entries, Accounted(e) PROVE Accounted(e)'
  BY <1>1, <1>3, <1>4, <1>5 DEF Accounted
<1>6. ASSUME NEW e \in Entries PROVE Accounted(e)'
  <2>1. CASE e \in sync[a].got
    BY <1>4, <2>1
  <2>2. CASE e \in sync[a].asked /\ e \notin sync[a].got
    <3>1. sync[a].todo = {}
      BY <1>0 DEF Commit, ReadInv
    <3>. QED BY <1>1, <2>2, <3>1 DEF Accounted
  <2>3. CASE e \notin sync[a].asked /\ e \notin sync[a].got
    <3>1. step[a] = "finishRequest" /\ step[a] \in Uploading
      BY <1>0, <2>3 DEF Commit, ReadInv, Uploading
    <3>2. Accounted(e)
      BY <1>0, <2>3, <3>1 DEF ReadInv, OwedInv
    <3>. QED BY <1>5, <3>2
  <2>. QED BY <2>1, <2>2, <2>3
<1>7. ASSUME NEW b \in Saves PROVE ReadInv(b)' /\ OwedInv(b)'
  <2>0. ReadInv(b) /\ OwedInv(b) /\ sync[b].got \subseteq Entries /\ sync[b].file \in Entries
    BY FunctionTypes DEF ServerInv, Syncs
  <2>1. /\ sync'[b].got = sync[b].got /\ sync'[b].sent = sync[b].sent
        /\ sync'[b].channels = sync[b].channels /\ sync'[b].file = sync[b].file
        /\ sync'[b].asked = sync[b].asked /\ sync'[b].todo = sync[b].todo
        /\ b # a => sync'[b].committed = sync[b].committed
    BY <1>2 DEF OnlyMoves
  <2>2. \A e \in Entries : Fresh(b, e)' <=> Fresh(b, e)
    BY <1>1, <1>3, <2>1 DEF Fresh
  <2>3. ReadInv(b)'
    BY <1>1, <2>0, <2>1, <2>2 DEF ReadInv, Sending
  <2>4. Sending(a)
    BY <1>0 DEF Commit, ReadInv, Uploading, Sending
  <2>5. step[b] = "finished" => sync'[b].committed
    BY <2>0, <2>1 DEF OwedInv, Commit
  <2>6. OwedInv(b)'
    BY <1>1, <1>6, <2>0, <2>1, <2>4, <2>5 DEF OwedInv, Sending
  <2>. QED BY <2>3, <2>6
<1>8. FolderInv'
  BY <1>1 DEF ServerInv, FolderInv
<1>. QED BY <1>6, <1>7, <1>8 DEF ServerInv, CleanInv

LEMMA CancelServer ==
  ASSUME TypeOK, ServerInv, NEW a \in Saves, OnlyMoves(a), a = gPendingSaveRequest,
         CancelPendingSave
  PROVE  ServerInv'
<1>1. \/ step[a] = "versionRequest" /\ Goto(a, "versionAborted")
      \/ step[a] \in {"modelRequest", "finishRequest"} /\ Goto(a, "aborted")
      \/ step[a] = "fileUpload" /\ Goto(a, "stopping")
      \/ UNCHANGED step
  BY DEF CancelPendingSave
<1>2. Quiet /\ UNCHANGED <<isModified, sync>>
  BY StillQuiet DEF CancelPendingSave, bookVars
<1>3. CASE UNCHANGED step
  <2>1. \A e : (Fresh(a, e)' <=> Fresh(a, e)) /\ (Accounted(e)' <=> Accounted(e))
    BY <1>2 DEF Quiet, Fresh, Accounted, Held
  <2>2. Served(a)
    BY <1>2, <1>3, <2>1 DEF Served, ServerInv, ReadInv, OwedInv, Sending
  <2>. QED BY <1>2, <2>2, QuietServer
<1>. QED BY <1>1, <1>2, <1>3, GoServer DEF Uploading

----------------------------------------------------------------------------
(***************************************************************************)
(* The inductive invariant.  A window that closed takes no step; what it   *)
(* closed with is shown when it closes.                                    *)
(***************************************************************************)
OpenInv == (\A a \in Saves : Control(a)) /\ PendingInv /\ ServerInv

Inv == TypeOK /\ ToldOnce /\ (window = "open" => OpenInv)

LEMMA InitInv == Init => Inv
<1>. SUFFICES ASSUME Init PROVE Inv
  OBVIOUS
<1>0. TypeOK
  BY InitType
<1>1. PICK location \in {"none", "server"} : WindowInit(location)
  BY DEF Init, LoadProject, LoadScript
<1>2. \A a \in Saves : /\ step[a] = "none" /\ sync[a] = NoSync
                       /\ phase[a] = "unused" /\ reports[a] = 0
  BY <1>1 DEF Init, WindowInit
<1>3. \A a \in Saves : Control(a)
  BY <1>2 DEF Control, PhaseInv, ToldInv, Early, Sending, NoSync
<1>4. PendingInv
  BY <1>1 DEF PendingInv, IsSavePending, WindowInit
<1>5. \A a \in Saves : ReadInv(a) /\ OwedInv(a)
  BY <1>2 DEF ReadInv, OwedInv, Uploading, NoSync
<1>6. \A e \in Entries : mem[e] = 0 /\ ws[e] = 0 /\ server[e] = 0
  BY <1>1 DEF Init, WindowInit
<1>7. FolderInv /\ CleanInv
  <2>1. \A e \in Entries : Accounted(e)
    BY <1>6 DEF Accounted, Held
  <2>. QED BY <1>6, <2>1, EntryTypes, <1>0 DEF FolderInv, CleanInv
<1>8. ToldOnce
  BY <1>2 DEF ToldOnce
<1>. QED BY <1>0, <1>3, <1>4, <1>5, <1>7, <1>8 DEF Inv, OpenInv, ServerInv

\* The steps of an attempt.
AttemptStep(a) == Commands(a) \/ TimerFires(a) \/ NetworkAnswers(a) \/ Commit(a)
                  \/ CloseSave(a)

LEMMA AttemptInv ==
  ASSUME Inv, window = "open", NEW a \in Saves, AttemptStep(a)
  PROVE  Inv'
<1>. USE DEF Inv, OpenInv
<1>1. Controlled(a)
  BY CommandsControl, TimerFiresControl, NetworkAnswersControl, CommitControl,
     CmdSaveProjectControl DEF AttemptStep, CloseSave
<1>2. ServerInv'
  <2>1. OnlyMoves(a)
    BY <1>1 DEF Controlled
  <2>. QED BY <2>1, CommandsServer, TimerFiresServer, NetworkAnswersServer, CommitServer,
              CmdSaveProjectServer DEF AttemptStep, CloseSave
<1>3. TypeOK'
  <2>1. "quit" \in Callers /\ PhaseInv(a)
    BY DEF Callers, Control
  <2>. QED BY <2>1, CommandsType, TimerFiresType, NetworkAnswersType, CommitType,
              CmdSaveProjectType DEF AttemptStep, CloseSave
<1>4. \A b \in Saves : Control(b)'
  BY <1>1, OthersControl DEF Controlled
<1>5. ToldOnce'
  BY <1>4 DEF ToldOnce, Control, ToldInv
<1>. QED BY <1>1, <1>2, <1>3, <1>4, <1>5 DEF Controlled

LEMMA EditingInv ==
  ASSUME Inv, window = "open", Editing
  PROVE  Inv'
<1>. USE DEF Inv, OpenInv
<1>1. UNCHANGED <<step, sync, phase, reports, gPendingSaveRequest>>
  BY DEF Editing, EditModel, EditDoc, CloseTabSaving, CloseTabDiscarding, saveVars
<1>2. (\A a \in Saves : Control(a)') /\ PendingInv' /\ ToldOnce'
  BY <1>1 DEF Control, PhaseInv, ToldInv, PendingInv, IsSavePending, ToldOnce, Sending
<1>. QED BY <1>2, EditingType, EditingServer

LEMMA CancelInv ==
  ASSUME Inv, window = "open", CancelPendingSave
  PROVE  Inv'
<1>. USE DEF Inv, OpenInv
<1>1. PICK a \in Saves : a = gPendingSaveRequest
  BY DEF CancelPendingSave, IsSavePending, TypeOK, BookTypeOK
<1>2. Controlled(a)
  BY <1>1, CancelControl
<1>3. ServerInv'
  BY <1>1, <1>2, CancelServer DEF Controlled
<1>4. \A b \in Saves : Control(b)'
  BY <1>2, OthersControl DEF Controlled
<1>5. ToldOnce'
  BY <1>4 DEF ToldOnce, Control, ToldInv
<1>. QED BY <1>2, <1>3, <1>4, <1>5, CancelType DEF Controlled

LEMMA CloseAsInv ==
  ASSUME Inv, NEW how \in Windows \ {"open"}, CloseAs(how)
  PROVE  Inv'
<1>1. \A a \in Saves : sync'[a].crossed = sync[a].crossed /\ reports'[a] = reports[a]
  BY FunctionTypes DEF Inv, CloseAs, NoSync, saveVars
<1>2. ToldOnce'
  BY <1>1 DEF Inv, ToldOnce
<1>3. window' # "open"
  BY DEF CloseAs
<1>. QED BY <1>2, <1>3, CloseAsType DEF Inv

\* A step is one of these; only a window that is open takes one.
LEMMA StepCases ==
  ASSUME Next
  PROVE  /\ window = "open"
         /\ \/ Editing \/ CancelPendingSave
            \/ \E a \in Saves : AttemptStep(a)
            \/ \E how \in Windows \ {"open"} : CloseAs(how)
<1>1. CASE Editing
  BY <1>1 DEF Editing, EditModel, EditDoc, CloseTabSaving, CloseTabDiscarding, UserCanAct
<1>2. CASE CancelPendingSave
  BY <1>2 DEF CancelPendingSave, UserCanAct
<1>3. CASE Closing
  <2>1. window = "open"
    BY <1>3 DEF Closing, CloseContinues, CloseClean, CloseDontSave, CloseSave, MayClose,
                UserCanAct
  <2>2. {"continued", "clean", "discarded"} \subseteq Windows \ {"open"}
    BY DEF Windows
  <2>. QED BY <1>3, <2>1, <2>2
       DEF Closing, CloseContinues, CloseClean, CloseDontSave, AttemptStep
<1>4. ASSUME NEW a \in Saves, Commands(a)
      PROVE  window = "open"
  BY <1>4 DEF Commands, UserSaves, UserSavesToServer, CommandsWork, UserCanAct, Autosave,
              LoginFails, LoginSucceeds, StudioDialogAccepted, StudioDialogCancelled,
              PromptAccepted, PromptCancelled
<1>5. ASSUME NEW a \in Saves, TimerFires(a)
      PROVE  window = "open"
  BY <1>5 DEF TimerFires, CheckVersion, GetCommitMessage, SendModel, SendModelFails,
              SendUploadModel, PrepareUploads, UploadNextFile, FinishUploads, Finished,
              AbortSeen, Timer
<1>6. ASSUME NEW a \in Saves, NetworkAnswers(a) \/ Commit(a)
      PROVE  window = "open"
  BY <1>6 DEF NetworkAnswers, VersionAnswered, ModelAnswered, FileRead, FinishAnswered,
              ScriptAnswered, ChannelEnds, ChannelFails, ChannelCancelled, Event, Commit
<1>. QED BY <1>1, <1>2, <1>3, <1>4, <1>5, <1>6 DEF Next, AttemptStep

LEMMA StutterInv ==
  ASSUME Inv, UNCHANGED vars
  PROVE  Inv'
<1>1. TypeOK'
  BY StutterType DEF Inv
<1>2. ToldOnce'
  BY DEF Inv, ToldOnce, vars, windowVars
<1>3. (window = "open" => OpenInv)'
  <2>. SUFFICES ASSUME window = "open" PROVE OpenInv'
    BY DEF vars, windowVars
  <2>1. UNCHANGED <<step, sync, phase, reports, gPendingSaveRequest>>
    BY DEF vars, windowVars
  <2>2. (\A a \in Saves : Control(a)') /\ PendingInv'
    BY <2>1 DEF Inv, OpenInv, Control, PhaseInv, ToldInv, PendingInv, IsSavePending, Sending
  <2>3. Quiet /\ UNCHANGED isModified
    BY DEF vars, windowVars, siteVars, serverVars, Quiet
  <2>4. \A e : Accounted(e)' <=> Accounted(e)
    BY <2>3 DEF Quiet, Accounted, Held
  <2>5. \A a, e : Fresh(a, e)' <=> Fresh(a, e)
    BY <2>1, <2>3 DEF Quiet, Fresh, Held
  <2>6. \A a \in Saves : ReadInv(a)' /\ OwedInv(a)'
    BY <2>1, <2>4, <2>5 DEF Inv, OpenInv, ServerInv, ReadInv, OwedInv, Sending
  <2>7. FolderInv' /\ CleanInv'
    BY <2>3, <2>4 DEF Inv, OpenInv, ServerInv, FolderInv, CleanInv, Quiet
  <2>. QED BY <2>2, <2>6, <2>7 DEF OpenInv, ServerInv
<1>. QED BY <1>1, <1>2, <1>3 DEF Inv

LEMMA StepInv == Inv /\ [Next]_vars => Inv'
BY StepCases, AttemptInv, EditingInv, CancelInv, CloseAsInv, StutterInv

----------------------------------------------------------------------------
\* The model's variables keep their types, whatever saves overlap.
THEOREM ServerTypeCorrect == Spec => []TypeOK
<1>1. Inv => TypeOK
  BY DEF Inv
<1>. QED BY <1>1, InitInv, StepInv, PTL DEF Spec

\* What is pending is a request on the network, or was left by a save that was
\* told to have failed because saveURI() threw.
THEOREM PendingIsRequest == Spec => []PendingHasRequest
<1>1. Inv => PendingHasRequest
  BY DEF Inv, OpenInv, PendingInv, PendingHasRequest, Control, PhaseInv, TypeOK, BookTypeOK,
         IsSavePending
<1>. QED BY <1>1, InitInv, StepInv, PTL DEF Spec

\* A caller is told one outcome, unless an upload went on after the first one.
THEOREM CallersAreToldOnce == Spec => []ToldOnce
<1>1. Inv => ToldOnce
  BY DEF Inv
<1>. QED BY <1>1, InitInv, StepInv, PTL DEF Spec

\* What is accounted for is as the property says, but for modified frames.
LEMMA AccountedOnServer ==
  ASSUME TypeOK, FolderInv, \A e \in Entries : Accounted(e)
  PROVE  \A e \in Entries \ frameModified :
           OnServer(e) \/ mem[e] <= lateEdits[e] \/ e \in lost
<1>1. ASSUME NEW e \in Entries \ frameModified PROVE Held(e) = mem[e]
  BY DEF FolderInv, Held, Entries
<1>. QED BY <1>1 DEF Accounted, OnServer

\* A project that does not ask to be saved is on the server, up to edits made
\* while a save was sending and files whose upload was not checked.
THEOREM CleanIsOnServer == Spec => []CleanMeansOnServer
<1>1. ASSUME Inv PROVE CleanMeansOnServer
  <2>. SUFFICES ASSUME window = "open", ~ ShouldPrompt
                PROVE  \A e \in Entries : OnServer(e) \/ mem[e] <= lateEdits[e] \/ e \in lost
    BY DEF CleanMeansOnServer
  <2>1. frameModified = {} /\ \A e \in Entries : Accounted(e)
    BY <1>1 DEF Inv, OpenInv, ServerInv, CleanInv, ShouldPrompt, IsProjectModified
  <2>. QED BY <1>1, <2>1, AccountedOnServer DEF Inv, OpenInv, ServerInv
<1>. QED BY <1>1, InitInv, StepInv, PTL DEF Spec

\* Only success closes a window, and only a commit is followed by success.
Succeeds(a) ==
  /\ Quiet /\ window' \in {"open", "saved"}
  /\ sync[a].committed

LEMMA TellWindow ==
  ASSUME NEW a, NEW o, o # "succeeded",
         EndEarly(a, o) \/ Unfinished(a, o) \/ \E c : Report(a, c, o)
  PROVE  window' = window
BY DEF EndEarly, Unfinished, Tell, Report, closeVars

LEMMA SaveToItsPlaceWindow ==
  ASSUME NEW a \in Saves, NEW c, SaveToItsPlace(a, c)
  PROVE  window' = window
<1>1. CASE ScriptFails(a, c)
  <2>1. Report(a, c, "failed")
    BY <1>1 DEF ScriptFails
  <2>. QED BY <2>1, TellWindow
<1>. QED BY <1>1 DEF SaveToItsPlace, SaveScript, StartScript, Start, Ask, closeVars

LEMMA CommandsWindow ==
  ASSUME NEW a \in Saves, Commands(a) \/ CloseSave(a)
  PROVE  window' = window
<1>1. ASSUME NEW c, CmdSaveProject(a, c) PROVE window' = window
  BY <1>1, SaveToItsPlaceWindow DEF CmdSaveProject, Ask, closeVars
<1>2. CASE UserSaves(a) \/ UserSavesToServer(a) \/ Autosave(a) \/ CloseSave(a)
  BY <1>1, <1>2, SaveToItsPlaceWindow
     DEF UserSaves, UserSavesToServer, Autosave, CloseSave, Ask, closeVars
<1>3. CASE LoginSucceeds(a)
  <2>1. CASE Report(a, caller[a], "failed")
    BY <2>1, TellWindow
  <2>. QED BY <1>3, <2>1, SaveToItsPlaceWindow DEF LoginSucceeds, Ask, closeVars
<1>4. CASE LoginFails(a) \/ StudioDialogAccepted(a) \/ StudioDialogCancelled(a)
           \/ PromptAccepted(a)
  BY <1>4 DEF LoginFails, StudioDialogAccepted, StudioDialogCancelled, PromptAccepted,
              Start, closeVars
<1>5. CASE PromptCancelled(a)
  BY <1>5, TellWindow DEF PromptCancelled
<1>. QED BY <1>2, <1>3, <1>4, <1>5 DEF Commands

LEMMA TimerFiresWindow ==
  ASSUME Inv, window = "open", NEW a \in Saves, TimerFires(a)
  PROVE  window' = window \/ Succeeds(a)
<1>1. CASE Finished(a)
  <2>1. OwedInv(a) /\ step[a] = "finished"
    BY <1>1 DEF Inv, OpenInv, ServerInv, Finished, Timer
  <2>2. Quiet
    BY <1>1, OutcomeQuiet DEF Finished
  <2>3. window' \in {"open", "saved"}
    BY <1>1 DEF Finished, Succeeded, Tell, Report, closeVars
  <2>. QED BY <2>1, <2>2, <2>3 DEF Succeeds, OwedInv
<1>2. CASE AbortSeen(a) \/ Throws(a) \/ SaveURIThrows(a)
  BY <1>2, TellWindow DEF AbortSeen, Throws, SaveURIThrows
<1>3. CASE SendModelFails(a)
  <2>1. Report(a, sync[a].who, "failed")
    BY <1>3 DEF SendModelFails, Tell
  <2>. QED BY <2>1, TellWindow
<1>4. CASE CheckVersion(a) \/ GetCommitMessage(a) \/ SendModel(a) \/ SendUploadModel(a)
           \/ PrepareUploads(a) \/ UploadNextFile(a) \/ FinishUploads(a)
  BY <1>2, <1>4
     DEF CheckVersion, GetCommitMessage, SendModel, SendUploadModel, PrepareUploads,
         UploadNextFile, FinishUploads, OnlyGoto, Send, SkipFile, UploadFile,
         windowVars, closeVars
<1>. QED BY <1>1, <1>2, <1>3, <1>4 DEF TimerFires

LEMMA NetworkAnswersWindow ==
  ASSUME window = "open", NEW a \in Saves, NetworkAnswers(a)
  PROVE  window' = window \/ Succeeds(a)
<1>1. ASSUME NEW early, RequestFails(a, early) \/ Refused(a, early)
      PROVE  window' = window
  BY <1>1, TellWindow DEF RequestFails, Refused, closeVars
<1>2. CASE ScriptAnswered(a)
  <2>1. CASE /\ sync[a].committed /\ Tell(a, "succeeded")
             /\ UNCHANGED <<contentVars, lateEdits, serverVars>>
    BY <2>1 DEF Succeeds, Quiet, Tell, Report, closeVars, contentVars, serverVars
  <2>. QED BY <1>1, <1>2, <2>1 DEF ScriptAnswered
<1>3. CASE VersionAnswered(a) \/ ModelAnswered(a) \/ FinishAnswered(a)
  BY <1>1, <1>3 DEF VersionAnswered, ModelAnswered, ModelAccepted, FinishAnswered, closeVars
<1>4. CASE FileRead(a)
  BY <1>4 DEF FileRead, windowVars
<1>5. CASE \E c \in Channels, stored \in BOOLEAN : ChannelEnds(a, c, stored)
  BY <1>5 DEF ChannelEnds, closeVars
<1>6. CASE \E c \in Channels : ChannelFails(a, c) \/ ChannelCancelled(a, c)
  BY <1>6, TellWindow DEF ChannelFails, ChannelCancelled
<1>. QED BY <1>2, <1>3, <1>4, <1>5, <1>6 DEF NetworkAnswers

LEMMA SuccessOnServer ==
  ASSUME Inv, window = "open", NEW a \in Saves, Succeeds(a)
  PROVE  ClosedMeansOnServer'
<1>1. TypeOK /\ FolderInv /\ \A e \in Entries : Accounted(e)
  BY DEF Inv, OpenInv, ServerInv, OwedInv, Succeeds
<1>2. \A e \in Entries \ frameModified :
        OnServer(e) \/ mem[e] <= lateEdits[e] \/ e \in lost
  BY <1>1, AccountedOnServer
<1>3. UNCHANGED <<mem, frameModified, lateEdits, server, lost>> /\ window' # "clean"
  BY DEF Succeeds, Quiet
<1>. QED BY <1>2, <1>3 DEF ClosedMeansOnServer, OnServer

LEMMA CloseAsOnServer ==
  ASSUME Inv, window = "open", NEW how, CloseAs(how), how # "saved",
         how = "clean" => ~ ShouldPrompt
  PROVE  ClosedMeansOnServer'
<1>1. window' = how /\ UNCHANGED <<mem, lateEdits, server, lost>>
  BY DEF CloseAs, contentVars, siteVars, serverVars
<1>2. CASE how = "clean"
  <2>1. TypeOK /\ FolderInv /\ frameModified = {} /\ \A e \in Entries : Accounted(e)
    BY <1>2 DEF Inv, OpenInv, ServerInv, CleanInv, ShouldPrompt, IsProjectModified
  <2>2. \A e \in Entries : OnServer(e) \/ mem[e] <= lateEdits[e] \/ e \in lost
    BY <2>1, AccountedOnServer
  <2>. QED BY <1>1, <1>2, <2>2 DEF ClosedMeansOnServer, OnServer
<1>. QED BY <1>1, <1>2 DEF ClosedMeansOnServer

LEMMA ClosedStep ==
  Inv /\ ClosedMeansOnServer /\ [Next]_vars => ClosedMeansOnServer'
<1>. SUFFICES ASSUME Inv, ClosedMeansOnServer, [Next]_vars
              PROVE  ClosedMeansOnServer'
  OBVIOUS
<1>1. CASE UNCHANGED vars
  BY <1>1 DEF ClosedMeansOnServer, OnServer, vars, windowVars, siteVars, serverVars
<1>2. CASE Next
  <2>1. window = "open"
    BY <1>2, StepCases
  <2>2. CASE window' = window
    BY <2>1, <2>2 DEF ClosedMeansOnServer
  <2>3. CASE Editing \/ CancelPendingSave \/ \E a \in Saves : Commit(a)
    BY <2>2, <2>3 DEF Editing, EditModel, EditDoc, CloseTabSaving, CloseTabDiscarding,
                      CancelPendingSave, Commit, windowVars, closeVars
  <2>4. CASE \E a \in Saves : Commands(a) \/ TimerFires(a) \/ NetworkAnswers(a)
                              \/ CloseSave(a)
    BY <2>1, <2>2, <2>4, CommandsWindow, TimerFiresWindow, NetworkAnswersWindow,
       SuccessOnServer
  <2>5. CASE CloseContinues \/ CloseClean \/ CloseDontSave
    BY <2>1, <2>5, CloseAsOnServer DEF CloseContinues, CloseClean, CloseDontSave
  <2>. QED BY <1>2, <2>3, <2>4, <2>5 DEF Next, Closing
<1>. QED BY <1>1, <1>2

\* So is the project of a window that closed without asking, and what frames
\* had saved of one that closed after the save it asked for.
THEOREM ClosedIsOnServer == Spec => []ClosedMeansOnServer
<1>1. Init => ClosedMeansOnServer
  BY DEF Init, LoadProject, LoadScript, WindowInit, ClosedMeansOnServer
<1>. QED BY <1>1, InitInv, StepInv, ClosedStep, PTL DEF Spec
=============================================================================
