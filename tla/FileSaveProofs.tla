--------------------------- MODULE FileSaveProofs ---------------------------
(***************************************************************************)
(* Theorems about FileSave, for every set of documents, files and save     *)
(* attempts.                                                               *)
(***************************************************************************)
EXTENDS FileSave, TLAPS

BookOK == BookTypeOK(Phases, Locations)

LEMMA BlankType == Blank \in Zips /\ NoJob \in Jobs
BY FileAssumption DEF Blank, Zips, NoJob, Jobs, Files

LEMMA ReportType ==
  ASSUME BookOK, NEW a \in Saves, NEW c \in Callers, NEW o \in Outcomes,
         Report(a, c, o)
  PROVE  /\ closeContinuation' \in BOOLEAN
         /\ window' \in Windows
         /\ phase' \in [Saves -> Phases]
         /\ caller' \in [Saves -> Callers]
         /\ reports' \in [Saves -> Nat]
<1>1. closeContinuation' \in BOOLEAN /\ window' \in Windows
  BY DEF BookOK, BookTypeOK, Report, Windows, closeVars
<1>2. phase' \in [Saves -> Phases]
  BY DEF BookOK, BookTypeOK, Report, Phases
<1>3. caller' \in [Saves -> Callers]
  BY DEF BookOK, BookTypeOK, Report, Callers
<1>4. reports' \in [Saves -> Nat]
  BY DEF BookOK, BookTypeOK, Report
<1>. QED BY <1>1, <1>2, <1>3, <1>4

LEMMA WriteType ==
  ASSUME ContentTypeOK, NEW written \in SUBSET frameModified,
         NEW flushed \in BOOLEAN, NEW t \in BOOLEAN, NEW s \in BOOLEAN,
         WriteProjectFiles(written, flushed, t, s)
  PROVE  ContentTypeOK'
BY DEF ContentTypeOK, WriteProjectFiles

LEMMA StartArchiveType ==
  ASSUME TypeOK, NEW a \in Saves, NEW c \in Callers, NEW p \in Files,
         StartArchive(a, c, p)
  PROVE  TypeOK'
<1>1. ContentTypeOK'
  <2>1. SomeSaveRuns \in BOOLEAN /\ (isTemplate \/ c = "template") \in BOOLEAN
    BY DEF SomeSaveRuns
  <2>2. PICK written \in SUBSET frameModified :
          WriteProjectFiles(written, TRUE, isTemplate \/ c = "template", SomeSaveRuns)
    BY DEF StartArchive
  <2>. QED BY <2>1, <2>2, WriteType DEF TypeOK
<1>2. BookOK'
  BY DEF StartArchive, TypeOK, BookOK, BookTypeOK, ModifiedAfterWrite, Phases, closeVars
<1>3. FileTypeOK'
  <2>. USE DEF StartArchive, TypeOK, FileTypeOK
  <2>1. projectFile' \in Files \cup {NoFile}
    OBVIOUS
  <2>2. disk' \in [Files -> DiskEntries]
    <3>1. Partial \in DiskEntries
      BY BlankType DEF Partial, DiskEntries
    <3>. QED BY <3>1
  <2>3. job' \in [Saves -> Jobs]
    <3>1. [file |-> p, queue |-> Entries, zip |-> Blank,
           inPlace |-> disk[p].state = "absent",
           wasModified |-> IsProjectModified] \in Jobs
      BY BlankType DEF Jobs, IsProjectModified, BookTypeOK
    <3>. QED BY <3>1
  <2>. QED BY <2>1, <2>2, <2>3
<1>. QED BY <1>1, <1>2, <1>3 DEF TypeOK, BookOK

LEMMA StartFailsType ==
  ASSUME TypeOK, NEW a \in Saves, NEW c \in Callers, StartFails(a, c)
  PROVE  TypeOK'
<1>1. ContentTypeOK'
  <2>1. SomeSaveRuns \in BOOLEAN /\ (isTemplate \/ c = "template") \in BOOLEAN
    BY DEF SomeSaveRuns
  <2>2. PICK written \in SUBSET frameModified, flushed \in BOOLEAN :
          WriteProjectFiles(written, flushed, isTemplate \/ c = "template", SomeSaveRuns)
    BY DEF StartFails
  <2>. QED BY <2>1, <2>2, WriteType DEF TypeOK
<1>2. BookOK'
  <2>1. Report(a, c, "failed") /\ "failed" \in Outcomes /\ BookOK
    BY DEF StartFails, Outcomes, TypeOK, BookOK
  <2>. QED BY <2>1, ReportType
        DEF StartFails, BookOK, BookTypeOK, ModifiedAfterWrite, IsProjectModified
<1>3. FileTypeOK'
  BY DEF StartFails, TypeOK, FileTypeOK, fileVars
<1>. QED BY <1>1, <1>2, <1>3 DEF TypeOK, BookOK

LEMMA SaveProjectToFileType ==
  ASSUME TypeOK, NEW a \in Saves, NEW c \in Callers, NEW p \in Files,
         SaveProjectToFile(a, c, p)
  PROVE  TypeOK'
BY StartArchiveType, StartFailsType DEF SaveProjectToFile

\* The callbacks keep the types of everything they change.
LEMMA CallbackType ==
  ASSUME TypeOK, NEW a \in Saves, NEW recorded \in BOOLEAN,
         gPendingSaveRequest' \in Saves \cup {NoSave},
         Succeeded(a) \/ Failed(a, recorded) \/ Cancelled(a)
  PROVE  BookOK' /\ projectFile' \in Files \cup {NoFile}
<1>. BookOK /\ caller[a] \in Callers /\ job[a] \in Jobs
  BY DEF TypeOK, BookOK, BookTypeOK, FileTypeOK
<1>1. \E o \in Outcomes : Report(a, caller[a], o)
  BY DEF Succeeded, EndFlags, Failed, Cancelled, Outcomes
<1>2. /\ closeContinuation' \in BOOLEAN
      /\ window' \in Windows
      /\ phase' \in [Saves -> Phases]
      /\ caller' \in [Saves -> Callers]
      /\ reports' \in [Saves -> Nat]
  BY <1>1, ReportType
<1>3. isModified' \in BOOLEAN /\ isTemplate' \in BOOLEAN
  BY DEF Succeeded, EndFlags, Failed, Cancelled, Jobs, BookOK, BookTypeOK
<1>4. saveLocation' \in Locations
  BY DEF Succeeded, EndFlags, Failed, Cancelled, Locations, BookOK, BookTypeOK
<1>5. projectFile' \in Files \cup {NoFile}
  BY DEF Succeeded, EndFlags, Failed, Cancelled, Jobs, TypeOK, FileTypeOK
<1>. QED BY <1>2, <1>3, <1>4, <1>5 DEF BookOK, BookTypeOK

LEMMA EndJobType ==
  ASSUME TypeOK, NEW a \in Saves, EndJob(a)
  PROVE  job' \in [Saves -> Jobs]
BY BlankType DEF EndJob, TypeOK, FileTypeOK

LEMMA AskLocationType ==
  ASSUME TypeOK, NEW a \in Saves, NEW c \in Callers, AskLocation(a, c)
  PROVE  TypeOK'
BY DEF AskLocation, TypeOK, ContentTypeOK, BookTypeOK, FileTypeOK, Phases,
       contentVars, closeVars, fileVars

LEMMA CmdSaveProjectType ==
  ASSUME TypeOK, NEW a \in Saves, NEW c \in {"user"} \cup Closers, CmdSaveProject(a, c)
  PROVE  TypeOK'
<1>1. c \in Callers /\ "user" \in Callers
  BY DEF Callers, Closers
<1>2. projectFile # NoFile => projectFile \in Files
  BY DEF TypeOK, FileTypeOK
<1>. QED BY <1>1, <1>2, SaveProjectToFileType, AskLocationType DEF CmdSaveProject

LEMMA AskingType ==
  ASSUME TypeOK, NEW a \in Saves, Asking(a)
  PROVE  TypeOK'
<1>1. CASE UserSaves(a)
  BY <1>1, CmdSaveProjectType DEF UserSaves
<1>2. CASE \E c \in {"user", "template"} : UserSavesAs(a, c)
  BY <1>2, AskLocationType DEF UserSavesAs, Callers
<1>3. CASE Autosave(a)
  <2>1. projectFile \in Files /\ "autosave" \in Callers
    BY <1>3 DEF Autosave, TypeOK, FileTypeOK, Callers
  <2>. QED BY <1>3, <2>1, SaveProjectToFileType DEF Autosave
<1>4. CASE \E p \in Files : PickLocation(a, p)
  <2>1. caller[a] \in Callers
    BY DEF TypeOK, BookTypeOK
  <2>. QED BY <1>4, <2>1, SaveProjectToFileType DEF PickLocation
<1>5. CASE PickNothing(a)
  BY <1>5 DEF PickNothing, TypeOK, ContentTypeOK, BookTypeOK, FileTypeOK, Phases,
              contentVars, closeVars, fileVars
<1>. QED BY <1>1, <1>2, <1>3, <1>4, <1>5 DEF Asking

LEMMA LandType ==
  ASSUME TypeOK, NEW a \in Saves, NEW d \in DiskEntries, Land(a, d)
  PROVE  disk' \in [Files -> DiskEntries]
BY DEF Land, TypeOK, FileTypeOK

LEMMA ArchiveType ==
  ASSUME TypeOK, NEW a \in Saves, Archive(a)
  PROVE  TypeOK'
<1>. NoSave \in Saves \cup {NoSave} /\ job[a] \in Jobs
  BY DEF TypeOK, FileTypeOK
<1>1. CASE ArchiveEntry(a)
  <2>1. PICK e \in job[a].queue :
          job' = [job EXCEPT
            ![a].queue = @ \ {e},
            ![a].zip.has[e] = ws[e],
            ![a].zip.template = IF e = Model THEN wsTemplate ELSE @]
    BY <1>1 DEF ArchiveEntry
  <2>2. e \in Entries /\ ws[e] \in Nat /\ wsTemplate \in BOOLEAN
    BY <2>1 DEF Jobs, TypeOK, ContentTypeOK
  <2>3. job' \in [Saves -> Jobs]
    BY <2>1, <2>2 DEF TypeOK, FileTypeOK, Jobs, Zips
  <2>. QED BY <1>1, <2>3
        DEF ArchiveEntry, TypeOK, ContentTypeOK, BookTypeOK, FileTypeOK, windowVars
<1>2. CASE ArchiveFails(a)
  <2>1. BookOK' /\ projectFile' \in Files \cup {NoFile}
    BY <1>2, CallbackType DEF ArchiveFails
  <2>2. disk' \in [Files -> DiskEntries]
    <3>1. Absent \in DiskEntries
      BY BlankType DEF Absent, DiskEntries
    <3>. QED BY <1>2, <3>1 DEF ArchiveFails, TypeOK, FileTypeOK
  <2>3. job' \in [Saves -> Jobs]
    BY <1>2, EndJobType DEF ArchiveFails
  <2>. QED BY <1>2, <2>1, <2>2, <2>3
        DEF ArchiveFails, TypeOK, BookOK, FileTypeOK, ContentTypeOK, contentVars
<1>3. CASE ArchiveFinishes(a)
  <2>1. BookOK' /\ projectFile' \in Files \cup {NoFile}
    BY <1>3, CallbackType DEF ArchiveFinishes
  <2>2. disk' \in [Files -> DiskEntries]
    <3>1. Whole(job[a].zip) \in DiskEntries
      BY DEF Whole, DiskEntries, Jobs
    <3>. QED BY <1>3, <3>1, LandType DEF ArchiveFinishes
  <2>3. job' \in [Saves -> Jobs]
    BY <1>3, EndJobType DEF ArchiveFinishes
  <2>. QED BY <1>3, <2>1, <2>2, <2>3
        DEF ArchiveFinishes, TypeOK, BookOK, FileTypeOK, ContentTypeOK, contentVars
<1>4. CASE ArchiveIsBad(a)
  <2>1. BookOK' /\ projectFile' \in Files \cup {NoFile}
    BY <1>4, CallbackType DEF ArchiveIsBad
  <2>2. disk' \in [Files -> DiskEntries]
    <3>1. Corrupt \in DiskEntries
      BY BlankType DEF Corrupt, DiskEntries
    <3>. QED BY <1>4, <3>1, LandType DEF ArchiveIsBad
  <2>3. job' \in [Saves -> Jobs]
    BY <1>4, EndJobType DEF ArchiveIsBad
  <2>. QED BY <1>4, <2>1, <2>2, <2>3
        DEF ArchiveIsBad, TypeOK, BookOK, FileTypeOK, ContentTypeOK, contentVars
<1>. QED BY <1>1, <1>2, <1>3, <1>4 DEF Archive

LEMMA CancelType ==
  ASSUME TypeOK, CancelPendingSave
  PROVE  TypeOK'
<1>. DEFINE a == gPendingSaveRequest
<1>1. a \in Saves /\ gPendingSaveRequest' \in Saves \cup {NoSave}
  BY DEF CancelPendingSave, TypeOK, BookTypeOK
<1>2. Cancelled(a) /\ EndJob(a)
  BY DEF CancelPendingSave
<1>3. BookOK' /\ projectFile' \in Files \cup {NoFile}
  BY <1>1, <1>2, CallbackType
<1>4. job' \in [Saves -> Jobs]
  BY <1>1, <1>2, EndJobType
<1>. QED BY <1>3, <1>4
      DEF CancelPendingSave, TypeOK, BookOK, FileTypeOK, ContentTypeOK, contentVars

LEMMA CloseAsType ==
  ASSUME TypeOK, NEW how \in Windows, CloseAs(how)
  PROVE  TypeOK'
BY DEF CloseAs, TypeOK, ContentTypeOK, BookTypeOK, FileTypeOK, contentVars,
       saveVars, fileVars

LEMMA ClosingType ==
  ASSUME TypeOK, Closing
  PROVE  TypeOK'
<1>1. CASE CloseContinues \/ CloseClean \/ CloseDontSave
  BY <1>1, CloseAsType DEF CloseContinues, CloseClean, CloseDontSave, Windows
<1>2. CASE CloseCancelling
  <2>. DEFINE a == gPendingSaveRequest
  <2>1. a \in Saves /\ job[a] \in Jobs
    BY <1>2 DEF CloseCancelling, IsSavePending, TypeOK, BookTypeOK, FileTypeOK
  <2>2. isModified' \in BOOLEAN /\ isTemplate' \in BOOLEAN
    BY <1>2, <2>1 DEF CloseCancelling, EndFlags, Jobs, TypeOK, BookTypeOK
  <2>3. phase' \in [Saves -> Phases] /\ reports' \in [Saves -> Nat]
    BY <1>2, <2>1 DEF CloseCancelling, TypeOK, BookTypeOK, Phases, Outcomes
  <2>4. job' \in [Saves -> Jobs]
    BY <1>2, <2>1, EndJobType DEF CloseCancelling
  <2>. QED BY <1>2, <2>2, <2>3, <2>4
        DEF CloseCancelling, TypeOK, ContentTypeOK, BookTypeOK, FileTypeOK,
            contentVars, Windows
<1>3. CASE \E a \in Saves, c \in Closers : CloseSave(a, c)
  BY <1>3, CmdSaveProjectType DEF CloseSave
<1>. QED BY <1>1, <1>2, <1>3 DEF Closing

LEMMA EditingType ==
  ASSUME TypeOK, Editing
  PROVE  TypeOK'
<1>. Model \in Entries /\ Docs \subseteq Entries
  BY DEF Entries
<1>. USE DEF Editing, NoteEdit, TypeOK, ContentTypeOK, BookTypeOK, FileTypeOK,
             closeVars, saveVars, fileVars
<1>1. CASE EditModel(SomeSaveRuns)
  BY <1>1 DEF EditModel
<1>2. ASSUME NEW d \in Docs, EditDoc(d, SomeSaveRuns)
      PROVE  TypeOK'
  BY <1>2 DEF EditDoc
<1>3. ASSUME NEW d \in Docs, CloseTabSaving(d, SomeSaveRuns)
      PROVE  TypeOK'
  <2>1. ws' \in [Entries -> Nat] /\ mem' \in [Entries -> Nat]
    BY <1>3 DEF CloseTabSaving
  <2>2. lateEdits' \in [Entries -> Nat]
    BY <1>3, <2>1 DEF CloseTabSaving
  <2>. QED BY <1>3, <2>1, <2>2 DEF CloseTabSaving
<1>4. ASSUME NEW d \in Docs, CloseTabDiscarding(d)
      PROVE  TypeOK'
  <2>. DEFINE late == IF lateEdits[d] > ws[d] THEN ws[d] ELSE lateEdits[d]
  <2>1. late \in Nat /\ ws[d] \in Nat
    OBVIOUS
  <2>2. /\ mem' = [mem EXCEPT ![d] = ws[d]]
        /\ lateEdits' = [lateEdits EXCEPT ![d] = late]
        /\ frameModified' = frameModified \ {d}
    BY <1>4 DEF CloseTabDiscarding
  <2>. HIDE DEF late
  <2>3. mem' \in [Entries -> Nat] /\ lateEdits' \in [Entries -> Nat]
    BY <2>1, <2>2
  <2>. QED BY <1>4, <2>2, <2>3 DEF CloseTabDiscarding
<1>. QED BY <1>1, <1>2, <1>3, <1>4

LEMMA InitType == Init => TypeOK
<1>. SUFFICES ASSUME Init PROVE TypeOK
  OBVIOUS
<1>. PICK location \in Locations : WindowInit(location)
  BY DEF Init, Locations
<1>1. ContentTypeOK
  <2>1. mem \in [Entries -> Nat]
    BY DEF WindowInit
  <2>. QED BY <2>1 DEF WindowInit, ContentTypeOK
<1>2. BookTypeOK(Phases, Locations)
  BY DEF WindowInit, BookTypeOK, Phases, Windows, Callers
<1>3. FileTypeOK
  <2>1. Absent \in DiskEntries /\ Whole(Blank) \in DiskEntries
    BY BlankType DEF DiskEntries, Whole, Absent
  <2>2. projectFile \in Files \cup {NoFile}
    BY FileAssumption DEF Init, Files
  <2>. QED BY <2>1, <2>2, BlankType DEF Init, FileTypeOK
<1>. QED BY <1>1, <1>2, <1>3 DEF TypeOK

LEMMA StutterType == TypeOK /\ UNCHANGED vars => TypeOK'
BY DEF TypeOK, ContentTypeOK, BookTypeOK, FileTypeOK, vars, windowVars, fileVars

\* The model's variables keep their types, whatever saves overlap.
THEOREM TypeCorrect == Spec => []TypeOK
<1>1. TypeOK /\ [Next]_vars => TypeOK'
  BY EditingType, AskingType, ArchiveType, CancelType, ClosingType, StutterType
     DEF Next, CancelButton
<1>. QED BY <1>1, InitType, PTL DEF Spec

----------------------------------------------------------------------------
(***************************************************************************)
(* Every step of a window is a step of SaveRequest or leaves its variables *)
(* alone, provided that what gPendingSaveRequest holds is still running.   *)
(***************************************************************************)
RequestUnchanged == UNCHANGED <<phase, reports, gPendingSaveRequest>>

LEMMA SaveProjectToFileRefines ==
  ASSUME NEW a \in Saves, NEW c, NEW p, phase[a] \in {"unused", "asking"},
         SaveProjectToFile(a, c, p)
  PROVE  Request!Start(a) \/ Request!FailToStart(a)
BY DEF SaveProjectToFile, StartArchive, StartFails, Report, Request!Start,
       Request!FailToStart

LEMMA AskLocationRefines ==
  ASSUME NEW a \in Saves, NEW c, phase[a] = "unused", AskLocation(a, c)
  PROVE  Request!Ask(a)
BY DEF AskLocation, Request!Ask

LEMMA CmdSaveProjectRefines ==
  ASSUME NEW a \in Saves, NEW c, CmdSaveProject(a, c)
  PROVE  Request!Next
BY SaveProjectToFileRefines, AskLocationRefines
   DEF CmdSaveProject, Unused, Request!Next

LEMMA FinishRefines ==
  ASSUME NEW a \in Saves, Archiving(a), gPendingSaveRequest' = NoSave,
         NEW recorded \in BOOLEAN,
         Succeeded(a) \/ Failed(a, recorded) \/ Cancelled(a)
  PROVE  \E o \in Request!Outcomes : Request!Finish(a, o)
BY DEF Succeeded, EndFlags, Failed, Cancelled, Report, Archiving, Request!Outcomes,
       Request!Finish

LEMMA StepRefines ==
  ASSUME TypeOK, NoStalePending, [Next]_vars
  PROVE  Request!Next \/ RequestUnchanged
<1>1. CASE Editing
  BY <1>1 DEF Editing, EditModel, EditDoc, CloseTabSaving, CloseTabDiscarding,
              saveVars, RequestUnchanged
<1>2. ASSUME NEW a \in Saves, Asking(a)
      PROVE  Request!Next
  <2>1. CASE UserSaves(a)
    BY <2>1, CmdSaveProjectRefines DEF UserSaves
  <2>2. CASE \E c \in {"user", "template"} : UserSavesAs(a, c)
    BY <2>2, AskLocationRefines DEF UserSavesAs, Unused, Request!Next
  <2>3. CASE Autosave(a)
    BY <2>3, SaveProjectToFileRefines DEF Autosave, Unused, Request!Next
  <2>4. CASE \E p \in Files : PickLocation(a, p)
    BY <2>4, SaveProjectToFileRefines DEF PickLocation, Request!Next
  <2>5. CASE PickNothing(a)
    BY <2>5 DEF PickNothing, Request!Next, Request!Drop
  <2>. QED BY <1>2, <2>1, <2>2, <2>3, <2>4, <2>5 DEF Asking
<1>3. ASSUME NEW a \in Saves, Archive(a)
      PROVE  Request!Next \/ RequestUnchanged
  <2>1. CASE ArchiveEntry(a)
    BY <2>1 DEF ArchiveEntry, windowVars, RequestUnchanged
  <2>2. CASE ArchiveFails(a) \/ ArchiveFinishes(a) \/ ArchiveIsBad(a)
    BY <2>2, FinishRefines DEF ArchiveFails, ArchiveFinishes, ArchiveIsBad,
                               Request!Next
  <2>. QED BY <1>3, <2>1, <2>2 DEF Archive
<1>4. CASE CancelButton
  <2>1. gPendingSaveRequest \in Saves /\ Archiving(gPendingSaveRequest)
    BY <1>4 DEF CancelButton, CancelPendingSave, TypeOK, BookTypeOK, Archiving,
                NoStalePending, Request!NoStalePending
  <2>. QED BY <1>4, <2>1, FinishRefines
        DEF CancelButton, CancelPendingSave, Request!Next
<1>5. CASE Closing
  <2>1. CASE CloseContinues \/ CloseClean \/ CloseDontSave
    BY <2>1 DEF CloseContinues, CloseClean, CloseDontSave, CloseAs, saveVars,
                RequestUnchanged
  <2>2. CASE CloseCancelling
    <3>1. gPendingSaveRequest \in Saves /\ phase[gPendingSaveRequest] = "running"
      BY <2>2 DEF CloseCancelling, IsSavePending, TypeOK, BookTypeOK,
                  NoStalePending, Request!NoStalePending
    <3>2. Request!Finish(gPendingSaveRequest, "cancelled")
      BY <2>2, <3>1 DEF CloseCancelling, Request!Finish
    <3>. QED BY <3>1, <3>2 DEF Request!Next, Request!Outcomes
  <2>3. CASE \E a \in Saves, c \in Closers : CloseSave(a, c)
    BY <2>3, CmdSaveProjectRefines DEF CloseSave
  <2>. QED BY <1>5, <2>1, <2>2, <2>3 DEF Closing
<1>6. CASE UNCHANGED vars
  BY <1>6 DEF vars, windowVars, RequestUnchanged
<1>. QED BY <1>1, <1>2, <1>3, <1>4, <1>5, <1>6 DEF Next

\* SaveRequest keeps its own promises, step by step.
LEMMA RequestStep ==
  ASSUME TypeOK, NoStalePending, ReportedOnce, Request!Next \/ RequestUnchanged
  PROVE  NoStalePending' /\ ReportedOnce'
<1>. USE DEF TypeOK, BookTypeOK, NoStalePending, ReportedOnce,
             Request!NoStalePending, Request!ReportedOnce, Request!Outcomes
<1>1. CASE RequestUnchanged
  BY <1>1 DEF RequestUnchanged
<1>2. ASSUME NEW a \in Saves, Request!Ask(a) \/ Request!Drop(a)
      PROVE  NoStalePending' /\ ReportedOnce'
  BY <1>2 DEF Request!Ask, Request!Drop
<1>3. ASSUME NEW a \in Saves, Request!Start(a)
      PROVE  NoStalePending' /\ ReportedOnce'
  BY <1>3 DEF Request!Start
<1>4. ASSUME NEW a \in Saves, Request!FailToStart(a)
      PROVE  NoStalePending' /\ ReportedOnce'
  BY <1>4 DEF Request!FailToStart
<1>5. ASSUME NEW a \in Saves, NEW o \in Request!Outcomes, Request!Finish(a, o)
      PROVE  NoStalePending' /\ ReportedOnce'
  BY <1>5 DEF Request!Finish
<1>. QED BY <1>1, <1>2, <1>3, <1>4, <1>5 DEF Request!Next

RequestInv == TypeOK /\ NoStalePending /\ ReportedOnce

LEMMA RequestInvInit == Init => RequestInv
BY InitType DEF Init, WindowInit, RequestInv, NoStalePending, ReportedOnce,
   Request!NoStalePending, Request!ReportedOnce, Request!Outcomes

LEMMA RequestInvStep == RequestInv /\ [Next]_vars => RequestInv'
<1>1. TypeOK /\ [Next]_vars => TypeOK'
  BY EditingType, AskingType, ArchiveType, CancelType, ClosingType, StutterType
     DEF Next, CancelButton
<1>. QED BY <1>1, StepRefines, RequestStep DEF RequestInv

\* No overlap of saves, failure, abort or close leaves a request behind in
\* gPendingSaveRequest.
THEOREM PendingIsNeverStale == Spec => []NoStalePending
BY RequestInvInit, RequestInvStep, PTL DEF Spec, RequestInv

\* Every save that runs is told one outcome, once.
THEOREM EverySaveReportsOnce == Spec => []ReportedOnce
BY RequestInvInit, RequestInvStep, PTL DEF Spec, RequestInv

\* The window's saves implement SaveRequest, what save.js promises its callers.
THEOREM ImplementsRequest == Spec => RefinesRequest
<1>1. Init => Request!Init
  BY DEF Init, WindowInit, Request!Init
<1>2. RequestInv /\ [Next]_vars => [Request!Next]_(Request!vars)
  BY StepRefines DEF RequestInv, RequestUnchanged, Request!vars
<1>. QED BY <1>1, <1>2, RequestInvInit, RequestInvStep, PTL
      DEF Spec, RefinesRequest, Request!Spec

----------------------------------------------------------------------------
(***************************************************************************)
(* The template flag.  Whatever overlaps, a step that ends a template save *)
(* takes the flag back, and one that ends another save leaves it alone.    *)
(***************************************************************************)
OthersStay(a) == \A b \in Saves \ {a} : phase'[b] = phase[b] /\ caller'[b] = caller[b]

LEMMA OwnedByOthers ==
  ASSUME TemplateFlagOwned, NEW a \in Saves, OthersStay(a), isTemplate' => isTemplate,
         isTemplate' => ~ (Archiving(a) /\ caller[a] = "template")
  PROVE  TemplateFlagOwned'
BY DEF TemplateFlagOwned, OthersStay, Archiving

LEMMA OwnedAfterStart ==
  ASSUME TypeOK, TemplateFlagOwned, NEW a \in Saves, NEW c, NEW p,
         phase[a] # "running", SaveProjectToFile(a, c, p)
  PROVE  TemplateFlagOwned'
<1>. USE DEF TypeOK, BookTypeOK
<1>1. CASE StartFails(a, c)
  BY <1>1, OwnedByOthers DEF StartFails, Report, OthersStay, Archiving
<1>2. CASE StartArchive(a, c, p)
  BY <1>2 DEF StartArchive, TemplateFlagOwned, Archiving
<1>. QED BY <1>1, <1>2 DEF SaveProjectToFile

LEMMA OwnedAfterAsk ==
  ASSUME TypeOK, TemplateFlagOwned, NEW a \in Saves, NEW c,
         phase[a] # "running", AskLocation(a, c)
  PROVE  TemplateFlagOwned'
BY OwnedByOthers DEF AskLocation, OthersStay, Archiving, TypeOK, BookTypeOK

LEMMA OwnedAfterCommand ==
  ASSUME TypeOK, TemplateFlagOwned, NEW a \in Saves, NEW c, CmdSaveProject(a, c)
  PROVE  TemplateFlagOwned'
BY OwnedAfterStart, OwnedAfterAsk DEF CmdSaveProject, Unused

LEMMA OwnedAfterAsking ==
  ASSUME TypeOK, TemplateFlagOwned, NEW a \in Saves, Asking(a)
  PROVE  TemplateFlagOwned'
<1>1. CASE UserSaves(a)
  BY <1>1, OwnedAfterCommand DEF UserSaves
<1>2. CASE \E c \in {"user", "template"} : UserSavesAs(a, c)
  BY <1>2, OwnedAfterAsk DEF UserSavesAs, Unused
<1>3. CASE Autosave(a)
  BY <1>3, OwnedAfterStart DEF Autosave, Unused
<1>4. CASE \E p \in Files : PickLocation(a, p)
  BY <1>4, OwnedAfterStart DEF PickLocation
<1>5. CASE PickNothing(a)
  BY <1>5, OwnedByOthers DEF PickNothing, OthersStay, Archiving, TypeOK, BookTypeOK
<1>. QED BY <1>1, <1>2, <1>3, <1>4, <1>5 DEF Asking

LEMMA OwnedAfterEnd ==
  ASSUME TypeOK, TemplateFlagOwned, NEW a \in Saves, NEW o, NEW m,
         EndFlags(a, m), Report(a, caller[a], o)
  PROVE  TemplateFlagOwned'
BY OwnedByOthers DEF EndFlags, Report, OthersStay, TypeOK, BookTypeOK

LEMMA OwnedStep == RequestInv /\ TemplateFlagOwned /\ [Next]_vars => TemplateFlagOwned'
<1>. SUFFICES ASSUME RequestInv, TemplateFlagOwned, [Next]_vars
              PROVE  TemplateFlagOwned'
  OBVIOUS
<1>. TypeOK
  BY DEF RequestInv
<1>1. ASSUME UNCHANGED <<isTemplate, phase, caller>>
      PROVE  TemplateFlagOwned'
  BY <1>1 DEF TemplateFlagOwned, Archiving
<1>2. CASE Editing
  BY <1>2, <1>1 DEF Editing, EditModel, EditDoc, CloseTabSaving,
                    CloseTabDiscarding, saveVars
<1>3. ASSUME NEW a \in Saves, Archive(a)
      PROVE  TemplateFlagOwned'
  <2>1. CASE ArchiveEntry(a)
    BY <2>1, <1>1 DEF ArchiveEntry, windowVars
  <2>2. CASE ArchiveFails(a) \/ ArchiveFinishes(a) \/ ArchiveIsBad(a)
    BY <2>2, OwnedAfterEnd DEF ArchiveFails, ArchiveFinishes, ArchiveIsBad, Succeeded, Failed
  <2>. QED BY <1>3, <2>1, <2>2 DEF Archive
<1>4. CASE CancelButton
  <2>1. gPendingSaveRequest \in Saves
    BY <1>4 DEF CancelButton, CancelPendingSave, TypeOK, BookTypeOK
  <2>. QED BY <1>4, <2>1, OwnedAfterEnd DEF CancelButton, CancelPendingSave, Cancelled
<1>5. CASE CloseContinues \/ CloseClean \/ CloseDontSave
  BY <1>5, <1>1 DEF CloseContinues, CloseClean, CloseDontSave, CloseAs, saveVars
<1>6. CASE CloseCancelling
  <2>1. gPendingSaveRequest \in Saves
    BY <1>6 DEF CloseCancelling, IsSavePending, TypeOK, BookTypeOK
  <2>2. OthersStay(gPendingSaveRequest)
    BY <1>6 DEF CloseCancelling, OthersStay, TypeOK, BookTypeOK
  <2>. QED BY <1>6, <2>1, <2>2, OwnedByOthers DEF CloseCancelling, EndFlags
<1>7. CASE \E a \in Saves, c \in Closers : CloseSave(a, c)
  BY <1>7, OwnedAfterCommand DEF CloseSave
<1>8. CASE UNCHANGED vars
  BY <1>8, <1>1 DEF vars, windowVars
<1>. QED BY <1>2, <1>3, <1>4, <1>5, <1>6, <1>7, <1>8, OwnedAfterAsking DEF Next, Closing

\* isTemplate is set only while a template is being saved, however saves overlap.
THEOREM TemplateFlagIsOwned == Spec => []TemplateFlagOwned
<1>1. Init => TemplateFlagOwned
  BY DEF Init, WindowInit, TemplateFlagOwned
<1>. QED BY <1>1, RequestInvInit, RequestInvStep, OwnedStep, PTL DEF Spec

----------------------------------------------------------------------------
(***************************************************************************)
(* From here on the native picker suspends the window's timers.  Then no   *)
(* two saves run at once (Solo), and every other invariant follows from    *)
(* what the one running save may do.                                       *)
(***************************************************************************)
Solo ==
  /\ \A a \in Saves : Archiving(a) => gPendingSaveRequest = a
  /\ \A a \in Saves : phase[a] = "asking" =>
       ~ IsSavePending /\ \A b \in Saves : phase[b] = "asking" => b = a

\* isTemplate is the running template save's flag, and only that save writes
\* the template file.
TemplateInv ==
  /\ isTemplate <=> \E a \in Saves : Archiving(a) /\ caller[a] = "template"
  /\ \A a \in Saves : Archiving(a) =>
       (job[a].file = TemplatePath <=> caller[a] = "template")
  /\ projectFile \in Paths \cup {NoFile}

\* Neither the flushed project.rdf nor the zip of an ordinary save has the flag.
FlagInv ==
  /\ \A a \in Saves : Archiving(a) /\ caller[a] # "template" =>
       ~ wsTemplate /\ ~ job[a].zip.template
  /\ NoTemplateOnPath

\* A zip written in place is the partial file it started.
InPlaceInv ==
  \A a \in Saves : Archiving(a) /\ job[a].inPlace =>
    disk[job[a].file].state = "partial"

(***************************************************************************)
(* Contents.  kept(e) is what would be left of entry e if every tab were   *)
(* closed without saving.                                                  *)
(***************************************************************************)
kept(e) == IF e = Model THEN mem[e] ELSE ws[e]

KeptIn(zip, e) == zip.has[e] = kept(e) \/ kept(e) <= lateEdits[e]

KeptOnDisk ==
  \A e \in Entries :
    \/ /\ projectFile \in Paths
       /\ disk[projectFile].state = "whole"
       /\ disk[projectFile].zip.has[e] = kept(e)
    \/ kept(e) <= lateEdits[e]

ContentInv ==
  /\ \A e \in Entries : ws[e] <= mem[e]
  /\ \A d \in Docs : d \notin frameModified => ws[d] = mem[d]
  /\ ~ isModified /\ saveLocation = "disk" => KeptOnDisk
  /\ \A a \in Saves : Archiving(a) /\ caller[a] # "template" =>
       /\ \A e \in Entries \ job[a].queue : KeptIn(job[a].zip, e)
       /\ ws[Model] = mem[Model] \/ mem[Model] <= lateEdits[Model]
  /\ \A a \in Saves : /\ Archiving(a) /\ caller[a] = "template"
                      /\ ~ job[a].wasModified /\ saveLocation = "disk"
                      => KeptOnDisk

SoloInv == RequestInv /\ Solo /\ TemplateInv /\ FlagInv /\ InPlaceInv /\ ContentInv

LEMMA SoloInvParts ==
  ASSUME SoloInv
  PROVE  /\ RequestInv /\ TypeOK /\ NoStalePending
         /\ Solo /\ TemplateInv /\ FlagInv /\ InPlaceInv /\ ContentInv
BY DEF SoloInv, RequestInv

\* The only attempt that can start: nothing runs, and no other one is asking.
CanStart(a) ==
  /\ phase[a] \in {"unused", "asking"}
  /\ \A b \in Saves : ~ Archiving(b)
  /\ ~ IsSavePending
  /\ \A b \in Saves : phase[b] = "asking" => b = a

Starts(a, c, p) ==
  /\ CanStart(a)
  /\ p = TemplatePath <=> c = "template"
  /\ SaveProjectToFile(a, c, p)

Asks(a, c) ==
  /\ phase[a] = "unused" /\ ~ IsSavePending /\ ~ PickerOpen
  /\ AskLocation(a, c)

LEMMA CmdSaveProjectCases ==
  ASSUME SoloInv, ~ PickerOpen, NEW a \in Saves, NEW c \in {"user"} \cup Closers,
         CmdSaveProject(a, c)
  PROVE  \/ \E p \in Files : Starts(a, c, p)
         \/ \E d \in {c, "user"} : Asks(a, d)
<1>. Solo /\ TemplateInv
  BY DEF SoloInv
<1>. c # "template" /\ phase[a] = "unused" /\ ~ IsSavePending
  BY DEF Closers, CmdSaveProject, Unused
<1>1. CanStart(a)
  BY WindowAssumption DEF CanStart, Solo, IsSavePending, PickerOpen
<1>2. ASSUME projectFile # NoFile, SaveProjectToFile(a, c, projectFile)
      PROVE  \E p \in Files : Starts(a, c, p)
  <2>1. projectFile \in Files /\ projectFile # TemplatePath
    BY <1>2, FileAssumption DEF TemplateInv, Files
  <2>. QED BY <1>1, <1>2, <2>1 DEF Starts
<1>. QED BY <1>2 DEF CmdSaveProject, Asks

\* What a step of the window can be, when no two saves run at once.
LEMMA StepCases ==
  ASSUME ~ TimersDuringPicker, SoloInv, [Next]_vars
  PROVE  \/ Editing
         \/ \E a \in Saves, c \in Callers : Asks(a, c)
         \/ \E a \in Saves : PickNothing(a)
         \/ \E a \in Saves, c \in Callers, p \in Files : Starts(a, c, p)
         \/ \E a \in Saves : Archive(a)
         \/ CancelPendingSave
         \/ \E how \in Windows : CloseAs(how)
         \/ CloseCancelling
         \/ UNCHANGED vars
<1>. TypeOK /\ Solo /\ TemplateInv
  BY SoloInvParts
<1>. "user" \in Callers /\ "template" \in Callers /\ "autosave" \in Callers
     /\ Closers \subseteq Callers
  BY DEF Callers, Closers
<1>1. ASSUME NEW a \in Saves, Asking(a)
      PROVE  \/ \E c \in Callers : Asks(a, c)
             \/ PickNothing(a)
             \/ \E c \in Callers, p \in Files : Starts(a, c, p)
  <2>1. CASE UserSaves(a)
    BY <2>1, CmdSaveProjectCases DEF UserSaves, CommandsWork, UserCanAct
  <2>2. CASE \E c \in {"user", "template"} : UserSavesAs(a, c)
    BY <2>2 DEF UserSavesAs, CommandsWork, UserCanAct, Unused, Asks
  <2>3. CASE Autosave(a)
    <3>1. projectFile \in Files /\ projectFile # TemplatePath
      BY <2>3, FileAssumption DEF Autosave, TemplateInv, Files
    <3>2. ~ PickerOpen /\ phase[a] = "unused" /\ ~ IsSavePending
      BY <2>3 DEF Autosave, TimersRun, Unused
    <3>3. CanStart(a)
      BY <3>2, WindowAssumption DEF CanStart, Solo, IsSavePending, PickerOpen
    <3>. QED BY <2>3, <3>1, <3>3 DEF Autosave, Starts
  <2>4. CASE \E p \in Files : PickLocation(a, p)
    <3>1. CanStart(a) /\ caller[a] \in Callers
      BY <2>4, WindowAssumption
         DEF PickLocation, CanStart, Solo, IsSavePending, TypeOK, BookTypeOK
    <3>. QED BY <2>4, <3>1 DEF PickLocation, Starts
  <2>. QED BY <1>1, <2>1, <2>2, <2>3, <2>4 DEF Asking
<1>2. ASSUME Closing
      PROVE  \/ \E how \in Windows : CloseAs(how)
             \/ CloseCancelling
             \/ \E a \in Saves, c \in Callers : Asks(a, c)
             \/ \E a \in Saves, c \in Callers, p \in Files : Starts(a, c, p)
  <2>1. CASE CloseContinues \/ CloseClean \/ CloseDontSave
    BY <2>1 DEF CloseContinues, CloseClean, CloseDontSave, Windows
  <2>2. CASE \E a \in Saves, c \in Closers : CloseSave(a, c)
    <3>1. PICK a \in Saves, c \in Closers : CloseSave(a, c)
      BY <2>2
    <3>2. \/ \E p \in Files : Starts(a, c, p)
          \/ \E d \in {c, "user"} : Asks(a, d)
      BY <3>1, CmdSaveProjectCases DEF CloseSave, UserCanAct
    <3>. QED BY <3>2
  <2>. QED BY <1>2, <2>1, <2>2 DEF Closing
<1>. QED BY <1>1, <1>2 DEF Next, CancelButton

(***************************************************************************)
(* What the steps that end a save have in common.                          *)
(***************************************************************************)
Ends(a, o) ==
  /\ Archiving(a)
  /\ gPendingSaveRequest' = NoSave
  /\ phase' = [phase EXCEPT ![a] = o]
  /\ isTemplate' = (isTemplate /\ caller[a] # "template")
  /\ EndJob(a)
  /\ \/ UNCHANGED disk
     \/ \E d \in {Absent, Corrupt, Whole(job[a].zip)} :
          disk' = [disk EXCEPT ![job[a].file] = d]
  /\ UNCHANGED <<contentVars, lateEdits>>

LEMMA EndCases ==
  ASSUME SoloInv, NEW a \in Saves,
         ArchiveFails(a) \/ ArchiveFinishes(a) \/ ArchiveIsBad(a)
  PROVE  \E o \in Outcomes : Ends(a, o)
BY DEF ArchiveFails, ArchiveFinishes, ArchiveIsBad, Succeeded, Failed, EndFlags, Report,
       Land, Ends, Outcomes

LEMMA CancelEnds ==
  ASSUME SoloInv, CancelPendingSave
  PROVE  /\ gPendingSaveRequest \in Saves
         /\ Ends(gPendingSaveRequest, "cancelled")
<1>1. gPendingSaveRequest \in Saves /\ Archiving(gPendingSaveRequest)
  BY SoloInvParts DEF CancelPendingSave, TypeOK, BookTypeOK, Archiving,
     NoStalePending, Request!NoStalePending
<1>. QED BY <1>1 DEF CancelPendingSave, Cancelled, EndFlags, Report, Ends

LEMMA CloseCancels ==
  ASSUME SoloInv, CloseCancelling
  PROVE  /\ gPendingSaveRequest \in Saves
         /\ Ends(gPendingSaveRequest, "cancelled")
BY SoloInvParts DEF CloseCancelling, EndFlags, Ends, IsSavePending, TypeOK, BookTypeOK,
   Archiving, NoStalePending, Request!NoStalePending

LEMMA SoloStep ==
  ASSUME ~ TimersDuringPicker, SoloInv, [Next]_vars
  PROVE  Solo'
<1>. USE SoloInvParts, WindowAssumption
     DEF Solo, Archiving, IsSavePending, TypeOK, BookTypeOK
<1>1. ASSUME UNCHANGED <<phase, gPendingSaveRequest>>
      PROVE  Solo'
  BY <1>1
<1>2. CASE Editing
  BY <1>2, <1>1 DEF Editing, EditModel, EditDoc, CloseTabSaving,
                    CloseTabDiscarding, saveVars
<1>3. ASSUME NEW a \in Saves, NEW c \in Callers, Asks(a, c)
      PROVE  Solo'
  BY <1>3 DEF Asks, AskLocation, PickerOpen
<1>4. ASSUME NEW a \in Saves, PickNothing(a)
      PROVE  Solo'
  BY <1>4 DEF PickNothing
<1>5. ASSUME NEW a \in Saves, NEW c \in Callers, NEW p \in Files, Starts(a, c, p)
      PROVE  Solo'
  <2>1. CASE StartArchive(a, c, p)
    BY <1>5, <2>1 DEF Starts, CanStart, StartArchive
  <2>2. CASE StartFails(a, c)
    BY <1>5, <2>2 DEF Starts, CanStart, StartFails, Report
  <2>. QED BY <1>5, <2>1, <2>2 DEF Starts, SaveProjectToFile
<1>6. ASSUME NEW a \in Saves, NEW o \in Outcomes, Ends(a, o)
      PROVE  Solo'
  BY <1>6 DEF Ends, Outcomes
<1>7. ASSUME NEW a \in Saves, Archive(a)
      PROVE  Solo'
  BY <1>7, <1>1, <1>6, EndCases DEF Archive, ArchiveEntry, windowVars
<1>8. CASE CancelPendingSave
  BY <1>8, <1>6, CancelEnds DEF Outcomes
<1>9. CASE CloseCancelling
  BY <1>9, <1>6, CloseCancels DEF Outcomes
<1>10. CASE (\E how \in Windows : CloseAs(how)) \/ UNCHANGED vars
  BY <1>10, <1>1 DEF CloseAs, saveVars, vars, windowVars
<1>. QED BY <1>2, <1>3, <1>4, <1>5, <1>7, <1>8, <1>9, <1>10, StepCases

\* Once the running save has ended, none is running.
LEMMA NoneRunsAfterEnd ==
  ASSUME SoloInv, NEW a \in Saves, NEW o \in Outcomes, Ends(a, o)
  PROVE  \A b \in Saves : ~ Archiving(b)'
BY SoloInvParts DEF Ends, Solo, Archiving, Outcomes, TypeOK, BookTypeOK

LEMMA TemplateStep ==
  ASSUME ~ TimersDuringPicker, SoloInv, [Next]_vars
  PROVE  TemplateInv'
<1>. USE SoloInvParts DEF TemplateInv, Archiving, TypeOK, BookTypeOK, FileTypeOK
<1>1. ASSUME UNCHANGED <<phase, caller, isTemplate, job, projectFile>>
      PROVE  TemplateInv'
  BY <1>1
<1>2. CASE Editing
  BY <1>2, <1>1 DEF Editing, EditModel, EditDoc, CloseTabSaving,
                    CloseTabDiscarding, saveVars, fileVars
<1>3. ASSUME NEW a \in Saves, NEW c \in Callers, Asks(a, c)
      PROVE  TemplateInv'
  BY <1>3 DEF Asks, AskLocation, fileVars
<1>4. ASSUME NEW a \in Saves, PickNothing(a)
      PROVE  TemplateInv'
  BY <1>4 DEF PickNothing, fileVars
<1>5. ASSUME NEW a \in Saves, NEW c \in Callers, NEW p \in Files, Starts(a, c, p)
      PROVE  TemplateInv'
  <2>1. CASE StartArchive(a, c, p)
    BY <1>5, <2>1 DEF Starts, CanStart, StartArchive
  <2>2. CASE StartFails(a, c)
    BY <1>5, <2>2 DEF Starts, CanStart, StartFails, Report, fileVars
  <2>. QED BY <1>5, <2>1, <2>2 DEF Starts, SaveProjectToFile
<1>6. ASSUME NEW a \in Saves, NEW o \in Outcomes, Ends(a, o),
             projectFile' \in {projectFile} \cup Paths
      PROVE  TemplateInv'
  <2>1. ~ isTemplate'
    BY <1>6 DEF Ends, Solo
  <2>. QED BY <1>6, <2>1, NoneRunsAfterEnd
<1>7. ASSUME NEW a \in Saves, Archive(a)
      PROVE  TemplateInv'
  <2>1. CASE ArchiveEntry(a)
    BY <2>1 DEF ArchiveEntry, windowVars, Jobs
  <2>2. CASE ArchiveFails(a) \/ ArchiveFinishes(a) \/ ArchiveIsBad(a)
    <3>1. projectFile' \in {projectFile} \cup Paths
      BY <2>2 DEF ArchiveFails, ArchiveFinishes, ArchiveIsBad, Succeeded, EndFlags, Failed,
                  Jobs, Files
    <3>. QED BY <2>2, <3>1, <1>6, EndCases
  <2>. QED BY <1>7, <2>1, <2>2 DEF Archive
<1>8. CASE CancelPendingSave
  BY <1>8, <1>6, CancelEnds DEF Outcomes, CancelPendingSave, Cancelled, EndFlags
<1>9. CASE CloseCancelling
  BY <1>9, <1>6, CloseCancels DEF Outcomes, CloseCancelling
<1>10. CASE (\E how \in Windows : CloseAs(how)) \/ UNCHANGED vars
  BY <1>10, <1>1 DEF CloseAs, saveVars, fileVars, vars, windowVars
<1>. QED BY <1>2, <1>3, <1>4, <1>5, <1>7, <1>8, <1>9, <1>10, StepCases

LEMMA InPlaceStep ==
  ASSUME ~ TimersDuringPicker, SoloInv, [Next]_vars
  PROVE  InPlaceInv'
<1>. USE SoloInvParts DEF InPlaceInv, Archiving, TypeOK, BookTypeOK, FileTypeOK
<1>1. ASSUME UNCHANGED <<phase, job, disk>>
      PROVE  InPlaceInv'
  BY <1>1
<1>2. CASE Editing
  BY <1>2, <1>1 DEF Editing, EditModel, EditDoc, CloseTabSaving,
                    CloseTabDiscarding, saveVars, fileVars
<1>3. ASSUME NEW a \in Saves, NEW c \in Callers, Asks(a, c)
      PROVE  InPlaceInv'
  BY <1>3 DEF Asks, AskLocation, fileVars
<1>4. ASSUME NEW a \in Saves, PickNothing(a)
      PROVE  InPlaceInv'
  BY <1>4 DEF PickNothing, fileVars
<1>5. ASSUME NEW a \in Saves, NEW c \in Callers, NEW p \in Files, Starts(a, c, p)
      PROVE  InPlaceInv'
  <2>1. CASE StartArchive(a, c, p)
    BY <1>5, <2>1 DEF Starts, CanStart, StartArchive, Partial
  <2>2. CASE StartFails(a, c)
    BY <1>5, <2>2 DEF Starts, CanStart, StartFails, Report, fileVars
  <2>. QED BY <1>5, <2>1, <2>2 DEF Starts, SaveProjectToFile
<1>6. ASSUME NEW a \in Saves, NEW o \in Outcomes, Ends(a, o)
      PROVE  InPlaceInv'
  BY <1>6, NoneRunsAfterEnd
<1>7. ASSUME NEW a \in Saves, Archive(a)
      PROVE  InPlaceInv'
  <2>1. CASE ArchiveEntry(a)
    <3>1. /\ job'[a].file = job[a].file /\ job'[a].inPlace = job[a].inPlace
          /\ \A b \in Saves \ {a} : job'[b] = job[b]
      BY <2>1 DEF ArchiveEntry, Jobs
    <3>. QED BY <2>1, <3>1 DEF ArchiveEntry, windowVars
  <2>. QED BY <1>7, <2>1, <1>6, EndCases DEF Archive
<1>8. CASE CancelPendingSave
  BY <1>8, <1>6, CancelEnds DEF Outcomes
<1>9. CASE CloseCancelling
  BY <1>9, <1>6, CloseCancels DEF Outcomes
<1>10. CASE (\E how \in Windows : CloseAs(how)) \/ UNCHANGED vars
  BY <1>10, <1>1 DEF CloseAs, saveVars, fileVars, vars, windowVars
<1>. QED BY <1>2, <1>3, <1>4, <1>5, <1>7, <1>8, <1>9, <1>10, StepCases

LEMMA FlagStep ==
  ASSUME ~ TimersDuringPicker, SoloInv, [Next]_vars
  PROVE  FlagInv'
<1>. USE SoloInvParts DEF FlagInv, NoTemplateOnPath, Archiving, TypeOK, BookTypeOK,
                          FileTypeOK, DiskEntries, Zips, Jobs, Files
<1>1. ASSUME UNCHANGED <<phase, caller, wsTemplate, job, disk>>
      PROVE  FlagInv'
  BY <1>1
<1>2. CASE Editing
  BY <1>2, <1>1 DEF Editing, EditModel, EditDoc, CloseTabSaving,
                    CloseTabDiscarding, saveVars, fileVars
<1>3. ASSUME NEW a \in Saves, NEW c \in Callers, Asks(a, c)
      PROVE  FlagInv'
  BY <1>3 DEF Asks, AskLocation, contentVars, fileVars
<1>4. ASSUME NEW a \in Saves, PickNothing(a)
      PROVE  FlagInv'
  BY <1>4 DEF PickNothing, contentVars, fileVars
<1>5. ASSUME NEW a \in Saves, NEW c \in Callers, NEW p \in Files, Starts(a, c, p)
      PROVE  FlagInv'
  <2>1. ~ isTemplate
    BY <1>5 DEF Starts, CanStart, TemplateInv
  <2>2. CASE StartArchive(a, c, p)
    <3>1. wsTemplate' = (c = "template")
      BY <2>1, <2>2 DEF StartArchive, WriteProjectFiles
    <3>2. \A q \in Paths : ~ disk'[q].zip.template
      BY <2>2 DEF StartArchive, Partial, Blank
    <3>. QED BY <1>5, <2>2, <3>1, <3>2 DEF Starts, CanStart, StartArchive, Blank
  <2>3. CASE StartFails(a, c)
    BY <1>5, <2>3 DEF Starts, CanStart, StartFails, Report, fileVars
  <2>. QED BY <1>5, <2>2, <2>3 DEF Starts, SaveProjectToFile
<1>6. ASSUME NEW a \in Saves, NEW o \in Outcomes, Ends(a, o)
      PROVE  FlagInv'
  <2>1. NoTemplateOnPath'
    <3>1. CASE UNCHANGED disk
      BY <3>1
    <3>2. ASSUME NEW d \in {Absent, Corrupt, Whole(job[a].zip)},
                 disk' = [disk EXCEPT ![job[a].file] = d]
          PROVE  NoTemplateOnPath'
      <4>1. job[a].file \in Paths => ~ d.zip.template
        BY <1>6, FileAssumption
           DEF Ends, TemplateInv, Absent, Corrupt, Whole, Blank
      <4>. QED BY <3>2, <4>1
    <3>. QED BY <1>6, <3>1, <3>2 DEF Ends
  <2>. QED BY <1>6, <2>1, NoneRunsAfterEnd
<1>7. ASSUME NEW a \in Saves, Archive(a)
      PROVE  FlagInv'
  <2>1. CASE ArchiveEntry(a)
    <3>1. caller[a] # "template" => ~ job'[a].zip.template
      BY <2>1 DEF ArchiveEntry
    <3>2. \A b \in Saves \ {a} : job'[b] = job[b]
      BY <2>1 DEF ArchiveEntry
    <3>. QED BY <2>1, <3>1, <3>2 DEF ArchiveEntry, windowVars
  <2>. QED BY <1>7, <2>1, <1>6, EndCases DEF Archive
<1>8. CASE CancelPendingSave
  BY <1>8, <1>6, CancelEnds DEF Outcomes
<1>9. CASE CloseCancelling
  BY <1>9, <1>6, CloseCancels DEF Outcomes
<1>10. CASE (\E how \in Windows : CloseAs(how)) \/ UNCHANGED vars
  BY <1>10, <1>1 DEF CloseAs, contentVars, saveVars, fileVars, vars, windowVars
<1>. QED BY <1>2, <1>3, <1>4, <1>5, <1>7, <1>8, <1>9, <1>10, StepCases

----------------------------------------------------------------------------
(* Contents.                                                               *)


\* A step keeps what zips and files keep: what it changes it records as late.
Keeps ==
  \A e \in Entries :
    \/ kept(e)' = kept(e) /\ (kept(e) <= lateEdits[e] => kept(e) <= lateEdits'[e])
    \/ kept(e)' <= lateEdits'[e]

LEMMA KeptOnDiskStays ==
  ASSUME KeptOnDisk, Keeps, UNCHANGED projectFile,
         projectFile \in Paths /\ disk[projectFile].state = "whole" =>
           disk'[projectFile] = disk[projectFile]
  PROVE  KeptOnDisk'
BY DEF KeptOnDisk, Keeps

LEMMA ContentEditing ==
  ASSUME SoloInv, Editing
  PROVE  ContentInv'
<1>. USE SoloInvParts DEF TypeOK, ContentTypeOK, BookTypeOK, FileTypeOK
<1>. /\ Model \in Entries /\ Model \notin Docs
     /\ \A d \in Docs : d \in Entries /\ d # Model
     /\ \A e \in Entries : e # Model => e \in Docs
  BY WindowAssumption DEF Entries
<1>1. UNCHANGED <<disk, job, projectFile, phase, caller, saveLocation>>
  BY DEF Editing, EditModel, EditDoc, CloseTabSaving, CloseTabDiscarding,
         saveVars, fileVars
<1>2. ASSUME EditModel(SomeSaveRuns)
      PROVE  /\ \A e \in Entries : ws'[e] <= mem'[e]
             /\ \A d \in Docs : d \notin frameModified' => ws'[d] = mem'[d]
             /\ Keeps \/ (~ SomeSaveRuns /\ isModified')
             /\ ~ isModified' => UNCHANGED isModified
  BY <1>2 DEF EditModel, NoteEdit, Keeps, kept, ContentInv
<1>3. ASSUME NEW d \in Docs, EditDoc(d, SomeSaveRuns)
      PROVE  /\ \A e \in Entries : ws'[e] <= mem'[e]
             /\ \A x \in Docs : x \notin frameModified' => ws'[x] = mem'[x]
             /\ Keeps
             /\ ~ isModified' => UNCHANGED isModified
  BY <1>3 DEF EditDoc, NoteEdit, Keeps, kept, ContentInv
<1>4. ASSUME NEW d \in Docs, CloseTabSaving(d, SomeSaveRuns)
      PROVE  /\ \A e \in Entries : ws'[e] <= mem'[e]
             /\ \A x \in Docs : x \notin frameModified' => ws'[x] = mem'[x]
             /\ Keeps \/ (~ SomeSaveRuns /\ isModified')
             /\ ~ isModified' => UNCHANGED isModified
  BY <1>4 DEF CloseTabSaving, NoteEdit, Keeps, kept, ContentInv
<1>5. ASSUME NEW d \in Docs, CloseTabDiscarding(d)
      PROVE  /\ \A e \in Entries : ws'[e] <= mem'[e]
             /\ \A x \in Docs : x \notin frameModified' => ws'[x] = mem'[x]
             /\ Keeps
             /\ ~ isModified' => UNCHANGED isModified
  BY <1>5 DEF CloseTabDiscarding, Keeps, kept, ContentInv
<1>6. /\ \A e \in Entries : ws'[e] <= mem'[e]
      /\ \A x \in Docs : x \notin frameModified' => ws'[x] = mem'[x]
      /\ Keeps \/ (~ SomeSaveRuns /\ isModified')
      /\ ~ isModified' => UNCHANGED isModified
      /\ ws'[Model] = ws[Model]
  BY <1>2, <1>3, <1>4, <1>5
     DEF Editing, EditModel, EditDoc, CloseTabSaving, CloseTabDiscarding
<1>7. CASE Keeps
  <2>1. ~ isModified' /\ saveLocation' = "disk" => KeptOnDisk'
    BY <1>1, <1>6, <1>7, KeptOnDiskStays DEF ContentInv
  <2>2. ASSUME NEW a \in Saves, Archiving(a)'
        PROVE  /\ caller[a] # "template" =>
                    /\ \A e \in Entries \ job[a].queue : KeptIn(job[a].zip, e)'
                    /\ ws'[Model] = mem'[Model] \/ mem'[Model] <= lateEdits'[Model]
               /\ caller[a] = "template" /\ ~ job[a].wasModified
                    /\ saveLocation = "disk" => KeptOnDisk'
    <3>1. Archiving(a)
      BY <1>1, <2>2 DEF Archiving
    <3>2. CASE caller[a] # "template"
      BY <1>1, <1>6, <1>7, <3>1, <3>2 DEF ContentInv, KeptIn, Keeps, kept
    <3>3. CASE caller[a] = "template" /\ ~ job[a].wasModified /\ saveLocation = "disk"
      BY <1>1, <1>7, <3>1, <3>3, KeptOnDiskStays DEF ContentInv
    <3>. QED BY <3>2, <3>3
  <2>. QED BY <1>1, <1>6, <2>1, <2>2 DEF ContentInv
<1>8. CASE ~ SomeSaveRuns /\ isModified'
  BY <1>1, <1>6, <1>8 DEF ContentInv, SomeSaveRuns, Archiving
<1>. QED BY <1>6, <1>7, <1>8

\* A step that only starts to ask, stops asking or closes the window.
LEMMA ContentSame ==
  ASSUME SoloInv, UNCHANGED <<contentVars, lateEdits, isModified, saveLocation,
                              projectFile, disk, job>>,
         \A a \in Saves : Archiving(a)' => Archiving(a) /\ caller'[a] = caller[a]
  PROVE  ContentInv'
<1>1. UNCHANGED <<mem, ws, frameModified>>
  BY DEF contentVars
<1>2. \A e \in Entries : kept(e)' = kept(e)
  BY <1>1 DEF kept
<1>3. KeptOnDisk => KeptOnDisk'
  BY <1>1, <1>2 DEF KeptOnDisk
<1>4. \A a \in Saves, e \in Entries : KeptIn(job[a].zip, e) => KeptIn(job[a].zip, e)'
  BY <1>1, <1>2 DEF KeptIn
<1>. QED BY <1>1, <1>3, <1>4, SoloInvParts DEF ContentInv

LEMMA ContentStart ==
  ASSUME SoloInv, NEW a \in Saves, NEW c \in Callers, NEW p \in Files,
         CanStart(a), StartArchive(a, c, p)
  PROVE  ContentInv'
<1>. USE SoloInvParts DEF TypeOK, ContentTypeOK, BookTypeOK, FileTypeOK
<1>. Model \in Entries /\ Docs \subseteq Entries /\ Model \notin Docs
  BY WindowAssumption DEF Entries
<1>1. ~ SomeSaveRuns
  BY DEF CanStart, SomeSaveRuns
<1>2. PICK written \in SUBSET frameModified :
        WriteProjectFiles(written, TRUE, isTemplate \/ c = "template", SomeSaveRuns)
  BY DEF StartArchive
<1>3. /\ UNCHANGED <<mem, lateEdits, projectFile, saveLocation>>
      /\ frameModified' = frameModified \ written
      /\ ws' = [e \in Entries |-> IF e \in written \/ e = Model THEN mem[e] ELSE ws[e]]
  BY <1>1, <1>2 DEF WriteProjectFiles, StartArchive
<1>4. /\ \A e \in Entries : ws'[e] <= mem'[e]
      /\ \A d \in Docs : d \notin frameModified' => ws'[d] = mem'[d]
      /\ ws'[Model] = mem'[Model]
  BY <1>3 DEF ContentInv
<1>5. ASSUME ~ IsProjectModified, saveLocation = "disk"
      PROVE  KeptOnDisk'
  <2>1. KeptOnDisk /\ written = {}
    BY <1>5 DEF IsProjectModified, ContentInv
  <2>2. Keeps
    BY <1>3, <2>1 DEF Keeps, kept
  <2>3. projectFile \in Paths /\ disk[projectFile].state = "whole" =>
          disk'[projectFile] = disk[projectFile]
    BY DEF StartArchive
  <2>. QED BY <1>3, <2>1, <2>2, <2>3, KeptOnDiskStays
<1>6. ~ isModified' /\ saveLocation' = "disk" => KeptOnDisk'
  BY <1>3, <1>5 DEF StartArchive, ModifiedAfterWrite, IsProjectModified
<1>7. \A b \in Saves : Archiving(b)' => b = a
  BY DEF StartArchive, CanStart, Archiving
<1>8. job'[a].queue = Entries /\ job'[a].wasModified = IsProjectModified
  BY DEF StartArchive
<1>. QED BY <1>3, <1>4, <1>5, <1>6, <1>7, <1>8 DEF ContentInv

LEMMA ContentStartFails ==
  ASSUME SoloInv, NEW a \in Saves, NEW c \in Callers, CanStart(a), StartFails(a, c)
  PROVE  ContentInv'
<1>. USE SoloInvParts DEF TypeOK, ContentTypeOK, BookTypeOK, FileTypeOK
<1>. Model \in Entries /\ Docs \subseteq Entries /\ Model \notin Docs
  BY WindowAssumption DEF Entries
<1>1. ~ SomeSaveRuns
  BY DEF CanStart, SomeSaveRuns
<1>2. PICK written \in SUBSET frameModified, flushed \in BOOLEAN :
        WriteProjectFiles(written, flushed, isTemplate \/ c = "template", SomeSaveRuns)
  BY DEF StartFails
<1>3. /\ UNCHANGED <<mem, lateEdits, projectFile, saveLocation, disk, job>>
      /\ frameModified' = frameModified \ written
      /\ ws' = [e \in Entries |-> IF e \in written \/ (e = Model /\ flushed)
                                  THEN mem[e] ELSE ws[e]]
  BY <1>1, <1>2 DEF WriteProjectFiles, StartFails, fileVars
<1>4. /\ \A e \in Entries : ws'[e] <= mem'[e]
      /\ \A d \in Docs : d \notin frameModified' => ws'[d] = mem'[d]
  BY <1>3 DEF ContentInv
<1>5. ~ isModified' /\ saveLocation' = "disk" => KeptOnDisk'
  <2>. SUFFICES ASSUME ~ isModified', saveLocation' = "disk" PROVE KeptOnDisk'
    OBVIOUS
  <2>1. KeptOnDisk /\ written = {}
    BY <1>3 DEF StartFails, ModifiedAfterWrite, IsProjectModified, ContentInv
  <2>2. Keeps
    BY <1>3, <2>1 DEF Keeps, kept
  <2>. QED BY <1>3, <2>1, <2>2, KeptOnDiskStays
<1>6. \A b \in Saves : ~ Archiving(b)'
  BY DEF StartFails, Report, CanStart, Archiving
<1>. QED BY <1>4, <1>5, <1>6 DEF ContentInv

LEMMA ContentEntry ==
  ASSUME SoloInv, NEW a \in Saves, ArchiveEntry(a)
  PROVE  ContentInv'
<1>. USE SoloInvParts DEF TypeOK, ContentTypeOK, BookTypeOK, FileTypeOK
<1>1. UNCHANGED <<mem, ws, frameModified, lateEdits, isModified, saveLocation,
                  projectFile, disk, phase, caller>>
  BY DEF ArchiveEntry, windowVars
<1>2. PICK e \in job[a].queue :
        job' = [job EXCEPT
          ![a].queue = @ \ {e},
          ![a].zip.has[e] = ws[e],
          ![a].zip.template = IF e = Model THEN wsTemplate ELSE @]
  BY DEF ArchiveEntry
<1>3. /\ e \in Entries
      /\ job'[a].queue = job[a].queue \ {e}
      /\ job'[a].zip.has = [job[a].zip.has EXCEPT ![e] = ws[e]]
      /\ job'[a].wasModified = job[a].wasModified
      /\ \A b \in Saves \ {a} : job'[b] = job[b]
  BY <1>2 DEF Jobs, Zips
<1>4. KeptOnDisk => KeptOnDisk'
  BY <1>1 DEF KeptOnDisk, kept
<1>5. ASSUME Archiving(a), caller[a] # "template", NEW f \in Entries \ job'[a].queue
      PROVE  KeptIn(job[a].zip, f)'
  <2>1. kept(f)' = kept(f) /\ lateEdits' = lateEdits
    BY <1>1 DEF kept
  <2>2. CASE f = e
    <3>1. job'[a].zip.has[f] = ws[f]
      BY <1>3, <2>2 DEF Jobs, Zips
    <3>2. ws[f] = kept(f) \/ kept(f) <= lateEdits[f]
      BY <1>5 DEF ContentInv, kept
    <3>. QED BY <2>1, <3>1, <3>2 DEF KeptIn
  <2>3. CASE f # e
    <3>1. job'[a].zip.has[f] = job[a].zip.has[f] /\ f \notin job[a].queue
      BY <1>3, <1>5, <2>3 DEF Jobs, Zips
    <3>2. KeptIn(job[a].zip, f)
      BY <1>5, <3>1 DEF ContentInv
    <3>. QED BY <2>1, <3>1, <3>2 DEF KeptIn
  <2>. QED BY <2>2, <2>3
<1>6. ASSUME NEW b \in Saves, Archiving(b)', caller'[b] # "template"
      PROVE  \A f \in Entries \ job'[b].queue : KeptIn(job[b].zip, f)'
  <2>1. Archiving(b) /\ caller[b] # "template"
    BY <1>1, <1>6 DEF Archiving
  <2>2. CASE b = a
    BY <1>5, <2>1, <2>2
  <2>3. CASE b # a
    BY <1>1, <1>3, <2>1, <2>3 DEF ContentInv, KeptIn, kept
  <2>. QED BY <2>2, <2>3
<1>7. ASSUME NEW b \in Saves, Archiving(b)', caller'[b] = "template",
             ~ job'[b].wasModified, saveLocation' = "disk"
      PROVE  KeptOnDisk'
  BY <1>1, <1>3, <1>4, <1>7 DEF Archiving, ContentInv
<1>8. ASSUME NEW b \in Saves, Archiving(b)', caller'[b] # "template"
      PROVE  ws'[Model] = mem'[Model] \/ mem'[Model] <= lateEdits'[Model]
  BY <1>1, <1>8 DEF Archiving, ContentInv
<1>. QED BY <1>1, <1>4, <1>6, <1>7, <1>8 DEF ContentInv

\* What is left to show of a step that ends the save.
LEMMA ContentEnds ==
  ASSUME SoloInv, NEW a \in Saves, NEW o \in Outcomes, Ends(a, o),
         ~ isModified' /\ saveLocation' = "disk" => KeptOnDisk'
  PROVE  ContentInv'
BY SoloInvParts, NoneRunsAfterEnd DEF Ends, contentVars, ContentInv

\* The template's save ends: the project's own file was not touched.
LEMMA TemplateEnds ==
  ASSUME SoloInv, NEW a \in Saves, NEW o \in Outcomes, Ends(a, o),
         caller[a] = "template", ~ job[a].wasModified, saveLocation = "disk",
         UNCHANGED projectFile
  PROVE  KeptOnDisk'
<1>1. KeptOnDisk
  BY SoloInvParts DEF ContentInv, Ends
<1>2. Keeps
  BY SoloInvParts DEF Keeps, kept, Ends, contentVars, TypeOK, ContentTypeOK
<1>3. job[a].file = TemplatePath
  BY SoloInvParts DEF TemplateInv, Ends
<1>4. projectFile \in Paths => disk'[projectFile] = disk[projectFile]
  BY <1>3, SoloInvParts, FileAssumption DEF Ends, TypeOK, FileTypeOK, Files
<1>. QED BY <1>1, <1>2, <1>4, KeptOnDiskStays

LEMMA ContentFinishes ==
  ASSUME SoloInv, NEW a \in Saves, ArchiveFinishes(a), Succeeded(a)
  PROVE  KeptOnDisk' \/ isModified' \/ saveLocation' # "disk"
<1>. USE SoloInvParts DEF TypeOK, ContentTypeOK, BookTypeOK, FileTypeOK
<1>1. Ends(a, "succeeded")
  BY DEF ArchiveFinishes, Succeeded, EndFlags, Report, Land, Ends
<1>2. CASE caller[a] = "template"
  <2>1. isTemplate
    BY <1>2 DEF TemplateInv, ArchiveFinishes
  <2>2. /\ isModified' = job[a].wasModified
        /\ UNCHANGED <<saveLocation, projectFile>>
    BY <1>2, <2>1 DEF Succeeded, EndFlags
  <2>3. job[a].wasModified \in BOOLEAN
    BY DEF Jobs
  <2>. QED BY <1>1, <1>2, <2>2, <2>3, TemplateEnds DEF Outcomes
<1>3. CASE caller[a] # "template"
  <2>1. ~ isTemplate
    BY <1>3 DEF ArchiveFinishes, TemplateInv, Solo
  <2>2. projectFile' = job[a].file /\ job[a].file \in Paths
    BY <1>3, <2>1 DEF Succeeded, EndFlags, ArchiveFinishes, TemplateInv, Jobs, Files
  <2>3. disk'[job[a].file] = Whole(job[a].zip)
    BY DEF ArchiveFinishes, Land, InPlaceInv, Jobs
  <2>4. \A e \in Entries : KeptIn(job[a].zip, e)
    BY <1>3 DEF ArchiveFinishes, ContentInv
  <2>5. UNCHANGED <<mem, ws, lateEdits>>
    BY DEF ArchiveFinishes, contentVars
  <2>. QED BY <2>2, <2>3, <2>4, <2>5 DEF KeptOnDisk, KeptIn, Whole, kept
<1>. QED BY <1>2, <1>3

LEMMA ContentCancelled ==
  ASSUME SoloInv, NEW a \in Saves, Ends(a, "cancelled"), UNCHANGED saveLocation,
         UNCHANGED projectFile,
         isModified' = IF caller[a] = "template" THEN job[a].wasModified ELSE TRUE
  PROVE  ContentInv'
BY ContentEnds, TemplateEnds, SoloInvParts
   DEF Outcomes, TypeOK, FileTypeOK, Jobs

LEMMA ContentStep ==
  ASSUME ~ TimersDuringPicker, SoloInv, [Next]_vars
  PROVE  ContentInv'
<1>. USE SoloInvParts DEF TypeOK, BookTypeOK
<1>1. CASE Editing
  BY <1>1, ContentEditing
<1>2. ASSUME NEW a \in Saves, NEW c \in Callers, Asks(a, c)
      PROVE  ContentInv'
  BY <1>2, ContentSame DEF Asks, AskLocation, Archiving, fileVars
<1>3. ASSUME NEW a \in Saves, PickNothing(a)
      PROVE  ContentInv'
  BY <1>3, ContentSame DEF PickNothing, Archiving, fileVars
<1>4. ASSUME NEW a \in Saves, NEW c \in Callers, NEW p \in Files, Starts(a, c, p)
      PROVE  ContentInv'
  BY <1>4, ContentStart, ContentStartFails DEF Starts, SaveProjectToFile
<1>5. ASSUME NEW a \in Saves, Archive(a)
      PROVE  ContentInv'
  <2>1. CASE ArchiveEntry(a)
    BY <2>1, ContentEntry
  <2>2. CASE ArchiveFails(a) \/ ArchiveFinishes(a) \/ ArchiveIsBad(a)
    <3>1. PICK o \in Outcomes : Ends(a, o)
      BY <2>2, EndCases
    <3>2. KeptOnDisk' \/ isModified' \/ saveLocation' # "disk"
      BY <2>2, ContentFinishes DEF ArchiveFails, ArchiveFinishes, ArchiveIsBad, Failed, EndFlags
    <3>. QED BY <3>1, <3>2, ContentEnds
  <2>. QED BY <1>5, <2>1, <2>2 DEF Archive
<1>6. CASE CancelPendingSave
  BY <1>6, CancelEnds, ContentCancelled DEF CancelPendingSave, Cancelled, EndFlags
<1>7. CASE CloseCancelling
  BY <1>7, CloseCancels, ContentCancelled DEF CloseCancelling, EndFlags
<1>8. CASE \E how \in Windows : CloseAs(how)
  BY <1>8, ContentSame DEF CloseAs, Archiving, saveVars, fileVars
<1>9. CASE UNCHANGED vars
  BY <1>9, ContentSame DEF vars, windowVars, fileVars, contentVars, Archiving
<1>. QED BY <1>1, <1>2, <1>3, <1>4, <1>5, <1>6, <1>7, <1>8, <1>9, StepCases

----------------------------------------------------------------------------
LEMMA SoloInvInit == Init => SoloInv
<1>. SUFFICES ASSUME Init PROVE SoloInv
  OBVIOUS
<1>. PICK location \in Locations : WindowInit(location)
  BY DEF Init, Locations
<1>0. TypeOK /\ RequestInv
  BY InitType, RequestInvInit
<1>1. \A a \in Saves : phase[a] = "unused"
  BY DEF WindowInit
<1>2. Solo /\ InPlaceInv
  BY <1>1 DEF Solo, InPlaceInv, Archiving
<1>3. TemplateInv
  BY <1>1, FileAssumption DEF Init, WindowInit, TemplateInv, Archiving
<1>4. FlagInv
  BY <1>1 DEF Init, FlagInv, NoTemplateOnPath, Archiving, Files, Whole, Absent, Blank
<1>5. ContentInv
  <2>1. saveLocation = "disk" => KeptOnDisk
    <3>1. saveLocation = "disk" => projectFile = Opened
      BY DEF Init, WindowInit
    <3>2. \A e \in Entries : disk[Opened] = Whole(Blank) /\ kept(e) = 0
      BY FileAssumption, WindowAssumption DEF Init, WindowInit, Files, kept, Entries
    <3>. QED BY <3>1, <3>2, FileAssumption DEF KeptOnDisk, Whole, Blank
  <2>. QED BY <1>1, <2>1 DEF ContentInv, Archiving, WindowInit, Entries
<1>. QED BY <1>0, <1>2, <1>3, <1>4, <1>5 DEF SoloInv

LEMMA SoloInvStep ==
  ASSUME ~ TimersDuringPicker
  PROVE  SoloInv /\ [Next]_vars => SoloInv'
BY RequestInvStep, SoloStep, TemplateStep, FlagStep, InPlaceStep, ContentStep
   DEF SoloInv

\* What is kept on disk is stored, for every entry but those still modified in
\* their frames.
KeptStored ==
  \A e \in Entries \ frameModified : Stored(e) \/ mem[e] <= lateEdits[e]

LEMMA KeptMeansStored == TypeOK /\ ContentInv /\ KeptOnDisk => KeptStored
BY DEF ContentInv, KeptOnDisk, KeptStored, kept, Stored, Entries

LEMMA KeptMeansStoredNext == TypeOK' /\ ContentInv' /\ KeptOnDisk' => KeptStored'
BY KeptMeansStored, PTL

LEMMA CleanFromInv == SoloInv => CleanMeansStored
<1>. SUFFICES ASSUME SoloInv, window = "open", ~ ShouldPrompt
              PROVE  \A e \in Entries : Stored(e) \/ mem[e] <= lateEdits[e]
  BY DEF CleanMeansStored
<1>1. ~ isModified /\ frameModified = {} /\ saveLocation = "disk"
  BY SoloInvParts DEF ShouldPrompt, IsProjectModified, TypeOK, BookTypeOK, Locations
<1>2. KeptOnDisk
  BY <1>1, SoloInvParts DEF ContentInv
<1>. QED BY <1>1, <1>2, SoloInvParts, KeptMeansStored DEF KeptStored

\* A closed window takes no step.
LEMMA ClosedIsFinal == Next => window = "open"
BY DEF Next, Editing, EditModel, EditDoc, CloseTabSaving, CloseTabDiscarding,
       Asking, UserSaves, UserSavesAs, CommandsWork, Autosave, PickLocation,
       PickNothing, Archive, ArchiveEntry, ArchiveFails, ArchiveFinishes,
       ArchiveIsBad, TimersRun, CancelButton, Closing, CloseContinues, CloseClean,
       CloseDontSave, CloseCancelling, CloseSave, UserCanAct

\* The steps that close a window without having asked, or after a save.
LEMMA WindowCases ==
  ASSUME ~ TimersDuringPicker, SoloInv, Next, window' \in {"clean", "saved"}
  PROVE  \/ window' = "clean" /\ CloseClean
         \/ \E a \in Saves : /\ window' = "saved"
                             /\ ArchiveFinishes(a) /\ Succeeded(a)
                             /\ caller[a] \in Closers
<1>1. window = "open"
  BY ClosedIsFinal
<1>2. ASSUME NEW a \in Saves, NEW c \in Callers, NEW p, SaveProjectToFile(a, c, p)
      PROVE  FALSE
  BY <1>1, <1>2 DEF SaveProjectToFile, StartArchive, StartFails, Report, closeVars
<1>3. ASSUME NEW a \in Saves, NEW c, AskLocation(a, c)
      PROVE  FALSE
  BY <1>1, <1>3 DEF AskLocation, closeVars
<1>4. CASE Editing
  BY <1>1, <1>4 DEF Editing, EditModel, EditDoc, CloseTabSaving,
                    CloseTabDiscarding, closeVars
<1>5. CASE \E a \in Saves : PickNothing(a)
  BY <1>1, <1>5 DEF PickNothing, closeVars
<1>6. ASSUME NEW a \in Saves, Archive(a)
      PROVE  window' = "saved" /\ ArchiveFinishes(a) /\ Succeeded(a)
             /\ caller[a] \in Closers
  BY <1>1, <1>6 DEF Archive, ArchiveEntry, ArchiveFails, ArchiveFinishes,
                    ArchiveIsBad, Succeeded, EndFlags, Failed, Report, windowVars, closeVars
<1>7. CASE CancelPendingSave
  BY <1>1, <1>7 DEF CancelPendingSave, Cancelled, EndFlags, Report, closeVars
<1>8. CASE Closing
  <2>1. ASSUME NEW a \in Saves, NEW c \in Closers, CloseSave(a, c)
        PROVE  FALSE
    <3>1. c \in Callers
      BY DEF Callers, Closers
    <3>. QED BY <2>1, <3>1, <1>2, <1>3 DEF CloseSave, CmdSaveProject
  <2>. QED BY <1>1, <1>8, <2>1
        DEF Closing, CloseContinues, CloseClean, CloseDontSave, CloseCancelling, CloseAs
<1>9. ASSUME NEW a \in Saves, Asking(a), ~ PickNothing(a)
      PROVE  FALSE
  <2>1. caller[a] \in Callers /\ {"user", "autosave"} \subseteq Callers
    BY SoloInvParts DEF TypeOK, BookTypeOK, Callers
  <2>. QED BY <1>2, <1>3, <1>9, <2>1
        DEF Asking, UserSaves, CmdSaveProject, UserSavesAs, Autosave, PickLocation
<1>. QED BY <1>4, <1>5, <1>6, <1>7, <1>8, <1>9 DEF Next, CancelButton

LEMMA ClosedStep ==
  ASSUME ~ TimersDuringPicker
  PROVE  SoloInv /\ ClosedMeansStored /\ [Next]_vars => ClosedMeansStored'
<1>. SUFFICES ASSUME SoloInv, ClosedMeansStored, [Next]_vars
              PROVE  ClosedMeansStored'
  OBVIOUS
<1>1. TypeOK' /\ ContentInv'
  BY SoloInvStep DEF SoloInv, RequestInv
<1>2. CASE UNCHANGED vars
  BY <1>2 DEF vars, windowVars, fileVars, ClosedMeansStored, Stored
<1>3. CASE Next /\ window' \in {"clean", "saved"}
  <2>1. CASE window' = "clean" /\ CloseClean
    <3>1. ~ isModified' /\ frameModified' = {} /\ saveLocation' = "disk"
      BY <2>1, SoloInvParts DEF CloseClean, CloseAs, ShouldPrompt, IsProjectModified,
         TypeOK, BookTypeOK, Locations, contentVars
    <3>2. KeptOnDisk'
      BY <3>1, <1>1 DEF ContentInv
    <3>3. \A e \in Entries \ frameModified' : Stored(e)' \/ mem'[e] <= lateEdits'[e]
      BY <1>1, <3>2, KeptMeansStoredNext DEF KeptStored
    <3>. QED BY <2>1, <3>1, <3>3 DEF ClosedMeansStored
  <2>2. ASSUME NEW a \in Saves, window' = "saved", ArchiveFinishes(a), Succeeded(a),
               caller[a] \in Closers
        PROVE  ClosedMeansStored'
    <3>1. ~ isModified' /\ saveLocation' = "disk"
      BY <2>2, SoloInvParts 
         DEF Succeeded, EndFlags, ArchiveFinishes, TemplateInv, Solo, Closers
    <3>2. KeptOnDisk'
      BY <3>1, <1>1 DEF ContentInv
    <3>3. \A e \in Entries \ frameModified' : Stored(e)' \/ mem'[e] <= lateEdits'[e]
      BY <1>1, <3>2, KeptMeansStoredNext DEF KeptStored
    <3>. QED BY <2>2, <3>3 DEF ClosedMeansStored
  <2>. QED BY <1>3, <2>1, <2>2, WindowCases
<1>4. CASE window' \notin {"clean", "saved"}
  BY <1>4 DEF ClosedMeansStored
<1>. QED BY <1>2, <1>3, <1>4

LEMMA WholeStep ==
  ASSUME ~ TimersDuringPicker, SoloInv, [Next]_vars, NEW p \in Files,
         disk[p].state = "whole"
  PROVE  disk'[p].state \notin {"partial", "absent"}
<1>. USE SoloInvParts DEF TypeOK, FileTypeOK
<1>1. CASE UNCHANGED disk
  BY <1>1
<1>2. ASSUME NEW a \in Saves, NEW c \in Callers, NEW q \in Files, Starts(a, c, q)
      PROVE  disk'[p].state \notin {"partial", "absent"}
  BY <1>2 DEF Starts, SaveProjectToFile, StartArchive, StartFails, fileVars
<1>3. ASSUME NEW a \in Saves, Archive(a)
      PROVE  disk'[p].state \notin {"partial", "absent"}
  <2>1. CASE ArchiveEntry(a)
    BY <2>1 DEF ArchiveEntry
  <2>2. CASE ArchiveFails(a)
    BY <2>2 DEF ArchiveFails, InPlaceInv
  <2>3. CASE ArchiveFinishes(a) \/ ArchiveIsBad(a)
    <3>1. \A d \in {Whole(job[a].zip), Corrupt} : d.state \notin {"partial", "absent"}
      BY DEF Whole, Corrupt
    <3>2. \E d \in {Whole(job[a].zip), Corrupt} : Land(a, d)
      BY <2>3 DEF ArchiveFinishes, ArchiveIsBad
    <3>. QED BY <3>1, <3>2 DEF Land
  <2>. QED BY <1>3, <2>1, <2>2, <2>3 DEF Archive
<1>4. CASE Editing \/ (\E a \in Saves : PickNothing(a)) \/ CancelPendingSave
           \/ (\E how \in Windows : CloseAs(how)) \/ CloseCancelling
           \/ UNCHANGED vars \/ (\E a \in Saves, c \in Callers : Asks(a, c))
  BY <1>4, <1>1 DEF Editing, PickNothing, CancelPendingSave, CloseAs, CloseCancelling,
                    Asks, AskLocation, vars, fileVars
<1>. QED BY <1>2, <1>3, <1>4, StepCases

----------------------------------------------------------------------------
(***************************************************************************)
(* The theorems.  All of them are about a platform whose file picker       *)
(* suspends the window's timers: where it does not, the runs show that     *)
(* saves overlap.                                                          *)
(***************************************************************************)

\* While a save runs, isSavePending() says so.
THEOREM PendingIsExact ==
  ASSUME ~ TimersDuringPicker
  PROVE  Spec => []SavePendingExact
<1>1. SoloInv => SavePendingExact
  BY WindowAssumption
     DEF SoloInv, Solo, SavePendingExact, SomeSaveRuns, IsSavePending
<1>. QED BY <1>1, SoloInvInit, SoloInvStep, PTL DEF Spec

\* No project file of the user's is left saying it is a template.
THEOREM NoProjectBecomesTemplate ==
  ASSUME ~ TimersDuringPicker
  PROVE  Spec => []NoTemplateOnPath
<1>1. SoloInv => NoTemplateOnPath
  BY DEF SoloInv, FlagInv
<1>. QED BY <1>1, SoloInvInit, SoloInvStep, PTL DEF Spec

\* A project that does not ask to be saved is in its file, up to edits made
\* while a save was running.
THEOREM CleanIsStored ==
  ASSUME ~ TimersDuringPicker
  PROVE  Spec => []CleanMeansStored
BY CleanFromInv, SoloInvInit, SoloInvStep, PTL DEF Spec

\* So is the project of a window that closed without asking, and what frames
\* had saved of one that closed after the save it asked for.
THEOREM ClosedIsStored ==
  ASSUME ~ TimersDuringPicker
  PROVE  Spec => []ClosedMeansStored
<1>1. Init => ClosedMeansStored
  BY DEF Init, WindowInit, ClosedMeansStored
<1>. QED BY <1>1, SoloInvInit, SoloInvStep, ClosedStep, PTL DEF Spec

\* A whole archive is never replaced by a partial one or by nothing.
THEOREM WholeArchivesStay ==
  ASSUME ~ TimersDuringPicker
  PROVE  Spec => WholeStaysWhole
<1>1. SoloInv /\ [Next]_vars =>
        [\A p \in Files : disk[p].state = "whole" =>
           disk'[p].state \notin {"partial", "absent"}]_vars
  BY WholeStep
<1>. QED BY <1>1, SoloInvInit, SoloInvStep, PTL DEF Spec, WholeStaysWhole
=============================================================================
