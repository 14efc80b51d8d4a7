SPECIFICATION Spec
CONSTANTS
  Docs = {script}
  Model = model
  Saves = {s1, s2, s3}
  NoSave = NoSave
  MaxEdits = 1
  AllowLocalSaveCancel = FALSE
  TimersDuringPicker = FALSE
  Paths = {opened, other}
  Opened = opened
  TemplatePath = template
  NoFile = NoFile
SYMMETRY SaveSymmetry
INVARIANTS
  TypeOK
  SavePendingExact
  TemplateFlagOwned
  CleanMeansStored
  ClosedMeansStored
  NoTemplateOnPath
PROPERTY
  WholeStaysWhole
CHECK_DEADLOCK FALSE
