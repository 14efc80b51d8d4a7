SPECIFICATION Spec
CONSTANTS
  Docs = {script}
  Model = model
  Saves = {s1, s2}
  NoSave = NoSave
  MaxEdits = 1
  AllowLocalSaveCancel = TRUE
  TimersDuringPicker = TRUE
  Paths = {opened, other}
  Opened = opened
  TemplatePath = template
  NoFile = NoFile
INVARIANTS
  NoStalePending
  ReportedOnce
PROPERTIES
  RefinesRequest
  SaveEnds
CHECK_DEADLOCK FALSE
