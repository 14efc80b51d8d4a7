SPECIFICATION Spec
CONSTANTS
  Docs = {script}
  Model = model
  Saves = {s1, s2}
  NoSave = NoSave
  MaxEdits = 1
  AllowLocalSaveCancel = FALSE
  TimersDuringPicker = FALSE
  Paths = {opened, other}
  Opened = opened
  TemplatePath = template
  NoFile = NoFile
SYMMETRY SaveSymmetry
INVARIANT ContinuingAsks
CHECK_DEADLOCK FALSE
