SPECIFICATION Spec
CONSTANTS
  Docs = {script}
  Script = script
  Model = model
  Saves = {s1, s2}
  NoSave = NoSave
  MaxEdits = 1
  MaxEdited = 1
  AllowLocalSaveCancel = FALSE
SYMMETRY SaveSymmetry
INVARIANTS
  TypeOK
  CleanMeansOnServer
  ClosedMeansOnServer
CHECK_DEADLOCK FALSE
