SPECIFICATION Spec
CONSTANTS
  Docs = {script}
  Script = script
  Model = model
  Saves = {s1, s2}
  NoSave = NoSave
  MaxEdits = 0
  MaxEdited = 0
  AllowLocalSaveCancel = FALSE
INVARIANTS
  PendingHasRequest
  ToldOnce
PROPERTY SaveToServerEnds
CHECK_DEADLOCK FALSE
