SPECIFICATION Spec
CONSTANTS
  Ids <- IdNumbers
  Texts = {t1}
  NoId = NoId
  NoHeading = NoHeading
  MaxScenes = 3
  MaxDepth = 3
  MaxEdits = 4
PROPERTY
  RenumbersOnCondition
CHECK_DEADLOCK FALSE
