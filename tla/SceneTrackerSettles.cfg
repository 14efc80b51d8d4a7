SPECIFICATION Spec
CONSTANTS
  Ids <- IdNumbers
  Texts = {t1, t2}
  NoId = NoId
  NoHeading = NoHeading
  MaxScenes = 2
  MaxDepth = 2
  MaxEdits = 3
INVARIANT
  ListFollowsScript
PROPERTY
  CatchesUp
CHECK_DEADLOCK FALSE
