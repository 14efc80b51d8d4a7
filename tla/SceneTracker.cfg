SPECIFICATION Spec
CONSTANTS
  Ids <- IdNumbers
  Texts = {t1}
  NoId = NoId
  NoHeading = NoHeading
  MaxScenes = 3
  MaxDepth = 2
  MaxEdits = 4
INVARIANTS
  TypeOK
  ListFollowsScript
  NumbersRise
  UnlockedCountUp
PROPERTIES
  LevelsAreForLocked
  LockedNumbersStay
CHECK_DEADLOCK FALSE
