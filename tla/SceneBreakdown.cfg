SPECIFICATION Spec
CONSTANTS
  bob = bob
  rope = rope
  knife = knife
  Items = {bob, rope, knife}
  Characters = {bob}
  DeptOf <- Departments
  NoElement = NoElement
  NoScene = NoScene
  MaxScenes = 2
  Blankable = {bob}
  MaxEdits = 2
INVARIANTS
  TypeOK
  ListsWellFormed
  MarkedAreListed
  MarkupIsListed
  RemovedStaysRemoved
PROPERTY
  StripsHalf
SYMMETRY
  PropsAlike
CHECK_DEADLOCK FALSE
