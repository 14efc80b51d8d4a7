SPECIFICATION Spec
CONSTANTS
  Shapes = {a, b}
  Groups = {g}
  Image = image
  Null = Null
  NoTx = NoTx
  MaxStack = 2
SYMMETRY ObjectSymmetry
INVARIANTS
  TypeOK
  HistoryFaithful
  UnmodifiedMeansSaved
  ThrowsOverDeletions
CHECK_DEADLOCK FALSE
