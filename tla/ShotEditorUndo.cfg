SPECIFICATION Spec
CONSTANTS
  Shapes = {a, b}
  Groups = {g}
  Image = image
  Null = Null
  NoTx = NoTx
  MaxStack = 1
SYMMETRY ObjectSymmetry
PROPERTY UndoRestores
CHECK_DEADLOCK FALSE
