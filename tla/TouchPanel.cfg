SPECIFICATION Spec
CONSTANTS
  Controls = {b1, b2}
  MaxConns = 2
  MaxEvents = 4
  MaxLate = 1
SYMMETRY Symmetry
CHECK_DEADLOCK FALSE
INVARIANTS
  TypeOK
  TouchesAreGestures
  ButtonsArePresses
  PostedInOrder
