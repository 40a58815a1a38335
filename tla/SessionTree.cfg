CONSTANTS
  Value = {1, 2, 3, 4, 5, 6, 7, 8}
SPECIFICATION Spec
INVARIANTS
  RedBlack
PROPERTIES
  ImplementsSet
