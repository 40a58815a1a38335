CONSTANTS
  Key <- SmallKeys
  Value = {0, 1}
  leaf_max_size = 4
  internal_max_size = 4
  MaxPages = 10
SPECIFICATION Spec
INVARIANTS
  TypeOK
  LookupsFind
PROPERTIES
  ImplementsIndex
