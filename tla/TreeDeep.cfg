CONSTANTS
  Key <- Keys
  Value = {0}
  leaf_max_size = 3
  internal_max_size = 4
  MaxPages = 12
SPECIFICATION Spec
INVARIANTS
  BalancedAndFilled
  EachPageHangsOnce
  LookupsFind
  ScansInOrder
