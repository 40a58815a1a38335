CONSTANTS
  SIZE_ = 5
  STEP_ = 2
  Key = {0, 1, 2, 5, 7}
  Value = {0, 1}
  MaxLive = 4
SPECIFICATION Spec
INVARIANTS
  FindsTheModel
  SlotsAreTheModel
