CONSTANTS
  Uid = {u1}
  TrainId = {t1}
  Station <- Stations
  TrainTotals <- OneTrain
  Date <- TwoDays
  Amount = {1, 2}
  MaxOrders = 3
SPECIFICATION Spec
INVARIANTS
  TypeOK
  SeatsConserved
  QueueMatchesOrders
  OrderNumbersUnique
PROPERTIES
  OrderLifecycle
  ImplementsLedger
