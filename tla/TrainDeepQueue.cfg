CONSTANTS
  Uid = {u1}
  TrainId = {t1}
  Station <- EndStations
  TrainTotals <- OneShuttle
  Date = {1}
  Amount = {1, 2}
  MaxOrders = 5
SPECIFICATION Spec
INVARIANTS
  NoWaiterFits
  NoOvertaking
