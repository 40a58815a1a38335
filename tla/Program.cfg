CONSTANTS
  Uid = {u1, u2}
  Password = {p1}
  Privilege = {9}
  Absent = Absent
  TrainId = {t1}
  Station <- EndStations
  TrainTotals <- OneShuttle
  Date = {1}
  Amount = {1}
  MaxOrders = 2
SPECIFICATION Spec
INVARIANTS
  ReferencesResolve
PROPERTIES
  OwnerActs
  ImplementsTrains
  RefundAnswers
