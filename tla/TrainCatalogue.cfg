CONSTANTS
  Uid = {u1, u2}
  TrainId = {t1, t2}
  Station <- Stations
  TrainTotals <- Catalogue
  Date <- TwoDays
  Amount = {1}
  MaxOrders = 2
SPECIFICATION Spec
INVARIANTS
  AdvertisedIsBuyable
  LookupsNeverMiss
PROPERTIES
  OpenedForGood
