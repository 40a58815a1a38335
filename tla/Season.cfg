CONSTANTS
  Step = 1003
  Longest = 42000
  TrainDescriptions <- Timetable
  Station <- FourStations
  NoPrice = 2147483647
SPECIFICATION QuerySpec
INVARIANTS
  AddFollowsCalendar
  BoardingDayLeadsBack
  JourneysAreMeasured
  TicketsAreTheTimetable
  TransferIsBest
CHECK_DEADLOCK FALSE
