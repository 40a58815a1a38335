---------------------------- MODULE TrainQueries ----------------------------
(***************************************************************************)
(* The queries of train_sys that compute: query_ticket with its quick      *)
(* sort, query_transfer with its search for the best pair of trains, and   *)
(* the listing of query_train, on the dates and times of struct Clock      *)
(* (src/system/train_system.cpp, src/item/train.cpp).  They change         *)
(* nothing; the behaviour releases trains and walks through the days that  *)
(* may be asked about.                                                     *)
(*                                                                         *)
(* A train name is its rank in the order of strcmp, 0 is the empty name,   *)
(* and a station is its hash.  Seats are left to TrainSystem.              *)
(***************************************************************************)
EXTENDS Clock, Sequences, FiniteSets, SequencesExt

CONSTANTS
  TrainDescriptions,  \* the trains that add_train may describe
  NoPrice             \* INT_MAX

ASSUME NoPriceAssumption == NoPrice \in Nat

VARIABLES
  release,  \* the trains released so far, by name
  routes,   \* index of the routes, a RouteTrain being its own key
  states    \* the departures on sale: <<train_id, date>>

queryVars == <<vars, release, routes, states>>

EmptyName == 0

-----------------------------------------------------------------------------
\* add_train: the times of a train count from the midnight before it leaves
\* its first station; each station adds a stretch to the time before it.
LeaveTime(train) ==
  LET leave[i \in DOMAIN train.stations] ==
        IF i = 1
        THEN FromMinutes(train.start)
        ELSE Add(FromMinutes(train.stopover[i]),
                 Add(FromMinutes(train.travel[i - 1]), leave[i - 1]))
  IN leave

ArriveTime(train) ==
  [i \in DOMAIN train.stations |->
     IF i = 1 THEN FromMinutes(0)
     ELSE Add(FromMinutes(train.travel[i - 1]), LeaveTime(train)[i - 1])]

\* The record that add_train makes of its parameters.
TrainTotal(train) ==
  [stations |-> train.stations, price |-> train.price, begin |-> train.begin,
   end |-> train.end, leave_time |-> LeaveTime(train), arrive_time |-> ArriveTime(train)]

FindStation(train, station) ==
  CHOOSE i \in DOMAIN train.stations : train.stations[i] = station

PriceUpTo(train, i) == FoldLeft(LAMBDA sum, p : sum + p, 0, SubSeq(train.price, 1, i - 1))

\* The loop of ReleaseTrain over the dates of the sale.
RECURSIVE SaleFrom(_, _)
SaleFrom(date, end) ==
  IF Compare(date, end) > 0 THEN {} ELSE {date} \cup SaleFrom(Add(date, OneDay), end)

RoutesOf(id, train) ==
  {[origin |-> train.stations[s[1]], des |-> train.stations[s[2]],
    start_time |-> Add(CutTime(train.leave_time[s[1]]), train.begin),
    train_id |-> id, delta_day |-> train.leave_time[s[1]].day] :
     s \in {t \in (DOMAIN train.stations) \X (DOMAIN train.stations) : t[1] < t[2]}}

-----------------------------------------------------------------------------
\* RouteTComparator.
RouteLess(r, s) ==
  LET start == Compare(r.start_time, s.start_time)
  IN \/ r.origin < s.origin
     \/ r.origin = s.origin /\ r.des < s.des
     \/ r.origin = s.origin /\ r.des = s.des /\ start < 0
     \/ r.origin = s.origin /\ r.des = s.des /\ start = 0 /\ r.train_id < s.train_id

InOrder(some) ==
  [i \in 1 .. Cardinality(some) |->
     CHOOSE r \in some : Cardinality({s \in some : RouteLess(s, r)}) = i - 1]

\* The routes that an iterator from KeyBegin passes.
RoutesFrom(origin) == InOrder({r \in routes : r.origin = origin})
RoutesBetween(origin, des) == InOrder({r \in routes : r.origin = origin /\ r.des = des})

Days(n) == Clock(0, n, 0, 0)

\* TrainTotal::CompleteRoute
CompleteRoute(route, date) ==
  LET train == release[route.train_id]
      origin == FindStation(train, route.origin)
      des == FindStation(train, route.des)
  IN [train_id |-> route.train_id,
      start_time |-> Add(date, train.leave_time[origin]),
      total_time |-> Minus(train.arrive_time[des], train.leave_time[origin]),
      price |-> PriceUpTo(train, des) - PriceUpTo(train, origin)]

ArriveAt(target) == Add(target.start_time, target.total_time)

\* RouteUComparatorA (by time) and RouteUComparatorB (by price).
RouteCompare(lhs, rhs, time) ==
  LET result == IF time THEN Compare(lhs.total_time, rhs.total_time)
                ELSE lhs.price - rhs.price
  IN IF result # 0 THEN result ELSE lhs.train_id - rhs.train_id

\* The two loops that move right down and left up, and the moves of the hole.
RECURSIVE Partition(_, _, _, _, _)
Partition(a, left, right, bound, time) ==
  LET r == Max({i \in left .. right : i = left \/ RouteCompare(a[i], bound, time) <= 0})
      filled == [a EXCEPT ![left] = a[r]]
      l == Min({i \in left .. r : i = r \/ RouteCompare(filled[i], bound, time) > 0})
      emptied == [filled EXCEPT ![r] = filled[l]]
  IN IF l < r
     THEN Partition(emptied, l, r, bound, time)
     ELSE [at |-> l, items |-> [emptied EXCEPT ![l] = bound]]

\* A mistake: the item left of the bound is never sorted in.
RECURSIVE QuickSortShort(_, _, _, _)
QuickSortShort(a, start, end, time) ==
  IF start >= end
  THEN a
  ELSE LET middle == (start + end) \div 2
           split == Partition([a EXCEPT ![middle] = a[start]], start, end, a[middle], time)
       IN QuickSortShort(QuickSortShort(split.items, start, split.at - 2, time),
                         split.at + 1, end, time)

\* RouteQuickSortT and RouteQuickSortP.
RECURSIVE QuickSort(_, _, _, _)
QuickSort(a, start, end, time) ==
  IF start >= end
  THEN a
  ELSE LET middle == (start + end) \div 2
           split == Partition([a EXCEPT ![middle] = a[start]], start, end, a[middle], time)
       IN QuickSort(QuickSort(split.items, start, split.at - 1, time),
                    split.at + 1, end, time)

TrainDate(route, date) == Minus(date, Days(route.delta_day))
OnSale(route, date) == <<route.train_id, date>> \in states

QueryTicket(origin, des, date, time) ==
  LET shown == SelectSeq(RoutesBetween(origin, des),
                         LAMBDA r : OnSale(r, TrainDate(r, date)))
      results == [i \in DOMAIN shown |-> CompleteRoute(shown[i], TrainDate(shown[i], date))]
  IN QuickSort(results, 1, Len(results), time)

\* The stations of a train with the times and prices of one departure, for a
\* train that is found and a date of its sale; otherwise the answer is -1.
QueryTrain(id, date) ==
  LET train == release[id]
  IN [i \in DOMAIN train.stations |->
        [station |-> train.stations[i], price |-> PriceUpTo(train, i),
         arrive |-> Add(train.arrive_time[i], date), leave |-> Add(train.leave_time[i], date)]]

-----------------------------------------------------------------------------
\* A mistake: a train that leaves at the minute of arrival is missed.
SecondDateStrict(arrive_time, route) ==
  LET day == CutDate(arrive_time)
      caught == IF Compare(CutTime(arrive_time), CutTime(route.start_time)) >= 0
                THEN Add(day, OneDay) ELSE day
      departs == Minus(caught, Days(route.delta_day))
      begin == CutDate(route.start_time)
  IN IF Compare(departs, begin) < 0 THEN begin ELSE departs

\* The departure of the second train that is caught: on the day of arrival or
\* the day after, but not before its sale begins.
SecondDate(arrive_time, route) ==
  LET day == CutDate(arrive_time)
      caught == IF Compare(CutTime(arrive_time), CutTime(route.start_time)) > 0
                THEN Add(day, OneDay) ELSE day
      departs == Minus(caught, Days(route.delta_day))
      begin == CutDate(route.start_time)
  IN IF Compare(departs, begin) < 0 THEN begin ELSE departs

\* The state of the search before it has seen a pair of trains.
NoTransfer == [first |-> EmptyName, second |-> EmptyName, price |-> NoPrice,
               total_time |-> Days(32)]

\* What is kept of a pair of trains; transfer is the station of the change.
Transfer(transfer, first, second) ==
  [transfer |-> transfer, first |-> first.train_id, second |-> second.train_id,
   price |-> first.price + second.price,
   total_time |-> Minus(ArriveAt(second), first.start_time),
   leave |-> first.start_time, change |-> <<ArriveAt(first), second.start_time>>,
   arrive |-> ArriveAt(second)]

\* The comparison of four levels.
Improves(found, best, time) ==
  LET lasts == Compare(found.total_time, best.total_time)
      costs == found.price - best.price
      major == IF time THEN lasts ELSE costs
      minor == IF time THEN costs ELSE lasts
      even == major = 0 /\ minor = 0
  IN \/ major < 0
     \/ major = 0 /\ minor < 0
     \/ even /\ found.first < best.first
     \/ even /\ found.first = best.first /\ found.second < best.second

\* The loop over iter2, for one first train.
BestOver(best, route, first, des, time) ==
  LET Consider(b, r) ==
        LET date == SecondDate(ArriveAt(first), r)
            found == Transfer(route.des, first, CompleteRoute(r, date))
        IN IF r.train_id # first.train_id /\ OnSale(r, date) /\ Improves(found, b, time)
           THEN found ELSE b
  IN FoldLeft(Consider, best, RoutesBetween(route.des, des))

\* The best pair of trains; 0 is printed while the price is still NoPrice.
QueryTransfer(origin, des, date, time) ==
  LET Consider(best, r) ==
        IF OnSale(r, TrainDate(r, date))
        THEN BestOver(best, r, CompleteRoute(r, TrainDate(r, date)), des, time)
        ELSE best
  IN FoldLeft(Consider, NoTransfer, RoutesFrom(origin))

-----------------------------------------------------------------------------
QueryInit == Init /\ release = <<>> /\ routes = {} /\ states = {}

\* add_train, and release_train of the train added.
ReleaseTrain(description) ==
  LET id == description.train_id
      train == TrainTotal(description)
  IN /\ id \notin DOMAIN release
     /\ release' = [i \in DOMAIN release \cup {id} |-> IF i = id THEN train ELSE release[i]]
     /\ routes' = routes \cup RoutesOf(id, train)
     /\ states' = states \cup ({id} \X SaleFrom(train.begin, train.end))
     /\ UNCHANGED vars

\* The walk of Clock: another day to ask about, or, while no train is there,
\* another offset.
Walk ==
  /\ NextDay \/ (release = <<>> /\ NextStop)
  /\ UNCHANGED <<release, routes, states>>

QueryNext ==
  \/ Walk
  \/ offset = FromMinutes(0) /\ \E train \in TrainDescriptions : ReleaseTrain(train)

QuerySpec == QueryInit /\ [][QueryNext]_queryVars
=============================================================================
