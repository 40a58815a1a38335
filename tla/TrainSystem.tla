---------------------------- MODULE TrainSystem ----------------------------
(***************************************************************************)
(* train_sys: the trains on sale, the seats left on every leg of every     *)
(* departure, the orders of the users and the queue of orders waiting for  *)
(* seats (src/system/train_system.cpp, src/item/train.cpp).  Every command *)
(* runs to completion before the next one is read.  refund_ticket is the   *)
(* one command with a loop whose iterations depend on each other, the scan *)
(* of the waiting queue, and is a step per iteration; the others are a     *)
(* step each.                                                              *)
(*                                                                         *)
(* A date is a day number (module Clock relates it to the calendar), the   *)
(* time of day, the fares and the printed text are left out.  Stations are *)
(* counted from 1, and 0 stands for the -1 of FindStation.                 *)
(***************************************************************************)
EXTENDS Integers, Sequences, FiniteSets, Index

CONSTANTS
  Uid,          \* user names
  TrainId,      \* train names
  Station,      \* station hashes
  TrainTotals,  \* the trains that add_train may describe
  Date,         \* the dates that buy_ticket may name
  Amount,       \* how many seats one buy_ticket may ask for
  MaxOrders     \* bound on order_time

Train == [stations: Seq(Station), leave_day: Seq(Nat), tickets_num: Nat,
          begin: Int, end: Int, has_released: BOOLEAN]

\* A train calls at two stations or more and at none of them twice; the
\* command parser fills leave_time for every one of them.
WellFormed(train) ==
  /\ Len(train.stations) >= 2
  /\ Len(train.leave_day) = Len(train.stations)
  /\ \A i, j \in DOMAIN train.stations :
       train.stations[i] = train.stations[j] => i = j

ASSUME TrainTotalsAssumption ==
  /\ TrainTotals \subseteq Train
  /\ \A train \in TrainTotals : WellFormed(train) /\ ~train.has_released
ASSUME InputAssumption ==
  Date \subseteq Int /\ Amount \subseteq Nat /\ MaxOrders \in Nat

VARIABLES
  pc,           \* "idle", "scan" (in the loop of Refund) or "down"
  users_id_now, \* core::users_id_now, the users who are logged in
  order_time,   \* the number of the latest buy_ticket
  has_opened,   \* order_time as the file has_opened keeps it between runs
  release,      \* index of the trains: train_id -> TrainTotal
  states,       \* index of the seats left: <<train_id, date>> -> a count per station
  routes,       \* index of the routes: <<origin, des, train_id>> -> delta_day
  user_order,   \* index of the orders: <<uid, time>> -> Order
  train_query,  \* index of the queue: <<train_id, date, time>> -> Query
  target,       \* the locals of Refund: the order given back,
  seats,        \*   the counts of its departure being recomputed,
  cursor,       \*   the first time that the scan has not passed,
  complete_query, \* and the keys of the queries it has satisfied
  reply         \* the command answered last and what it printed

sessions == <<users_id_now>>
disk == <<release, states, routes, user_order, train_query>>
scan == <<target, seats, cursor, complete_query>>
vars == <<pc, sessions, order_time, has_opened, disk, scan, reply>>

Order == [uid: Uid, train_id: TrainId, date: Int, origin: Station, des: Station,
          amount: Nat, time: Nat, status: {"SUCCESS", "PENDING", "REFUNDED"}]
Query == [uid: Uid, train_id: TrainId, date: Int, origin: Station, des: Station,
          amount: Nat, time: Nat]

GetKey(order) == <<order.uid, order.time>>
QueryKey(query) == <<query.train_id, query.date, query.time>>
Departure(order) == <<order.train_id, order.date>>

-----------------------------------------------------------------------------
\* TrainTotal and TicketState.

FindStation(train, station) ==
  IF \E i \in DOMAIN train.stations : train.stations[i] = station
  THEN CHOOSE i \in DOMAIN train.stations : train.stations[i] = station
  ELSE 0

\* The legs start .. des - 1 that a passenger from origin to des occupies.
Legs(train, origin, des) ==
  FindStation(train, origin) .. FindStation(train, des) - 1

\* TicketState::Construct: every count starts at the train's seats.
Construct(train) == [i \in DOMAIN train.stations |-> train.tickets_num]

\* Mistakes: one seat too many is sold; the last seat is not sold; the leg
\* after the destination is taken too.
FitsOneTooMany(counts, legs, amount) == \A i \in legs : counts[i] + 1 >= amount
FitsStrictly(counts, legs, amount) == \A i \in legs : counts[i] > amount
TakeSeatsUpToDes(counts, legs, amount) ==
  [i \in DOMAIN counts |->
     IF i \in legs \/ i - 1 \in legs THEN counts[i] - amount ELSE counts[i]]

\* The loops  seat = min(seat, remain_tickets[i])  followed by seat >= amount.
Fits(counts, legs, amount) == \A i \in legs : counts[i] >= amount

\* The loops that subtract (or, for a negative amount, give back) seats.
TakeSeats(counts, legs, amount) ==
  [i \in DOMAIN counts |-> IF i \in legs THEN counts[i] - amount ELSE counts[i]]

\* Mistakes: the last day of the sale is left out; the day is the
\* destination's.
OpenedStatesShort(id, train) ==
  [td \in {id} \X (train.begin .. train.end - 1) |-> Construct(train)]
OpenedRoutesAtDes(id, train) ==
  LET pairs == {p \in (DOMAIN train.stations) \X (DOMAIN train.stations) : p[1] < p[2]}
  IN [r \in {<<train.stations[p[1]], train.stations[p[2]], id>> : p \in pairs} |->
        train.leave_day[FindStation(train, r[2])]]

\* What ReleaseTrain inserts into states and routes.
OpenedStates(id, train) ==
  [td \in {id} \X (train.begin .. train.end) |-> Construct(train)]
OpenedRoutes(id, train) ==
  LET pairs == {p \in (DOMAIN train.stations) \X (DOMAIN train.stations) : p[1] < p[2]}
  IN [r \in {<<train.stations[p[1]], train.stations[p[2]], id>> : p \in pairs} |->
        train.leave_day[FindStation(train, r[1])]]

-----------------------------------------------------------------------------
\* Trains.

Init ==
  /\ pc = "idle"
  /\ users_id_now = {}
  /\ order_time = 0
  /\ has_opened = 0
  /\ release = EmptyIndex
  /\ states = EmptyIndex
  /\ routes = EmptyIndex
  /\ user_order = EmptyIndex
  /\ train_query = EmptyIndex
  /\ target = <<>>
  /\ seats = <<>>
  /\ cursor = 0
  /\ complete_query = {}
  /\ reply = <<"start", "0">>

AddTrain(id, train) ==
  /\ pc = "idle"
  /\ release' = IndexInsert(release, id, train)
  /\ reply' = <<"add_train", IF id \in DOMAIN release THEN "-1" ELSE "0">>
  /\ UNCHANGED <<pc, sessions, order_time, has_opened, states, routes,
                 user_order, train_query, scan>>

\* A mistake: a train on sale is deleted.
DeleteTrainReleased(id) ==
  /\ pc = "idle"
  /\ release' = IndexRemove(release, id)
  /\ reply' = <<"delete_train", "0">>
  /\ UNCHANGED <<pc, sessions, order_time, has_opened, states, routes,
                 user_order, train_query, scan>>

DeleteTrain(id) ==
  /\ pc = "idle"
  /\ IF id \in DOMAIN release /\ ~release[id].has_released
     THEN release' = IndexRemove(release, id) /\ reply' = <<"delete_train", "0">>
     ELSE UNCHANGED release /\ reply' = <<"delete_train", "-1">>
  /\ UNCHANGED <<pc, sessions, order_time, has_opened, states, routes,
                 user_order, train_query, scan>>

ReleaseTrain(id) ==
  /\ pc = "idle"
  /\ IF id \in DOMAIN release /\ ~release[id].has_released
     THEN LET train == release[id]
          IN /\ states' = IndexInsertAll(states, OpenedStates(id, train))
             /\ routes' = IndexInsertAll(routes, OpenedRoutes(id, train))
             /\ release' = IndexReplace(release, id,
                                        [train EXCEPT !.has_released = TRUE])
             /\ reply' = <<"release_train", "0">>
     ELSE UNCHANGED <<release, states, routes>> /\ reply' = <<"release_train", "-1">>
  /\ UNCHANGED <<pc, sessions, order_time, has_opened, user_order, train_query, scan>>

-----------------------------------------------------------------------------
\* Buying.

\* The checks of BuyTicket before it looks at the seats.
Bookable(query) ==
  /\ query.uid \in users_id_now
  /\ query.train_id \in DOMAIN release
  /\ FindStation(release[query.train_id], query.origin) # 0
  /\ FindStation(release[query.train_id], query.origin)
       < FindStation(release[query.train_id], query.des)
  /\ Departure(query) \in DOMAIN states

\* target.date.Minus(DeltaDay(start)): the day the train leaves its first
\* station, from the day it leaves the passenger's.
DepartureDay(id, origin, date) ==
  IF id \in DOMAIN release /\ FindStation(release[id], origin) # 0
  THEN date - release[id].leave_day[FindStation(release[id], origin)]
  ELSE date

AsOrder(query, status) ==
  [uid |-> query.uid, train_id |-> query.train_id, date |-> query.date,
   origin |-> query.origin, des |-> query.des, amount |-> query.amount,
   time |-> query.time, status |-> status]

LegsOf(query) == Legs(release[query.train_id], query.origin, query.des)

BuyNow(query) ==
  /\ Bookable(query)
  /\ Fits(states[Departure(query)], LegsOf(query), query.amount)
  /\ states' = IndexReplace(states, Departure(query),
                 TakeSeats(states[Departure(query)], LegsOf(query), query.amount))
  /\ user_order' = IndexInsert(user_order, GetKey(query), AsOrder(query, "SUCCESS"))
  /\ reply' = <<"buy_ticket", "price">>
  /\ UNCHANGED train_query

BuyQueued(query, queue) ==
  /\ Bookable(query)
  /\ ~Fits(states[Departure(query)], LegsOf(query), query.amount)
  /\ queue
  /\ query.amount <= release[query.train_id].tickets_num
  /\ train_query' = IndexInsert(train_query, QueryKey(query), query)
  /\ user_order' = IndexInsert(user_order, GetKey(query), AsOrder(query, "PENDING"))
  /\ reply' = <<"buy_ticket", "queue">>
  /\ UNCHANGED states

BuyRefused(query, queue) ==
  /\ \/ ~Bookable(query)
     \/ /\ Bookable(query)
        /\ ~Fits(states[Departure(query)], LegsOf(query), query.amount)
        /\ ~(queue /\ query.amount <= release[query.train_id].tickets_num)
  /\ reply' = <<"buy_ticket", "-1">>
  /\ UNCHANGED <<states, user_order, train_query>>

\* The command numbers the request before it is examined, refused or not.
BuyTicket(uid, id, origin, des, date, amount, queue) ==
  /\ pc = "idle"
  /\ order_time < MaxOrders
  /\ order_time' = order_time + 1
  /\ LET query == [uid |-> uid, train_id |-> id, origin |-> origin, des |-> des,
                   date |-> DepartureDay(id, origin, date), amount |-> amount,
                   time |-> order_time']
     IN BuyNow(query) \/ BuyQueued(query, queue) \/ BuyRefused(query, queue)
  /\ UNCHANGED <<pc, sessions, has_opened, release, routes, scan>>

-----------------------------------------------------------------------------
\* Giving back.

\* Mistakes: the scan runs into the orders of other users; the order is not
\* removed before it is inserted; it is removed and not inserted.
UserOrdersOfAll(uid) == {k \in DOMAIN user_order : k[2] <= order_time}
SetStatusNoRemove(key, order, status) ==
  IndexInsert(user_order, key, [order EXCEPT !.status = status])
SetStatusNoInsert(key, order, status) == IndexRemove(user_order, key)

\* The orders of uid that a scan from <<uid, order_time>> down can reach.
UserOrders(uid) ==
  {k \in DOMAIN user_order : k[1] = uid /\ k[2] <= order_time}

\* The order that the first loop of Refund stops at; a rank below 1 acts as 1.
IsRanked(key, uid, rank) ==
  /\ key \in UserOrders(uid)
  /\ Cardinality({k \in UserOrders(uid) : k[2] > key[2]})
       = IF rank > 1 THEN rank - 1 ELSE 0

SetStatus(key, order, status) ==
  IndexReplace(user_order, key, [order EXCEPT !.status = status])

RefundRefused(uid, rank) ==
  /\ pc = "idle"
  /\ \/ uid \notin users_id_now
     \/ ~ \E key \in DOMAIN user_order : IsRanked(key, uid, rank)
     \/ \E key \in DOMAIN user_order :
          IsRanked(key, uid, rank) /\ user_order[key].status = "REFUNDED"
  /\ reply' = <<"refund_ticket", "-1">>
  /\ UNCHANGED <<pc, sessions, order_time, has_opened, disk, scan>>

RefundPending(uid, rank) ==
  /\ pc = "idle"
  /\ uid \in users_id_now
  /\ \E key \in DOMAIN user_order :
       /\ IsRanked(key, uid, rank)
       /\ user_order[key].status = "PENDING"
       /\ train_query' = IndexRemove(train_query, QueryKey(user_order[key]))
       /\ user_order' = SetStatus(key, user_order[key], "REFUNDED")
  /\ reply' = <<"refund_ticket", "0">>
  /\ UNCHANGED <<pc, sessions, order_time, has_opened, release, states, routes, scan>>

\* A bought order: its seats are given back in a copy of the counts and the
\* scan of the queue of its departure begins.
RefundBegin(uid, rank) ==
  /\ pc = "idle"
  /\ uid \in users_id_now
  /\ \E key \in DOMAIN user_order :
       /\ IsRanked(key, uid, rank)
       /\ user_order[key].status = "SUCCESS"
       /\ target' = user_order[key]
       /\ seats' = TakeSeats(states[Departure(user_order[key])],
                             LegsOf(user_order[key]), - user_order[key].amount)
  /\ pc' = "scan"
  /\ cursor' = 0
  /\ complete_query' = {}
  /\ UNCHANGED <<sessions, order_time, has_opened, disk, reply>>

\* Mistakes: the iterator moves on twice; it does not move; the scan goes
\* from the newest query.
UnvisitedSkipping ==
  {k \in DOMAIN train_query : <<k[1], k[2]>> = Departure(target) /\ k[3] > cursor}
UnvisitedForever ==
  {k \in DOMAIN train_query : <<k[1], k[2]>> = Departure(target)}

\* The queries of the target's departure that the scan has still to visit.
Unvisited ==
  {k \in DOMAIN train_query : <<k[1], k[2]>> = Departure(target) /\ k[3] >= cursor}

IsNextNewest(key) ==
  /\ key \in Unvisited
  /\ \A k \in Unvisited : key[3] >= k[3]

IsNext(key) == key \in Unvisited /\ \A k \in Unvisited : key[3] <= k[3]

\* One iteration of the loop over iter2: the waiting order is satisfied when
\* its seats are there by now, and skipped otherwise.
RefundVisit ==
  /\ pc = "scan"
  /\ \E key \in DOMAIN train_query :
       LET query == train_query[key]
       IN /\ IsNext(key)
          /\ cursor' = key[3] + 1
          /\ IF Fits(seats, LegsOf(query), query.amount)
             THEN /\ complete_query' = complete_query \cup {key}
                  /\ seats' = TakeSeats(seats, LegsOf(query), query.amount)
                  /\ user_order' = SetStatus(GetKey(query),
                                             user_order[GetKey(query)], "SUCCESS")
             ELSE UNCHANGED <<complete_query, seats, user_order>>
  /\ UNCHANGED <<pc, sessions, order_time, has_opened, release, states, routes,
                 train_query, target, reply>>

\* After the loop: the satisfied queries leave the queue, the counts are
\* stored and the copy of the order is stored back as refunded.
RefundEnd ==
  /\ pc = "scan"
  /\ Unvisited = {}
  /\ train_query' = [k \in DOMAIN train_query \ complete_query |-> train_query[k]]
  /\ states' = IndexReplace(states, Departure(target), seats)
  /\ user_order' = SetStatus(GetKey(target), target, "REFUNDED")
  /\ pc' = "idle"
  /\ target' = <<>>
  /\ seats' = <<>>
  /\ cursor' = 0
  /\ complete_query' = {}
  /\ reply' = <<"refund_ticket", "0">>
  /\ UNCHANGED <<sessions, order_time, has_opened, release, routes>>

-----------------------------------------------------------------------------
\* The program around the commands.

\* login and logout (module UserSystem): any change of users_id_now.
SessionChange ==
  /\ pc = "idle"
  /\ users_id_now' \in SUBSET Uid
  /\ UNCHANGED <<pc, order_time, has_opened, disk, scan, reply>>

\* exit: order_time goes to the file, the memory of the process is gone.
Exit ==
  /\ pc = "idle"
  /\ pc' = "down"
  /\ has_opened' = order_time
  /\ order_time' = 0
  /\ users_id_now' = {}
  /\ reply' = <<"exit", "bye">>
  /\ UNCHANGED <<disk, scan>>

\* A mistake: the file is not read.
BootForgets ==
  /\ pc = "down"
  /\ pc' = "idle"
  /\ order_time' = 0
  /\ reply' = <<"start", "0">>
  /\ UNCHANGED <<sessions, has_opened, disk, scan>>

\* The next run of the program reads the file before the first command.
Boot ==
  /\ pc = "down"
  /\ pc' = "idle"
  /\ order_time' = has_opened
  /\ reply' = <<"start", "0">>
  /\ UNCHANGED <<sessions, has_opened, disk, scan>>

TrainCommand ==
  \E id \in TrainId :
    \/ \E train \in TrainTotals : AddTrain(id, train)
    \/ DeleteTrain(id)
    \/ ReleaseTrain(id)

BuyCommand ==
  \E uid \in Uid, id \in TrainId, origin, des \in Station, date \in Date,
     amount \in Amount, queue \in BOOLEAN :
    BuyTicket(uid, id, origin, des, date, amount, queue)

RefundCommand ==
  \E uid \in Uid, rank \in 1 .. MaxOrders :
    RefundRefused(uid, rank) \/ RefundPending(uid, rank) \/ RefundBegin(uid, rank)

Next ==
  \/ SessionChange
  \/ Exit
  \/ Boot
  \/ TrainCommand
  \/ BuyCommand
  \/ RefundCommand
  \/ RefundVisit
  \/ RefundEnd

\* A command that has begun is carried on to its end.
Fairness == WF_vars(RefundVisit) /\ WF_vars(RefundEnd)

Spec == Init /\ [][Next]_vars /\ Fairness
=============================================================================
