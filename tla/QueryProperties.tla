-------------------------- MODULE QueryProperties --------------------------
(***************************************************************************)
(* What the answers of TrainQueries mean, in minutes of the calendar and   *)
(* without the indexes: the tickets are the trains of the timetable in     *)
(* order, the transfer is the best pair of trains that can be caught.      *)
(***************************************************************************)
EXTENDS TrainQueries

CONSTANT Station

\* The lists that query_ticket may be asked for.
Asked == {q \in [origin : Station, des : Station, time : BOOLEAN] : q.origin # q.des}

Described(id) == CHOOSE d \in TrainDescriptions : d.train_id = id

\* Minutes from the first midnight of a train to its leaving a stop.
LeaveMinute(d, i) ==
  FoldLeft(LAMBDA m, k : m + d.travel[k - 1] + d.stopover[k], d.start,
           [k \in 1 .. i - 1 |-> k + 1])
ArriveMinute(d, i) == LeaveMinute(d, i - 1) + d.travel[i - 1]

DayCount(clock) == Count(clock) \div (24 * 60)

\* The rides from one station to another: a train, a day on which it is sold
\* and two of its stops, with their minutes in the season.
Rides(origin, des) ==
  UNION {LET d == Described(id)
             i == CHOOSE s \in DOMAIN d.stations : d.stations[s] = origin
             j == CHOOSE s \in DOMAIN d.stations : d.stations[s] = des
         IN IF origin \in Range(d.stations) /\ des \in Range(d.stations) /\ i < j
            THEN {[train_id |-> id, des |-> des,
                   leave |-> day * 24 * 60 + LeaveMinute(d, i),
                   arrive |-> day * 24 * 60 + ArriveMinute(d, j),
                   price |-> FoldLeft(LAMBDA sum, p : sum + p, 0, SubSeq(d.price, i, j - 1))] :
                     day \in DayCount(d.begin) .. DayCount(d.end)}
            ELSE {} : id \in DOMAIN release}

\* Those that leave on the day asked for.
RidesToday(origin, des) ==
  {r \in Rides(origin, des) : r.leave \div (24 * 60) = DayCount(today)}

Lasts(ride) == ride.arrive - ride.leave

\* A first ride on the day asked for and a second one, of another train,
\* that leaves when the first has arrived or later.
Journeys(origin, des) ==
  UNION {{<<first, second>> \in RidesToday(origin, mid) \X Rides(mid, des) :
            first.train_id # second.train_id /\ first.arrive <= second.leave} :
           mid \in Station \ {origin, des}}

Before(s, t) == \E k \in DOMAIN s : s[k] < t[k] /\ \A i \in 1 .. k - 1 : s[i] = t[i]

JourneyTime(j) == j[2].arrive - j[1].leave
JourneyPrice(j) == j[1].price + j[2].price
JourneyKey(j, time) ==
  (IF time THEN <<JourneyTime(j), JourneyPrice(j)>> ELSE <<JourneyPrice(j), JourneyTime(j)>>)
    \o <<j[1].train_id, j[2].train_id>>

AMonth == 30 * 24 * 60

-----------------------------------------------------------------------------
\* query_ticket lists every train that, by its timetable, calls at the two
\* stations in this order and leaves the first on the day asked for, each
\* once, with the times and the price of query_train, in the order asked for
\* and by name among equals (routes and delta_day of ReleaseTrain, Minus,
\* CompleteRoute, both quick sorts).
TicketsAreTheTimetable ==
  \A q \in Asked :
    LET answer == QueryTicket(q.origin, q.des, today, q.time)
        TicketKey(t) == <<IF q.time THEN Length(t.total_time) ELSE t.price, t.train_id>>
    IN /\ {[train_id |-> t.train_id, des |-> q.des, leave |-> Count(t.start_time),
            arrive |-> Count(ArriveAt(t)), price |-> t.price] : t \in Range(answer)}
            = RidesToday(q.origin, q.des)
       /\ \A i \in 1 .. Len(answer) - 1 : Before(TicketKey(answer[i]), TicketKey(answer[i + 1]))
       /\ \A t \in Range(answer) : \E date \in {d \in states : d[1] = t.train_id} :
            LET listing == QueryTrain(t.train_id, date[2])
            IN \E i, j \in DOMAIN listing :
                 /\ listing[i].station = q.origin /\ listing[i].leave = t.start_time
                 /\ listing[j].station = q.des /\ listing[j].arrive = ArriveAt(t)
                 /\ listing[j].price - listing[i].price = t.price

\* query_transfer answers with a journey whose second train can be caught, and
\* no other journey is better in the order asked for, whatever later day its
\* second train leaves (the earliest departure is the only one that the code
\* looks at).  It finds one whenever one of less than a month exists.
TransferIsBest ==
  \A q \in Asked :
    LET answer == QueryTransfer(q.origin, q.des, today, q.time)
        journeys == Journeys(q.origin, q.des)
    IN IF answer.price = NoPrice
       THEN \A j \in journeys : q.time /\ JourneyTime(j) >= AMonth
       ELSE \E j \in journeys :
              /\ <<j[1].train_id, j[1].des, j[2].train_id>> =
                   <<answer.first, answer.transfer, answer.second>>
              /\ <<j[1].leave, j[1].arrive, j[2].leave, j[2].arrive>> =
                   <<Count(answer.leave), Count(answer.change[1]), Count(answer.change[2]),
                     Count(answer.arrive)>>
              /\ JourneyPrice(j) = answer.price
              /\ \A k \in journeys : ~Before(JourneyKey(k, q.time), JourneyKey(j, q.time))
=============================================================================
