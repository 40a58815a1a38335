-------------------------- MODULE TrainProperties --------------------------
(***************************************************************************)
(* What makes TrainSystem correct: no departure is oversold, the queue and *)
(* the orders tell the same story, and seats that come back reach those    *)
(* who wait for them.                                                      *)
(***************************************************************************)
EXTENDS TrainSystem

\* The counts of a departure as the running command sees them: Refund works
\* on a copy until it stores it.
SeatsNow(td) ==
  IF pc = "scan" /\ td = Departure(target) THEN seats ELSE states[td]

\* The latest number given to a buy_ticket in this run or an earlier one.
IssuedTime == IF pc = "down" THEN has_opened ELSE order_time

\* The orders that occupy leg i of departure td; the order that Refund is
\* giving back holds its seats no longer.
Holders(td, i) ==
  {k \in DOMAIN user_order :
     /\ user_order[k].status = "SUCCESS"
     /\ Departure(user_order[k]) = td
     /\ i \in LegsOf(user_order[k])
     /\ ~(pc = "scan" /\ k = GetKey(target))}

\* The seats they occupy, one element for each seat sold.
SoldSeats(td, i) == UNION {{k} \X (1 .. user_order[k].amount) : k \in Holders(td, i)}

\* The waiting orders.
Waiting == {k \in DOMAIN user_order : user_order[k].status = "PENDING"}

-----------------------------------------------------------------------------
\* Every variable holds a value of its type.
TypeOK ==
  /\ pc \in {"idle", "scan", "down"}
  /\ users_id_now \in SUBSET Uid
  /\ order_time \in Nat
  /\ has_opened \in Nat
  /\ IsIndex(release, TrainId, Train)
  /\ IsIndex(states, TrainId \X Int, Seq(Nat))
  /\ IsIndex(routes, Station \X Station \X TrainId, Nat)
  /\ IsIndex(user_order, Uid \X Nat, Order)
  /\ IsIndex(train_query, TrainId \X Int \X Nat, Query)
  /\ pc = "scan" => target \in Order
  /\ seats \in Seq(Nat)
  /\ cursor \in Nat
  /\ complete_query \subseteq DOMAIN train_query

\* Each seat of each leg is either counted as left or occupied by one bought
\* order (BuyTicket, Refund and ReleaseTrain keep the counts and the orders in
\* step, whatever commands, promotions and restarts came before).
SeatsConserved ==
  \A td \in DOMAIN states : \A i \in DOMAIN states[td] :
    SeatsNow(td)[i] + Cardinality(SoldSeats(td, i)) = release[td[1]].tickets_num

\* The bought orders of a departure never need more seats on a leg than the
\* train has (the seat test of BuyTicket and of the scan in Refund).
NoOverbooking ==
  \A td \in DOMAIN states : \A i \in DOMAIN states[td] :
    Cardinality(SoldSeats(td, i)) <= release[td[1]].tickets_num

\* The queue holds exactly the pending orders, apart from those the running
\* Refund has satisfied and not yet taken out of it.  So the .value() of the
\* lookup in the scan of Refund always has a value, and a refunded or promoted
\* order is never promoted again.
QueueMatchesOrders ==
  /\ \A k \in DOMAIN train_query :
       LET query == train_query[k]
       IN /\ k = QueryKey(query)
          /\ GetKey(query) \in DOMAIN user_order
          /\ user_order[GetKey(query)] =
               AsOrder(query, IF k \in complete_query THEN "SUCCESS" ELSE "PENDING")
  /\ \A k \in Waiting :
       /\ QueryKey(user_order[k]) \in DOMAIN train_query
       /\ GetKey(train_query[QueryKey(user_order[k])]) = k

\* No waiting order could be satisfied with the seats that are left: seats
\* come back only through Refund, which offers them to every waiter of the
\* departure.  During the scan this holds of the waiters already passed.
NoWaiterFits ==
  \A k \in DOMAIN train_query :
    LET query == train_query[k]
    IN \/ k \in complete_query
       \/ pc = "scan" /\ Departure(query) = Departure(target) /\ k[3] >= cursor
       \/ ~Fits(SeatsNow(Departure(query)), LegsOf(query), query.amount)

\* A waiting order is never overtaken by a later order for the same departure
\* that needs all of its legs and at least as many seats (the scan of Refund
\* goes from the oldest query to the newest, BuyTicket sells only what fits).
NoOvertaking ==
  \A k, l \in DOMAIN user_order :
    LET early == user_order[k]
        late == user_order[l]
    IN /\ early.status = "PENDING"
       /\ Departure(early) = Departure(late)
       /\ early.time < late.time
       /\ LegsOf(early) \subseteq LegsOf(late)
       /\ early.amount <= late.amount
       => late.status # "SUCCESS"

\* Every order bears a number that was issued, no two the same one: Insert
\* ignores a key that exists, so a number used twice would lose an order, and
\* query_order and refund_ticket start at order_time and would not see a
\* number above it.
OrderNumbersUnique ==
  \A k \in DOMAIN user_order :
    /\ k = GetKey(user_order[k])
    /\ k[2] \in 1 .. IssuedTime
    /\ \A l \in DOMAIN user_order : k[2] = l[2] => k = l

\* The lookups whose .value() is taken without a test find their key: the
\* train and the departure of an order (Refund), the train of a route
\* (QueryTicket), the departures of a released train (QueryTrain).
LookupsNeverMiss ==
  /\ \A k \in DOMAIN user_order : Departure(user_order[k]) \in DOMAIN states
  /\ \A td \in DOMAIN states :
       /\ td[1] \in DOMAIN release
       /\ release[td[1]].has_released
       /\ Len(states[td]) = Len(release[td[1]].stations)
  /\ \A r \in DOMAIN routes : r[3] \in DOMAIN release /\ release[r[3]].has_released
  /\ \A id \in DOMAIN release :
       release[id].has_released =>
         {id} \X (release[id].begin .. release[id].end) \subseteq DOMAIN states

-----------------------------------------------------------------------------
\* QueryTicket: the trains between two stations on a day, with the fewest
\* seats left over the legs between them.  CompleteRoute finds the legs.
QueryTicket(origin, des, date) ==
  {[train_id |-> r[3], date |-> date - routes[r],
    remain |-> LET left == {states[<<r[3], date - routes[r]>>][i] :
                              i \in Legs(release[r[3]], origin, des)}
               IN CHOOSE n \in left : \A m \in left : n <= m] :
     r \in {q \in DOMAIN routes : /\ q[1] = origin
                                  /\ q[2] = des
                                  /\ <<q[3], date - routes[q]>> \in DOMAIN states}}

\* What query_ticket shows is what buy_ticket sells: the same trains, on the
\* same departures, and the largest amount that would be sold at once
\* (QueryTicket goes through routes and delta_day, BuyTicket through the train).
AdvertisedIsBuyable ==
  pc = "idle" =>
    \A origin, des \in Station, date \in Date :
      LET onsale == {id \in DOMAIN release :
                       LET start == FindStation(release[id], origin)
                       IN /\ start # 0
                          /\ start < FindStation(release[id], des)
                          /\ <<id, DepartureDay(id, origin, date)>> \in DOMAIN states}
      IN /\ {a.train_id : a \in QueryTicket(origin, des, date)} = onsale
         /\ \A a \in QueryTicket(origin, des, date) :
              LET counts == states[<<a.train_id, DepartureDay(a.train_id, origin, date)>>]
                  legs == Legs(release[a.train_id], origin, des)
              IN Fits(counts, legs, a.remain) /\ ~Fits(counts, legs, a.remain + 1)

\* A departure that was opened stays on sale, for the same train with the
\* same stations and seats (DeleteTrain refuses a released train, AddTrain a
\* name in use, ReleaseTrain a second release).
OpenedForGood ==
  [][\A td \in DOMAIN states :
       /\ td \in DOMAIN states'
       /\ td[1] \in DOMAIN release'
       /\ release'[td[1]] = release[td[1]]]_vars

\* An order is never lost and never comes back to life: its only moves are
\* from pending to bought or refunded and from bought to refunded, with
\* everything else in it unchanged.
OrderLifecycle ==
  [][\A k \in DOMAIN user_order :
       /\ k \in DOMAIN user_order'
       /\ LET before == user_order[k]
              after == user_order'[k]
          IN /\ after = [before EXCEPT !.status = after.status]
             /\ <<before.status, after.status>> \in
                  {<<"PENDING", "SUCCESS">>, <<"PENDING", "REFUNDED">>,
                   <<"SUCCESS", "REFUNDED">>} \/ before = after]_vars

\* A refund_ticket that has started its scan answers: the scan visits each
\* waiting query of the departure once.
RefundAnswers == pc = "scan" ~> pc = "idle"
=============================================================================
