----------------------------- MODULE TrainProofs -----------------------------
(***************************************************************************)
(* Proofs about TrainSystem, for any trains, stations, users, dates and    *)
(* amounts and for any number of orders: what every index holds; that no   *)
(* seat is sold twice, lost, or shown but not sold; that nobody who waits  *)
(* could have seats or is overtaken; and that counts, queue and scan       *)
(* decide every purchase and every promotion as the orders of SeatLedger   *)
(* do.                                                                     *)
(***************************************************************************)
EXTENDS TrainRefinement, FiniteSetTheorems, FunctionTheorems, WellFoundedInduction, TLAPS

-----------------------------------------------------------------------------
\* What an index holds after each of the operators of module Index, and that
\* its keys and values keep their types.

\* An empty tree is an index of any keys and values (BPlusTree::BPlusTree).
LEMMA EmptyIndexFacts ==
  /\ DOMAIN EmptyIndex = {}
  /\ \A Keys, Values : IsIndex(EmptyIndex, Keys, Values)
BY DEF EmptyIndex, IsIndex

\* Insert adds its key, with its value if the key is new, and leaves the other
\* keys alone (BPlusTree::Insert).
LEMMA InsertFacts ==
  \A index, key, value :
    /\ DOMAIN IndexInsert(index, key, value) = DOMAIN index \cup {key}
    /\ \A k \in DOMAIN index : IndexInsert(index, key, value)[k] = index[k]
    /\ key \notin DOMAIN index => IndexInsert(index, key, value)[key] = value
BY DEF IndexInsert

LEMMA InsertKeepsType ==
  ASSUME NEW index, NEW key, NEW value, NEW Keys, NEW Values,
         IsIndex(index, Keys, Values), key \in Keys, value \in Values
  PROVE  IsIndex(IndexInsert(index, key, value), Keys, Values)
BY DEF IsIndex, IndexInsert

\* Remove takes its key away and leaves the other keys alone
\* (BPlusTree::Remove).
LEMMA RemoveFacts ==
  \A index, key :
    /\ DOMAIN IndexRemove(index, key) = DOMAIN index \ {key}
    /\ \A k \in DOMAIN index \ {key} : IndexRemove(index, key)[k] = index[k]
BY DEF IndexRemove

LEMMA RemoveKeepsType ==
  ASSUME NEW index, NEW key, NEW Keys, NEW Values, IsIndex(index, Keys, Values)
  PROVE  IsIndex(IndexRemove(index, key), Keys, Values)
BY DEF IsIndex, IndexRemove

\* Remove followed by Insert stores the value, whether the key was there or
\* not, and leaves the other keys alone (the idiom of BuyTicket, Refund,
\* ReleaseTrain and Modify).
LEMMA ReplaceFacts ==
  \A index, key, value :
    /\ DOMAIN IndexReplace(index, key, value) = DOMAIN index \cup {key}
    /\ IndexReplace(index, key, value)[key] = value
    /\ \A k \in DOMAIN index \ {key} : IndexReplace(index, key, value)[k] = index[k]
BY DEF IndexReplace, IndexInsert, IndexRemove

LEMMA ReplaceKeepsType ==
  ASSUME NEW index, NEW key, NEW value, NEW Keys, NEW Values,
         IsIndex(index, Keys, Values), key \in Keys, value \in Values
  PROVE  IsIndex(IndexReplace(index, key, value), Keys, Values)
BY RemoveKeepsType, InsertKeepsType DEF IndexReplace

\* A loop of Inserts adds its keys and leaves the stored ones alone
\* (ReleaseTrain).
LEMMA InsertAllFacts ==
  \A index, entries :
    /\ DOMAIN IndexInsertAll(index, entries) = DOMAIN index \cup DOMAIN entries
    /\ \A k \in DOMAIN index : IndexInsertAll(index, entries)[k] = index[k]
    /\ \A k \in DOMAIN entries \ DOMAIN index :
         IndexInsertAll(index, entries)[k] = entries[k]
BY DEF IndexInsertAll

LEMMA InsertAllKeepsType ==
  ASSUME NEW index, NEW entries, NEW Keys, NEW Values,
         IsIndex(index, Keys, Values), IsIndex(entries, Keys, Values)
  PROVE  IsIndex(IndexInsertAll(index, entries), Keys, Values)
BY DEF IsIndex, IndexInsertAll

-----------------------------------------------------------------------------
\* What every index holds.

\* The trains that add_train stored can all be travelled on.
CatalogueOK == \A id \in DOMAIN release : WellFormed(release[id])

\* What a Refund knows between two iterations of its scan: its copy of the
\* order is what the index still holds, the counts it recomputes are those of
\* a departure on sale, and it has satisfied only queries that it has passed.
ScanOK ==
  /\ pc # "scan" => complete_query = {}
  /\ pc = "scan" =>
       /\ GetKey(target) \in DOMAIN user_order
       /\ user_order[GetKey(target)] = target
       /\ target.status = "SUCCESS"
       /\ Len(seats) = Len(states[Departure(target)])
       /\ \A k \in complete_query : k[3] < cursor

\* The inductive invariant.  Its parts need each other: the types of the seat
\* counts need the lookups to succeed, the lookups of the scan need the queue
\* to match the orders, and that needs every order number to be fresh.
IInv ==
  /\ TypeOK
  /\ CatalogueOK
  /\ LookupsNeverMiss
  /\ OrderNumbersUnique
  /\ QueueMatchesOrders
  /\ ScanOK

-----------------------------------------------------------------------------
\* Seats and stations.

\* FindStation returns a station's place, or 0 for a station not called at.
LEMMA FindStationFacts ==
  ASSUME NEW train, NEW station, train.stations \in Seq(Station)
  PROVE  /\ FindStation(train, station) \in {0} \cup DOMAIN train.stations
         /\ FindStation(train, station) \in Nat
         /\ station \in {train.stations[i] : i \in DOMAIN train.stations} =>
              FindStation(train, station) \in DOMAIN train.stations
<1>1. CASE \E i \in DOMAIN train.stations : train.stations[i] = station
  <2>1. FindStation(train, station) \in DOMAIN train.stations
    BY <1>1 DEF FindStation
  <2>2. DOMAIN train.stations \subseteq Nat
    OBVIOUS
  <2>3. QED
    BY <2>1, <2>2
<1>2. CASE ~ \E i \in DOMAIN train.stations : train.stations[i] = station
  BY <1>2 DEF FindStation
<1>3. QED
  BY <1>1, <1>2

\* A sequence is a function on 1 .. Len, and such a function is a sequence.
LEMMA SeqIsFunction ==
  ASSUME NEW S, NEW s \in Seq(S)
  PROVE  s \in [1 .. Len(s) -> S] /\ Len(s) \in Nat /\ DOMAIN s = 1 .. Len(s)
OBVIOUS

LEMMA FunctionIsSeq ==
  ASSUME NEW S, NEW n \in Nat, NEW s \in [1 .. n -> S]
  PROVE  s \in Seq(S) /\ Len(s) = n
OBVIOUS

\* Taking seats that are there, or giving seats back, leaves a count of seats
\* for each station.
LEMMA TakeSeatsType ==
  ASSUME NEW counts \in Seq(Nat), NEW legs, NEW amount \in Int,
         \A i \in DOMAIN counts : i \in legs => counts[i] - amount \in Nat
  PROVE  /\ TakeSeats(counts, legs, amount) \in Seq(Nat)
         /\ Len(TakeSeats(counts, legs, amount)) = Len(counts)
<1> DEFINE taken == TakeSeats(counts, legs, amount)
<1>1. DOMAIN counts = 1 .. Len(counts) /\ Len(counts) \in Nat
  BY SeqIsFunction
<1>2. taken \in [1 .. Len(counts) -> Nat]
  BY <1>1 DEF TakeSeats
<1> HIDE DEF taken
<1>3. taken \in Seq(Nat) /\ Len(taken) = Len(counts)
  BY <1>1, <1>2, FunctionIsSeq
<1>4. QED
  BY <1>3 DEF taken

\* The counts of a departure that ReleaseTrain opens.
LEMMA ConstructType ==
  ASSUME NEW train \in Train
  PROVE  /\ Construct(train) \in Seq(Nat)
         /\ Len(Construct(train)) = Len(train.stations)
<1>1. train.stations \in Seq(Station) /\ train.tickets_num \in Nat
  BY DEF Train
<1>2. DOMAIN train.stations = 1 .. Len(train.stations) /\ Len(train.stations) \in Nat
  BY <1>1, SeqIsFunction
<1>3. Construct(train) \in [1 .. Len(train.stations) -> Nat]
  BY <1>1, <1>2 DEF Construct
<1>4. QED
  BY <1>2, <1>3, FunctionIsSeq

\* The departures and the routes that ReleaseTrain opens.
LEMMA OpenedStatesType ==
  ASSUME NEW id \in TrainId, NEW train \in Train
  PROVE  /\ IsIndex(OpenedStates(id, train), TrainId \X Int, Seq(Nat))
         /\ DOMAIN OpenedStates(id, train) = {id} \X (train.begin .. train.end)
         /\ \A td \in DOMAIN OpenedStates(id, train) :
              Len(OpenedStates(id, train)[td]) = Len(train.stations)
<1>1. train.begin \in Int /\ train.end \in Int
  BY DEF Train
<1>2. Construct(train) \in Seq(Nat) /\ Len(Construct(train)) = Len(train.stations)
  BY ConstructType
<1>3. QED
  BY <1>1, <1>2 DEF OpenedStates, IsIndex

LEMMA OpenedRoutesType ==
  ASSUME NEW id \in TrainId, NEW train \in Train, WellFormed(train)
  PROVE  /\ IsIndex(OpenedRoutes(id, train), Station \X Station \X TrainId, Nat)
         /\ \A r \in DOMAIN OpenedRoutes(id, train) : r[3] = id
<1> DEFINE Calls == DOMAIN train.stations
           pairs == {p \in Calls \X Calls : p[1] < p[2]}
           keys == {<<train.stations[p[1]], train.stations[p[2]], id>> : p \in pairs}
           day(r) == train.leave_day[FindStation(train, r[1])]
<1>1. train.stations \in Seq(Station) /\ train.leave_day \in Seq(Nat)
  BY DEF Train
<1>2. \A i \in Calls : train.stations[i] \in Station
  BY <1>1
<1>3. Calls = DOMAIN train.leave_day
  BY <1>1 DEF WellFormed
<1>4. \A r \in keys : r \in Station \X Station \X TrainId /\ r[3] = id
  BY <1>2
<1>5. ASSUME NEW r \in keys PROVE day(r) \in Nat
  <2>1. r[1] \in {train.stations[i] : i \in Calls}
    OBVIOUS
  <2>2. FindStation(train, r[1]) \in Calls
    BY <1>1, <2>1, FindStationFacts
  <2>3. QED
    BY <1>1, <1>3, <2>2
<1>6. OpenedRoutes(id, train) = [r \in keys |-> day(r)]
  BY DEF OpenedRoutes
<1> HIDE DEF Calls, pairs, keys, day
<1>7. QED
  BY <1>4, <1>5, <1>6 DEF IsIndex

-----------------------------------------------------------------------------
\* Init.
LEMMA InitIInv == Init => IInv
<1> SUFFICES ASSUME Init PROVE IInv
  OBVIOUS
<1>1. TypeOK
  BY EmptyIndexFacts DEF Init, TypeOK
<1>2. CatalogueOK
  BY EmptyIndexFacts DEF Init, CatalogueOK
<1>3. LookupsNeverMiss
  BY EmptyIndexFacts DEF Init, LookupsNeverMiss
<1>4. OrderNumbersUnique
  BY EmptyIndexFacts DEF Init, OrderNumbersUnique
<1>5. QueueMatchesOrders
  BY EmptyIndexFacts DEF Init, QueueMatchesOrders, Waiting
<1>6. ScanOK
  BY DEF Init, ScanOK
<1>7. QED
  BY <1>1, <1>2, <1>3, <1>4, <1>5, <1>6 DEF IInv

-----------------------------------------------------------------------------
\* Commands that leave trains and orders alone.
LEMMA StutterKeeps ==
  ASSUME IInv, UNCHANGED vars
  PROVE  IInv'
BY DEF IInv, vars, disk, scan, sessions, TypeOK, IsIndex, CatalogueOK, LookupsNeverMiss,
       OrderNumbersUnique, IssuedTime, QueueMatchesOrders, Waiting, ScanOK

LEMMA SessionChangeKeeps ==
  ASSUME IInv, SessionChange
  PROVE  IInv'
BY DEF IInv, SessionChange, disk, scan, TypeOK, IsIndex, CatalogueOK, LookupsNeverMiss,
       OrderNumbersUnique, IssuedTime, QueueMatchesOrders, Waiting, ScanOK

LEMMA ExitKeeps ==
  ASSUME IInv, Exit
  PROVE  IInv'
BY DEF IInv, Exit, disk, scan, TypeOK, IsIndex, CatalogueOK, LookupsNeverMiss,
       OrderNumbersUnique, IssuedTime, QueueMatchesOrders, Waiting, ScanOK

LEMMA BootKeeps ==
  ASSUME IInv, Boot
  PROVE  IInv'
BY DEF IInv, Boot, sessions, disk, scan, TypeOK, IsIndex, CatalogueOK, LookupsNeverMiss,
       OrderNumbersUnique, IssuedTime, QueueMatchesOrders, Waiting, ScanOK

LEMMA RefundRefusedKeeps ==
  ASSUME IInv, NEW uid, NEW rank, RefundRefused(uid, rank)
  PROVE  IInv'
BY DEF IInv, RefundRefused, sessions, disk, scan, TypeOK, IsIndex, CatalogueOK,
       LookupsNeverMiss, OrderNumbersUnique, IssuedTime, QueueMatchesOrders, Waiting, ScanOK

-----------------------------------------------------------------------------
\* Trains.
LEMMA AddTrainKeeps ==
  ASSUME IInv, NEW id \in TrainId, NEW train \in TrainTotals, AddTrain(id, train)
  PROVE  IInv'
<1>1. train \in Train /\ WellFormed(train) /\ ~train.has_released
  BY TrainTotalsAssumption
<1>2. release' = IndexInsert(release, id, train)
  BY DEF AddTrain
<1>3. DOMAIN release' = DOMAIN release \cup {id}
  BY <1>2, InsertFacts
<1>4. \A k \in DOMAIN release : release'[k] = release[k]
  BY <1>2, InsertFacts
<1>5. id \notin DOMAIN release => release'[id] = train
  BY <1>2, InsertFacts
<1>6. TypeOK'
  <2>1. IsIndex(release', TrainId, Train)
    BY <1>1, <1>2, InsertKeepsType DEF IInv, TypeOK
  <2>2. QED
    BY <2>1 DEF AddTrain, sessions, scan, IInv, TypeOK
<1>7. CatalogueOK'
  BY <1>1, <1>3, <1>4, <1>5 DEF IInv, CatalogueOK
<1>8. LookupsNeverMiss'
  BY <1>1, <1>3, <1>4, <1>5 DEF AddTrain, IInv, LookupsNeverMiss
<1>9. OrderNumbersUnique' /\ QueueMatchesOrders' /\ ScanOK'
  BY DEF AddTrain, sessions, scan, IInv, OrderNumbersUnique, IssuedTime,
         QueueMatchesOrders, Waiting, ScanOK
<1>10. QED
  BY <1>6, <1>7, <1>8, <1>9 DEF IInv

LEMMA DeleteTrainKeeps ==
  ASSUME IInv, NEW id \in TrainId, DeleteTrain(id)
  PROVE  IInv'
<1>1. \/ release' = release
      \/ id \in DOMAIN release /\ ~release[id].has_released
           /\ release' = IndexRemove(release, id)
  BY DEF DeleteTrain
<1>2. TypeOK'
  <2>1. IsIndex(release', TrainId, Train)
    BY <1>1, RemoveKeepsType DEF IInv, TypeOK
  <2>2. QED
    BY <2>1 DEF DeleteTrain, sessions, scan, IInv, TypeOK
<1>3. CatalogueOK' /\ LookupsNeverMiss'
  <2>1. CASE release' = release
    BY <2>1 DEF DeleteTrain, IInv, CatalogueOK, LookupsNeverMiss
  <2>2. CASE id \in DOMAIN release /\ ~release[id].has_released
               /\ release' = IndexRemove(release, id)
    <3>1. DOMAIN release' = DOMAIN release \ {id}
      BY <2>2, RemoveFacts
    <3>2. \A k \in DOMAIN release \ {id} : release'[k] = release[k]
      BY <2>2, RemoveFacts
    <3>3. CatalogueOK'
      BY <3>1, <3>2 DEF IInv, CatalogueOK
    <3>4. LookupsNeverMiss'
      BY <2>2, <3>1, <3>2 DEF DeleteTrain, IInv, LookupsNeverMiss
    <3>5. QED
      BY <3>3, <3>4
  <2>3. QED
    BY <1>1, <2>1, <2>2
<1>4. OrderNumbersUnique' /\ QueueMatchesOrders' /\ ScanOK'
  BY DEF DeleteTrain, sessions, scan, IInv, OrderNumbersUnique, IssuedTime,
         QueueMatchesOrders, Waiting, ScanOK
<1>5. QED
  BY <1>2, <1>3, <1>4 DEF IInv

LEMMA ReleaseTrainKeeps ==
  ASSUME IInv, NEW id \in TrainId, ReleaseTrain(id)
  PROVE  IInv'
<1>1. CASE ~(id \in DOMAIN release /\ ~release[id].has_released)
  BY <1>1 DEF ReleaseTrain, sessions, scan, IInv, TypeOK, CatalogueOK, LookupsNeverMiss,
              OrderNumbersUnique, IssuedTime, QueueMatchesOrders, Waiting, ScanOK
<1>2. CASE id \in DOMAIN release /\ ~release[id].has_released
  <2> DEFINE train == release[id]
             released == [train EXCEPT !.has_released = TRUE]
             opened == OpenedStates(id, train)
             lines == OpenedRoutes(id, train)
  <2>1. train \in Train /\ WellFormed(train)
    BY <1>2 DEF IInv, TypeOK, CatalogueOK, IsIndex
  <2>2. /\ released \in Train
        /\ WellFormed(released)
        /\ released.has_released
        /\ released.stations = train.stations
        /\ released.begin = train.begin
        /\ released.end = train.end
    BY <2>1 DEF Train, WellFormed
  <2>3. /\ IsIndex(opened, TrainId \X Int, Seq(Nat))
        /\ DOMAIN opened = {id} \X (train.begin .. train.end)
        /\ \A td \in DOMAIN opened : Len(opened[td]) = Len(train.stations)
    BY <2>1, OpenedStatesType
  <2>4. /\ IsIndex(lines, Station \X Station \X TrainId, Nat)
        /\ \A r \in DOMAIN lines : r[3] = id
    BY <2>1, OpenedRoutesType
  <2>5. /\ states' = IndexInsertAll(states, opened)
        /\ routes' = IndexInsertAll(routes, lines)
        /\ release' = IndexReplace(release, id, released)
    BY <1>2 DEF ReleaseTrain
  <2> HIDE DEF train, released, opened, lines
  <2>6. TypeOK'
    <3>1. IsIndex(states', TrainId \X Int, Seq(Nat))
      BY <2>3, <2>5, InsertAllKeepsType DEF IInv, TypeOK
    <3>2. IsIndex(routes', Station \X Station \X TrainId, Nat)
      BY <2>4, <2>5, InsertAllKeepsType DEF IInv, TypeOK
    <3>3. IsIndex(release', TrainId, Train)
      BY <2>2, <2>5, ReplaceKeepsType DEF IInv, TypeOK
    <3>4. QED
      BY <3>1, <3>2, <3>3 DEF ReleaseTrain, sessions, scan, IInv, TypeOK
  <2>7. DOMAIN release' = DOMAIN release \cup {id}
    BY <2>5, ReplaceFacts
  <2>8. release'[id] = released
    BY <2>5, ReplaceFacts
  <2>9. \A k \in DOMAIN release \ {id} : release'[k] = release[k]
    BY <2>5, ReplaceFacts
  <2>10. DOMAIN states' = DOMAIN states \cup DOMAIN opened
    BY <2>5, InsertAllFacts
  <2>11. \A td \in DOMAIN states : states'[td] = states[td]
    BY <2>5, InsertAllFacts
  <2>12. \A td \in DOMAIN opened \ DOMAIN states : states'[td] = opened[td]
    BY <2>5, InsertAllFacts
  <2>13. DOMAIN routes' = DOMAIN routes \cup DOMAIN lines
    BY <2>5, InsertAllFacts
  <2>14. CatalogueOK'
    BY <2>2, <2>7, <2>8, <2>9 DEF IInv, CatalogueOK
  <2>15. LookupsNeverMiss'
    <3>1. UNCHANGED user_order
      BY DEF ReleaseTrain
    <3>2. \A k \in DOMAIN user_order' : Departure(user_order'[k]) \in DOMAIN states'
      BY <2>10, <3>1 DEF IInv, LookupsNeverMiss
    <3>3. ASSUME NEW td \in DOMAIN states'
          PROVE  /\ td[1] \in DOMAIN release'
                 /\ release'[td[1]].has_released
                 /\ Len(states'[td]) = Len(release'[td[1]].stations)
      <4>1. CASE td \in DOMAIN states
        BY <1>2, <2>7, <2>9, <2>11, <4>1 DEF IInv, LookupsNeverMiss
      <4>2. CASE td \notin DOMAIN states
        BY <2>2, <2>3, <2>7, <2>8, <2>10, <2>12, <4>2
      <4>3. QED
        BY <4>1, <4>2
    <3>4. ASSUME NEW r \in DOMAIN routes'
          PROVE  r[3] \in DOMAIN release' /\ release'[r[3]].has_released
      <4>1. CASE r \in DOMAIN routes
        BY <1>2, <2>7, <2>9, <4>1 DEF IInv, LookupsNeverMiss
      <4>2. CASE r \notin DOMAIN routes
        BY <2>2, <2>4, <2>7, <2>8, <2>13, <4>2
      <4>3. QED
        BY <4>1, <4>2
    <3>5. ASSUME NEW k \in DOMAIN release', release'[k].has_released
          PROVE  {k} \X (release'[k].begin .. release'[k].end) \subseteq DOMAIN states'
      <4>1. CASE k = id
        BY <2>2, <2>3, <2>8, <2>10, <4>1
      <4>2. CASE k # id
        BY <2>7, <2>9, <2>10, <3>5, <4>2 DEF IInv, LookupsNeverMiss
      <4>3. QED
        BY <4>1, <4>2
    <3>6. QED
      BY <3>2, <3>3, <3>4, <3>5 DEF LookupsNeverMiss
  <2>16. OrderNumbersUnique' /\ QueueMatchesOrders'
    BY DEF ReleaseTrain, sessions, scan, IInv, OrderNumbersUnique, IssuedTime,
           QueueMatchesOrders, Waiting
  <2>17. ScanOK'
    BY DEF ReleaseTrain, scan, IInv, ScanOK
  <2>18. QED
    BY <2>6, <2>14, <2>15, <2>16, <2>17 DEF IInv
<1>3. QED
  BY <1>1, <1>2

-----------------------------------------------------------------------------
\* Buying.
LEMMA AsOrderFacts ==
  ASSUME NEW query \in Query, NEW status \in {"SUCCESS", "PENDING", "REFUNDED"}
  PROVE  /\ AsOrder(query, status) \in Order
         /\ AsOrder(query, status).status = status
         /\ GetKey(AsOrder(query, status)) = GetKey(query)
         /\ QueryKey(AsOrder(query, status)) = QueryKey(query)
         /\ Departure(AsOrder(query, status)) = Departure(query)
         /\ AsOrder(query, status).time = query.time
BY DEF AsOrder, Query, Order, GetKey, QueryKey, Departure

LEMMA QueryFacts ==
  ASSUME NEW query \in Query
  PROVE  /\ GetKey(query) \in Uid \X Nat
         /\ QueryKey(query) \in TrainId \X Int \X Nat
         /\ Departure(query) \in TrainId \X Int
         /\ GetKey(query)[2] = query.time
         /\ QueryKey(query)[3] = query.time
         /\ query.time \in Nat
         /\ query.amount \in Nat
BY DEF Query, GetKey, QueryKey, Departure

LEMMA OrderFacts ==
  ASSUME NEW order \in Order
  PROVE  /\ GetKey(order) \in Uid \X Nat
         /\ QueryKey(order) \in TrainId \X Int \X Nat
         /\ Departure(order) \in TrainId \X Int
         /\ GetKey(order)[2] = order.time
         /\ QueryKey(order)[3] = order.time
         /\ order.time \in Nat
         /\ order.amount \in Nat
BY DEF Order, GetKey, QueryKey, Departure

\* The day a departure leaves its first station is a day.
LEMMA DepartureDayType ==
  ASSUME IInv, NEW id, NEW origin, NEW date \in Date
  PROVE  DepartureDay(id, origin, date) \in Int
<1>1. date \in Int
  BY InputAssumption
<1>2. CASE id \in DOMAIN release /\ FindStation(release[id], origin) # 0
  <2> DEFINE train == release[id]
  <2>1. train \in Train /\ WellFormed(train)
    BY <1>2 DEF IInv, TypeOK, CatalogueOK, IsIndex
  <2>2. train.stations \in Seq(Station) /\ train.leave_day \in Seq(Nat)
    BY <2>1 DEF Train
  <2>3. FindStation(train, origin) \in DOMAIN train.stations
    BY <1>2, <2>2, FindStationFacts
  <2>4. train.leave_day[FindStation(train, origin)] \in Nat
    BY <2>1, <2>2, <2>3 DEF WellFormed
  <2>5. QED
    BY <1>1, <1>2, <2>4 DEF DepartureDay
<1>3. CASE ~(id \in DOMAIN release /\ FindStation(release[id], origin) # 0)
  BY <1>1, <1>3 DEF DepartureDay
<1>4. QED
  BY <1>2, <1>3

\* A number that buy_ticket issues is new to the orders and to the queue.
LEMMA FreshKeys ==
  ASSUME IInv, pc = "idle", NEW query \in Query, query.time = order_time + 1
  PROVE  /\ GetKey(query) \notin DOMAIN user_order
         /\ QueryKey(query) \notin DOMAIN train_query
<1>1. \A k \in DOMAIN user_order : k[2] <= order_time
  BY DEF IInv, OrderNumbersUnique, IssuedTime, TypeOK
<1>2. order_time \in Nat
  BY DEF IInv, TypeOK
<1>3. GetKey(query) \notin DOMAIN user_order
  BY <1>1, <1>2, QueryFacts
<1>4. ASSUME QueryKey(query) \in DOMAIN train_query PROVE FALSE
  <2> DEFINE stored == train_query[QueryKey(query)]
  <2>1. stored \in Query
    BY <1>4 DEF IInv, TypeOK, IsIndex
  <2>2. QueryKey(query) = QueryKey(stored) /\ GetKey(stored) \in DOMAIN user_order
    BY <1>4 DEF IInv, QueueMatchesOrders
  <2> HIDE DEF stored
  <2>3. stored.time = order_time + 1
    BY <2>1, <2>2, QueryFacts
  <2>4. QED
    BY <1>1, <1>2, <2>1, <2>2, <2>3, QueryFacts
<1>5. QED
  BY <1>3, <1>4

\* The new order bears the number just issued, so the numbers stay unique.
LEMMA NewNumberUnique ==
  ASSUME IInv, pc = "idle", pc' = "idle", order_time' = order_time + 1,
         NEW order \in Order, order.time = order_time + 1,
         user_order' = IndexInsert(user_order, GetKey(order), order),
         GetKey(order) \notin DOMAIN user_order
  PROVE  OrderNumbersUnique'
<1>1. DOMAIN user_order' = DOMAIN user_order \cup {GetKey(order)}
  BY InsertFacts
<1>2. \A k \in DOMAIN user_order : user_order'[k] = user_order[k]
  BY InsertFacts
<1>3. user_order'[GetKey(order)] = order
  BY InsertFacts
<1>4. GetKey(order)[2] = order_time + 1
  BY OrderFacts
<1>5. order_time \in Nat
  BY DEF IInv, TypeOK
<1>6. \A k \in DOMAIN user_order :
        /\ k = GetKey(user_order[k])
        /\ k[2] \in 1 .. order_time
        /\ \A l \in DOMAIN user_order : k[2] = l[2] => k = l
  BY DEF IInv, OrderNumbersUnique, IssuedTime
<1>7. IssuedTime' = order_time + 1
  BY DEF IssuedTime
<1>8. ASSUME NEW k \in DOMAIN user_order'
      PROVE  /\ k = GetKey(user_order'[k])
             /\ k[2] \in 1 .. order_time + 1
             /\ \A l \in DOMAIN user_order' : k[2] = l[2] => k = l
  <2>1. CASE k \in DOMAIN user_order
    BY <1>1, <1>2, <1>4, <1>5, <1>6, <2>1
  <2>2. CASE k = GetKey(order)
    BY <1>1, <1>3, <1>4, <1>5, <1>6, <2>2
  <2>3. QED
    BY <1>1, <2>1, <2>2
<1>9. QED
  BY <1>7, <1>8 DEF OrderNumbersUnique

LEMMA BuyNowKeeps ==
  ASSUME IInv, pc = "idle", NEW query \in Query,
         query.time = order_time + 1, order_time' = order_time + 1,
         BuyNow(query), UNCHANGED <<pc, sessions, has_opened, release, routes, scan>>
  PROVE  IInv'
<1> DEFINE td == Departure(query)
           order == AsOrder(query, "SUCCESS")
           taken == TakeSeats(states[td], LegsOf(query), query.amount)
<1>1. /\ td \in DOMAIN states
      /\ Fits(states[td], LegsOf(query), query.amount)
      /\ states' = IndexReplace(states, td, taken)
      /\ user_order' = IndexInsert(user_order, GetKey(query), order)
      /\ UNCHANGED train_query
  BY DEF BuyNow, Bookable
<1>2. /\ order \in Order
      /\ order.status = "SUCCESS"
      /\ GetKey(order) = GetKey(query)
      /\ Departure(order) = td
      /\ order.time = query.time
  BY AsOrderFacts
<1>3. states[td] \in Seq(Nat) /\ td \in TrainId \X Int
  BY <1>1 DEF IInv, TypeOK, IsIndex
<1>4. taken \in Seq(Nat) /\ Len(taken) = Len(states[td])
  <2>1. \A i \in DOMAIN states[td] : states[td][i] \in Nat
    BY <1>3
  <2>2. query.amount \in Nat
    BY QueryFacts
  <2>3. \A i \in DOMAIN states[td] :
          i \in LegsOf(query) => states[td][i] - query.amount \in Nat
    BY <1>1, <2>1, <2>2 DEF Fits
  <2>4. QED
    BY <1>3, <2>2, <2>3, TakeSeatsType
<1> HIDE DEF td, order, taken
<1>5. GetKey(query) \notin DOMAIN user_order
  BY FreshKeys
<1>6. DOMAIN user_order' = DOMAIN user_order \cup {GetKey(query)}
  BY <1>1, InsertFacts
<1>7. \A k \in DOMAIN user_order : user_order'[k] = user_order[k]
  BY <1>1, InsertFacts
<1>8. user_order'[GetKey(query)] = order
  BY <1>1, <1>5, InsertFacts
<1>9. DOMAIN states' = DOMAIN states \cup {td}
  BY <1>1, ReplaceFacts
<1>10. states'[td] = taken
  BY <1>1, ReplaceFacts
<1>11. \A d \in DOMAIN states \ {td} : states'[d] = states[d]
  BY <1>1, ReplaceFacts
<1>12. TypeOK'
  <2>1. IsIndex(states', TrainId \X Int, Seq(Nat))
    BY <1>1, <1>3, <1>4, ReplaceKeepsType DEF IInv, TypeOK
  <2>2. GetKey(query) \in Uid \X Nat
    BY QueryFacts
  <2>3. IsIndex(user_order', Uid \X Nat, Order)
    BY <1>1, <1>2, <2>2, InsertKeepsType DEF IInv, TypeOK
  <2>4. QED
    BY <1>1, <2>1, <2>3 DEF sessions, scan, IInv, TypeOK
<1>13. CatalogueOK'
  BY DEF IInv, CatalogueOK
<1>14. LookupsNeverMiss'
  <2>1. \A k \in DOMAIN user_order' : Departure(user_order'[k]) \in DOMAIN states'
    BY <1>1, <1>2, <1>6, <1>7, <1>8, <1>9 DEF IInv, LookupsNeverMiss
  <2>2. \A d \in DOMAIN states' :
          /\ d[1] \in DOMAIN release
          /\ release[d[1]].has_released
          /\ Len(states'[d]) = Len(release[d[1]].stations)
    BY <1>1, <1>4, <1>9, <1>10, <1>11 DEF IInv, LookupsNeverMiss
  <2>3. QED
    BY <1>9, <2>1, <2>2 DEF IInv, LookupsNeverMiss
<1>15. OrderNumbersUnique'
  BY <1>1, <1>2, <1>5, NewNumberUnique
<1>16. QueueMatchesOrders'
  <2>1. complete_query' = complete_query
    BY DEF scan
  <2>2. Waiting' = Waiting
    BY <1>2, <1>5, <1>6, <1>7, <1>8 DEF Waiting
  <2>3. \A k \in Waiting : user_order'[k] = user_order[k]
    BY <1>7 DEF Waiting
  <2>4. QED
    BY <1>1, <1>6, <1>7, <2>1, <2>2, <2>3 DEF IInv, QueueMatchesOrders
<1>17. ScanOK'
  BY DEF scan, IInv, ScanOK
<1>18. QED
  BY <1>12, <1>13, <1>14, <1>15, <1>16, <1>17 DEF IInv

LEMMA BuyQueuedKeeps ==
  ASSUME IInv, pc = "idle", NEW query \in Query, NEW queue,
         query.time = order_time + 1, order_time' = order_time + 1,
         BuyQueued(query, queue), UNCHANGED <<pc, sessions, has_opened, release, routes, scan>>
  PROVE  IInv'
<1> DEFINE order == AsOrder(query, "PENDING")
           qkey == QueryKey(query)
<1>1. /\ Departure(query) \in DOMAIN states
      /\ train_query' = IndexInsert(train_query, qkey, query)
      /\ user_order' = IndexInsert(user_order, GetKey(query), order)
      /\ UNCHANGED states
  BY DEF BuyQueued, Bookable
<1>2. /\ order \in Order
      /\ order.status = "PENDING"
      /\ GetKey(order) = GetKey(query)
      /\ QueryKey(order) = qkey
      /\ Departure(order) = Departure(query)
      /\ order.time = query.time
  BY AsOrderFacts
<1>3. GetKey(query) \notin DOMAIN user_order /\ qkey \notin DOMAIN train_query
  BY FreshKeys
<1>4. order = AsOrder(query, "PENDING") /\ qkey = QueryKey(query)
  OBVIOUS
<1> HIDE DEF order, qkey
<1>5. DOMAIN user_order' = DOMAIN user_order \cup {GetKey(query)}
  BY <1>1, InsertFacts
<1>6. \A k \in DOMAIN user_order : user_order'[k] = user_order[k]
  BY <1>1, InsertFacts
<1>7. user_order'[GetKey(query)] = order
  BY <1>1, <1>3, InsertFacts
<1>8. DOMAIN train_query' = DOMAIN train_query \cup {qkey}
  BY <1>1, InsertFacts
<1>9. \A k \in DOMAIN train_query : train_query'[k] = train_query[k]
  BY <1>1, InsertFacts
<1>10. train_query'[qkey] = query
  BY <1>1, <1>3, InsertFacts
<1>11. complete_query' = {} /\ complete_query = {}
  BY DEF scan, IInv, ScanOK
<1>12. TypeOK'
  <2>1. GetKey(query) \in Uid \X Nat /\ qkey \in TrainId \X Int \X Nat
    BY <1>4, QueryFacts
  <2>2. IsIndex(user_order', Uid \X Nat, Order)
    BY <1>1, <1>2, <2>1, InsertKeepsType DEF IInv, TypeOK
  <2>3. IsIndex(train_query', TrainId \X Int \X Nat, Query)
    BY <1>1, <2>1, InsertKeepsType DEF IInv, TypeOK
  <2>4. QED
    BY <1>1, <1>11, <2>2, <2>3 DEF sessions, scan, IInv, TypeOK
<1>13. CatalogueOK'
  BY DEF IInv, CatalogueOK
<1>14. LookupsNeverMiss'
  BY <1>1, <1>2, <1>5, <1>6, <1>7 DEF IInv, LookupsNeverMiss
<1>15. OrderNumbersUnique'
  BY <1>1, <1>2, <1>3, NewNumberUnique
<1>16. QueueMatchesOrders'
  <2>1. ASSUME NEW k \in DOMAIN train_query'
        PROVE  /\ k = QueryKey(train_query'[k])
               /\ GetKey(train_query'[k]) \in DOMAIN user_order'
               /\ user_order'[GetKey(train_query'[k])] = AsOrder(train_query'[k], "PENDING")
    <3>1. CASE k \in DOMAIN train_query
      BY <1>5, <1>6, <1>9, <1>11, <3>1 DEF IInv, QueueMatchesOrders
    <3>2. CASE k = qkey
      BY <1>4, <1>5, <1>7, <1>10, <3>2
    <3>3. QED
      BY <1>8, <3>1, <3>2
  <2>2. ASSUME NEW k \in Waiting'
        PROVE  /\ QueryKey(user_order'[k]) \in DOMAIN train_query'
               /\ GetKey(train_query'[QueryKey(user_order'[k])]) = k
    <3>1. CASE k \in DOMAIN user_order
      <4>1. k \in Waiting /\ user_order'[k] = user_order[k]
        BY <1>6, <3>1 DEF Waiting
      <4>2. QED
        BY <1>8, <1>9, <4>1 DEF IInv, QueueMatchesOrders
    <3>2. CASE k = GetKey(query)
      BY <1>2, <1>7, <1>8, <1>10, <3>2
    <3>3. QED
      BY <1>5, <3>1, <3>2 DEF Waiting
  <2>3. QED
    BY <1>11, <2>1, <2>2 DEF QueueMatchesOrders
<1>17. ScanOK'
  BY DEF scan, IInv, ScanOK
<1>18. QED
  BY <1>12, <1>13, <1>14, <1>15, <1>16, <1>17 DEF IInv

LEMMA BuyRefusedKeeps ==
  ASSUME IInv, pc = "idle", NEW query, NEW queue, order_time' = order_time + 1,
         BuyRefused(query, queue), UNCHANGED <<pc, sessions, has_opened, release, routes, scan>>
  PROVE  IInv'
BY DEF BuyRefused, sessions, scan, IInv, TypeOK, CatalogueOK, LookupsNeverMiss,
       OrderNumbersUnique, IssuedTime, QueueMatchesOrders, Waiting, ScanOK

LEMMA BuyTicketKeeps ==
  ASSUME IInv, NEW uid \in Uid, NEW id \in TrainId, NEW origin \in Station,
         NEW des \in Station, NEW date \in Date, NEW amount \in Amount, NEW queue,
         BuyTicket(uid, id, origin, des, date, amount, queue)
  PROVE  IInv'
<1> DEFINE query == [uid |-> uid, train_id |-> id, origin |-> origin, des |-> des,
                     date |-> DepartureDay(id, origin, date), amount |-> amount,
                     time |-> order_time']
<1>1. /\ pc = "idle"
      /\ order_time' = order_time + 1
      /\ BuyNow(query) \/ BuyQueued(query, queue) \/ BuyRefused(query, queue)
      /\ UNCHANGED <<pc, sessions, has_opened, release, routes, scan>>
  BY DEF BuyTicket
<1>2. query \in Query
  <2>1. order_time' \in Nat
    BY <1>1 DEF IInv, TypeOK
  <2>2. amount \in Nat
    BY InputAssumption
  <2>3. QED
    BY <2>1, <2>2, DepartureDayType DEF Query
<1>3. query.time = order_time + 1
  BY <1>1
<1> HIDE DEF query
<1>4. QED
  BY <1>1, <1>2, <1>3, BuyNowKeeps, BuyQueuedKeeps, BuyRefusedKeeps

-----------------------------------------------------------------------------
\* Giving back.

\* A stored order keeps everything but its status.
LEMMA StatusFacts ==
  ASSUME NEW order \in Order, NEW status \in {"SUCCESS", "PENDING", "REFUNDED"}
  PROVE  /\ [order EXCEPT !.status = status] \in Order
         /\ [order EXCEPT !.status = status].status = status
         /\ GetKey([order EXCEPT !.status = status]) = GetKey(order)
         /\ QueryKey([order EXCEPT !.status = status]) = QueryKey(order)
         /\ Departure([order EXCEPT !.status = status]) = Departure(order)
BY DEF Order, GetKey, QueryKey, Departure

\* Changing the status of a stored order disturbs no number and no lookup.
LEMMA SetStatusKeeps ==
  ASSUME IInv, NEW key \in DOMAIN user_order,
         NEW status \in {"SUCCESS", "PENDING", "REFUNDED"},
         user_order' = SetStatus(key, user_order[key], status)
  PROVE  /\ IsIndex(user_order', Uid \X Nat, Order)
         /\ DOMAIN user_order' = DOMAIN user_order
         /\ user_order'[key] = [user_order[key] EXCEPT !.status = status]
         /\ \A k \in DOMAIN user_order \ {key} : user_order'[k] = user_order[k]
         /\ \A k \in DOMAIN user_order :
              /\ GetKey(user_order'[k]) = GetKey(user_order[k])
              /\ QueryKey(user_order'[k]) = QueryKey(user_order[k])
              /\ Departure(user_order'[k]) = Departure(user_order[k])
<1> DEFINE order == [user_order[key] EXCEPT !.status = status]
<1>1. user_order[key] \in Order /\ key \in Uid \X Nat
  BY DEF IInv, TypeOK, IsIndex
<1>2. /\ order \in Order
      /\ GetKey(order) = GetKey(user_order[key])
      /\ QueryKey(order) = QueryKey(user_order[key])
      /\ Departure(order) = Departure(user_order[key])
  BY <1>1, StatusFacts
<1>3. user_order' = IndexReplace(user_order, key, order)
  BY DEF SetStatus
<1>4. order = [user_order[key] EXCEPT !.status = status]
  OBVIOUS
<1> HIDE DEF order
<1>5. IsIndex(user_order', Uid \X Nat, Order)
  BY <1>1, <1>2, <1>3, ReplaceKeepsType DEF IInv, TypeOK
<1>6. DOMAIN user_order' = DOMAIN user_order \cup {key}
  BY <1>3, ReplaceFacts
<1>7. user_order'[key] = order
  BY <1>3, ReplaceFacts
<1>8. \A k \in DOMAIN user_order \ {key} : user_order'[k] = user_order[k]
  BY <1>3, ReplaceFacts
<1>9. QED
  BY <1>2, <1>4, <1>5, <1>6, <1>7, <1>8

\* The key of a query tells the key of its order.
LEMMA QueryOfOrder ==
  ASSUME IInv, NEW k \in DOMAIN train_query
  PROVE  /\ train_query[k] \in Query
         /\ k = QueryKey(train_query[k])
         /\ GetKey(train_query[k]) \in DOMAIN user_order
         /\ user_order[GetKey(train_query[k])] =
              AsOrder(train_query[k], IF k \in complete_query THEN "SUCCESS" ELSE "PENDING")
         /\ user_order[GetKey(train_query[k])].status =
              IF k \in complete_query THEN "SUCCESS" ELSE "PENDING"
         /\ QueryKey(user_order[GetKey(train_query[k])]) = k
         /\ Departure(user_order[GetKey(train_query[k])]) = Departure(train_query[k])
BY AsOrderFacts DEF IInv, TypeOK, IsIndex, QueueMatchesOrders

LEMMA RefundPendingKeeps ==
  ASSUME IInv, NEW uid, NEW rank, RefundPending(uid, rank)
  PROVE  IInv'
<1>1. PICK key \in DOMAIN user_order :
        /\ user_order[key].status = "PENDING"
        /\ train_query' = IndexRemove(train_query, QueryKey(user_order[key]))
        /\ user_order' = SetStatus(key, user_order[key], "REFUNDED")
  BY DEF RefundPending
<1> DEFINE qkey == QueryKey(user_order[key])
<1>2. /\ IsIndex(user_order', Uid \X Nat, Order)
      /\ DOMAIN user_order' = DOMAIN user_order
      /\ user_order'[key] = [user_order[key] EXCEPT !.status = "REFUNDED"]
      /\ \A k \in DOMAIN user_order \ {key} : user_order'[k] = user_order[k]
      /\ \A k \in DOMAIN user_order :
           /\ GetKey(user_order'[k]) = GetKey(user_order[k])
           /\ Departure(user_order'[k]) = Departure(user_order[k])
  BY <1>1, SetStatusKeeps
<1>3. DOMAIN train_query' = DOMAIN train_query \ {qkey}
  BY <1>1, RemoveFacts
<1>4. \A k \in DOMAIN train_query \ {qkey} : train_query'[k] = train_query[k]
  BY <1>1, RemoveFacts
<1>5. complete_query = {} /\ complete_query' = {}
  BY DEF RefundPending, scan, IInv, ScanOK
<1>6. user_order[key] \in Order
  BY DEF IInv, TypeOK, IsIndex
<1>7. user_order'[key].status = "REFUNDED"
  BY <1>2, <1>6, StatusFacts
<1>8. TypeOK'
  <2>1. IsIndex(train_query', TrainId \X Int \X Nat, Query)
    BY <1>1, RemoveKeepsType DEF IInv, TypeOK
  <2>2. QED
    BY <1>2, <1>5, <2>1 DEF RefundPending, sessions, scan, IInv, TypeOK
<1>9. CatalogueOK' /\ LookupsNeverMiss'
  BY <1>2 DEF RefundPending, IInv, CatalogueOK, LookupsNeverMiss
<1>10. OrderNumbersUnique'
  BY <1>2 DEF RefundPending, IInv, OrderNumbersUnique, IssuedTime
<1>11. key \in Waiting
  BY <1>1 DEF Waiting
<1>12. qkey \in DOMAIN train_query /\ GetKey(train_query[qkey]) = key
  BY <1>11 DEF IInv, QueueMatchesOrders
<1>13. QueueMatchesOrders'
  <2>1. ASSUME NEW k \in DOMAIN train_query'
        PROVE  /\ k = QueryKey(train_query'[k])
               /\ GetKey(train_query'[k]) \in DOMAIN user_order'
               /\ user_order'[GetKey(train_query'[k])] = AsOrder(train_query'[k], "PENDING")
    <3>1. k \in DOMAIN train_query /\ k # qkey /\ train_query'[k] = train_query[k]
      BY <1>3, <1>4
    <3>2. /\ k = QueryKey(train_query[k])
          /\ GetKey(train_query[k]) \in DOMAIN user_order
          /\ user_order[GetKey(train_query[k])] = AsOrder(train_query[k], "PENDING")
          /\ QueryKey(user_order[GetKey(train_query[k])]) = k
      BY <1>5, <3>1, QueryOfOrder
    <3>3. GetKey(train_query[k]) # key
      BY <3>1, <3>2
    <3>4. QED
      BY <1>2, <3>1, <3>2, <3>3
  <2>2. ASSUME NEW k \in Waiting'
        PROVE  /\ QueryKey(user_order'[k]) \in DOMAIN train_query'
               /\ GetKey(train_query'[QueryKey(user_order'[k])]) = k
    <3>1. k \in DOMAIN user_order /\ k # key
      BY <1>2, <1>7 DEF Waiting
    <3>2. user_order'[k] = user_order[k] /\ k \in Waiting
      BY <1>2, <3>1 DEF Waiting
    <3>3. /\ QueryKey(user_order[k]) \in DOMAIN train_query
          /\ GetKey(train_query[QueryKey(user_order[k])]) = k
      BY <3>2 DEF IInv, QueueMatchesOrders
    <3>4. QueryKey(user_order[k]) # qkey
      BY <1>12, <3>1, <3>3
    <3>5. QED
      BY <1>3, <1>4, <3>2, <3>3, <3>4
  <2>3. QED
    BY <1>5, <2>1, <2>2 DEF QueueMatchesOrders
<1>14. ScanOK'
  BY <1>5 DEF RefundPending, scan, IInv, ScanOK
<1>15. QED
  BY <1>8, <1>9, <1>10, <1>13, <1>14 DEF IInv

LEMMA RefundBeginKeeps ==
  ASSUME IInv, NEW uid, NEW rank, RefundBegin(uid, rank)
  PROVE  IInv'
<1>1. PICK key \in DOMAIN user_order :
        /\ user_order[key].status = "SUCCESS"
        /\ target' = user_order[key]
        /\ seats' = TakeSeats(states[Departure(user_order[key])],
                              LegsOf(user_order[key]), - user_order[key].amount)
  BY DEF RefundBegin
<1> DEFINE order == user_order[key]
           counts == states[Departure(order)]
<1>2. order \in Order
  BY DEF IInv, TypeOK, IsIndex
<1>3. key = GetKey(order)
  BY DEF IInv, OrderNumbersUnique
<1>4. counts \in Seq(Nat)
  BY DEF IInv, TypeOK, IsIndex, LookupsNeverMiss
<1>5. seats' \in Seq(Nat) /\ Len(seats') = Len(counts)
  <2>1. order.amount \in Nat
    BY <1>2, OrderFacts
  <2>2. \A i \in DOMAIN counts : counts[i] - (- order.amount) \in Nat
    BY <1>4, <2>1
  <2>3. - order.amount \in Int
    BY <2>1
  <2>4. QED
    BY <1>1, <1>4, <2>2, <2>3, TakeSeatsType
<1>6. complete_query = {} /\ complete_query' = {} /\ pc' = "scan"
  BY DEF RefundBegin, IInv, ScanOK
<1>7. TypeOK'
  BY <1>1, <1>2, <1>5, <1>6 DEF RefundBegin, sessions, disk, IInv, TypeOK
<1>8. CatalogueOK' /\ LookupsNeverMiss'
  BY DEF RefundBegin, disk, IInv, CatalogueOK, LookupsNeverMiss
<1>9. OrderNumbersUnique'
  BY <1>6 DEF RefundBegin, disk, IInv, OrderNumbersUnique, IssuedTime
<1>10. QueueMatchesOrders'
  BY <1>6 DEF RefundBegin, disk, IInv, QueueMatchesOrders, Waiting
<1>11. ScanOK'
  BY <1>1, <1>3, <1>5, <1>6 DEF RefundBegin, disk, ScanOK
<1>12. QED
  BY <1>7, <1>8, <1>9, <1>10, <1>11 DEF IInv

LEMMA RefundVisitKeeps ==
  ASSUME IInv, RefundVisit
  PROVE  IInv'
<1>1. PICK key \in DOMAIN train_query :
        LET query == train_query[key]
        IN /\ IsNext(key)
           /\ cursor' = key[3] + 1
           /\ IF Fits(seats, LegsOf(query), query.amount)
              THEN /\ complete_query' = complete_query \cup {key}
                   /\ seats' = TakeSeats(seats, LegsOf(query), query.amount)
                   /\ user_order' = SetStatus(GetKey(query),
                                              user_order[GetKey(query)], "SUCCESS")
              ELSE UNCHANGED <<complete_query, seats, user_order>>
  BY DEF RefundVisit
<1> DEFINE query == train_query[key]
           okey == GetKey(query)
<1>2. /\ pc = "scan" /\ pc' = "scan"
      /\ UNCHANGED <<sessions, order_time, has_opened, release, states, routes,
                     train_query, target, reply>>
  BY DEF RefundVisit
<1>3. key[3] >= cursor /\ cursor \in Nat /\ key[3] \in Nat
  BY <1>1 DEF IsNext, Unvisited, IInv, TypeOK, IsIndex
<1>4. key \notin complete_query
  BY <1>2, <1>3 DEF IInv, ScanOK, TypeOK, IsIndex
<1>5. /\ query \in Query
      /\ okey \in DOMAIN user_order
      /\ user_order[okey] = AsOrder(query, "PENDING")
      /\ user_order[okey].status = "PENDING"
      /\ QueryKey(user_order[okey]) = key
  BY <1>4, QueryOfOrder
<1>6. CASE ~Fits(seats, LegsOf(query), query.amount)
  <2>1. UNCHANGED <<complete_query, seats, user_order>> /\ cursor' = key[3] + 1
    BY <1>1, <1>6
  <2>2. TypeOK'
    BY <1>2, <1>3, <2>1 DEF sessions, IInv, TypeOK
  <2>3. CatalogueOK' /\ LookupsNeverMiss' /\ OrderNumbersUnique' /\ QueueMatchesOrders'
    BY <1>2, <2>1 DEF IInv, CatalogueOK, LookupsNeverMiss, OrderNumbersUnique,
                      IssuedTime, QueueMatchesOrders, Waiting
  <2>4. \A k \in complete_query : k[3] \in Nat
    BY DEF IInv, TypeOK, IsIndex
  <2>5. ScanOK'
    BY <1>2, <1>3, <2>1, <2>4 DEF IInv, ScanOK
  <2>6. QED
    BY <2>2, <2>3, <2>5 DEF IInv
<1>7. CASE Fits(seats, LegsOf(query), query.amount)
  <2>1. /\ complete_query' = complete_query \cup {key}
        /\ seats' = TakeSeats(seats, LegsOf(query), query.amount)
        /\ user_order' = SetStatus(okey, user_order[okey], "SUCCESS")
        /\ cursor' = key[3] + 1
    BY <1>1, <1>7
  <2> DEFINE legs == LegsOf(query)
  <2>2. seats' \in Seq(Nat) /\ Len(seats') = Len(seats)
    <3>1. seats \in Seq(Nat) /\ query.amount \in Nat
      BY <1>5, QueryFacts DEF IInv, TypeOK
    <3>2. \A i \in DOMAIN seats : i \in legs => seats[i] - query.amount \in Nat
      BY <1>7, <3>1 DEF Fits
    <3> HIDE DEF legs
    <3>3. query.amount \in Int
      BY <3>1
    <3>4. QED
      BY <2>1, <3>1, <3>2, <3>3, TakeSeatsType DEF legs
  <2> HIDE DEF legs
  <2>3. /\ IsIndex(user_order', Uid \X Nat, Order)
        /\ DOMAIN user_order' = DOMAIN user_order
        /\ user_order'[okey] = [user_order[okey] EXCEPT !.status = "SUCCESS"]
        /\ \A k \in DOMAIN user_order \ {okey} : user_order'[k] = user_order[k]
        /\ \A k \in DOMAIN user_order :
             /\ GetKey(user_order'[k]) = GetKey(user_order[k])
             /\ Departure(user_order'[k]) = Departure(user_order[k])
    BY <1>5, <2>1, SetStatusKeeps
  <2>4. user_order'[okey] = AsOrder(query, "SUCCESS")
    BY <1>5, <2>3 DEF AsOrder
  <2>5. user_order'[okey].status = "SUCCESS"
    BY <1>5, <2>4, AsOrderFacts
  <2> HIDE DEF query, okey
  <2>6. TypeOK'
    BY <1>2, <1>3, <2>1, <2>2, <2>3 DEF sessions, IInv, TypeOK
  <2>7. CatalogueOK' /\ LookupsNeverMiss'
    BY <1>2, <2>3 DEF IInv, CatalogueOK, LookupsNeverMiss
  <2>8. OrderNumbersUnique'
    BY <1>2, <2>3 DEF IInv, OrderNumbersUnique, IssuedTime
  <2>9. QueueMatchesOrders'
    <3>1. ASSUME NEW k \in DOMAIN train_query'
          PROVE  /\ k = QueryKey(train_query'[k])
                 /\ GetKey(train_query'[k]) \in DOMAIN user_order'
                 /\ user_order'[GetKey(train_query'[k])] =
                      AsOrder(train_query'[k],
                              IF k \in complete_query' THEN "SUCCESS" ELSE "PENDING")
      <4>1. k \in DOMAIN train_query /\ train_query'[k] = train_query[k]
        BY <1>2
      <4>2. /\ k = QueryKey(train_query[k])
            /\ GetKey(train_query[k]) \in DOMAIN user_order
            /\ user_order[GetKey(train_query[k])] =
                 AsOrder(train_query[k], IF k \in complete_query THEN "SUCCESS" ELSE "PENDING")
            /\ QueryKey(user_order[GetKey(train_query[k])]) = k
        BY <4>1, QueryOfOrder
      <4>3. CASE k = key
        BY <2>1, <2>3, <2>4, <4>1, <4>2, <4>3 DEF query, okey
      <4>4. CASE k # key
        <5>1. GetKey(train_query[k]) # okey
          BY <1>5, <4>2, <4>4
        <5>2. k \in complete_query' <=> k \in complete_query
          BY <2>1, <4>4
        <5>3. QED
          BY <2>3, <4>1, <4>2, <5>1, <5>2
      <4>5. QED
        BY <4>3, <4>4
    <3>2. ASSUME NEW k \in Waiting'
          PROVE  /\ QueryKey(user_order'[k]) \in DOMAIN train_query'
                 /\ GetKey(train_query'[QueryKey(user_order'[k])]) = k
      <4>1. k \in DOMAIN user_order /\ k # okey
        BY <2>3, <2>5 DEF Waiting
      <4>2. user_order'[k] = user_order[k] /\ k \in Waiting
        BY <2>3, <4>1 DEF Waiting
      <4>3. QED
        BY <1>2, <4>2 DEF IInv, QueueMatchesOrders
    <3>3. QED
      BY <3>1, <3>2 DEF QueueMatchesOrders
  <2>10. ScanOK'
    <3>1. target.status = "SUCCESS" /\ user_order[GetKey(target)] = target
      BY <1>2 DEF IInv, ScanOK
    <3>2. GetKey(target) # okey
      BY <1>5, <3>1
    <3>3. \A k \in complete_query : k[3] \in Nat /\ k[3] < cursor
      BY <1>2 DEF IInv, TypeOK, IsIndex, ScanOK
    <3>4. \A k \in complete_query' : k[3] < cursor'
      BY <1>3, <2>1, <3>3
    <3>5. GetKey(target) \in DOMAIN user_order /\ Len(seats) = Len(states[Departure(target)])
      BY <1>2 DEF IInv, ScanOK
    <3>6. user_order'[GetKey(target)] = target
      BY <2>3, <3>1, <3>2, <3>5
    <3>7. QED
      BY <1>2, <2>2, <2>3, <3>1, <3>4, <3>5, <3>6 DEF ScanOK
  <2>11. QED
    BY <2>6, <2>7, <2>8, <2>9, <2>10 DEF IInv
<1>8. QED
  BY <1>6, <1>7

LEMMA RefundEndKeeps ==
  ASSUME IInv, RefundEnd
  PROVE  IInv'
<1> DEFINE key == GetKey(target)
           td == Departure(target)
<1>1. /\ pc = "scan" /\ pc' = "idle" /\ complete_query' = {}
      /\ train_query' = [k \in DOMAIN train_query \ complete_query |-> train_query[k]]
      /\ states' = IndexReplace(states, td, seats)
      /\ user_order' = SetStatus(key, target, "REFUNDED")
      /\ seats' = <<>> /\ cursor' = 0
      /\ UNCHANGED <<sessions, order_time, has_opened, release, routes>>
  BY DEF RefundEnd
<1>2. /\ key \in DOMAIN user_order
      /\ user_order[key] = target
      /\ target.status = "SUCCESS"
      /\ Len(seats) = Len(states[td])
      /\ target \in Order
      /\ seats \in Seq(Nat)
  BY <1>1 DEF IInv, ScanOK, TypeOK
<1>3. td \in DOMAIN states /\ td \in TrainId \X Int
  BY <1>2 DEF IInv, LookupsNeverMiss, TypeOK, IsIndex
<1> HIDE DEF key, td
<1>4. user_order' = SetStatus(key, user_order[key], "REFUNDED")
  BY <1>1, <1>2
<1>5. /\ IsIndex(user_order', Uid \X Nat, Order)
      /\ DOMAIN user_order' = DOMAIN user_order
      /\ user_order'[key] = [user_order[key] EXCEPT !.status = "REFUNDED"]
      /\ \A k \in DOMAIN user_order \ {key} : user_order'[k] = user_order[k]
      /\ \A k \in DOMAIN user_order :
           /\ GetKey(user_order'[k]) = GetKey(user_order[k])
           /\ Departure(user_order'[k]) = Departure(user_order[k])
  BY <1>2, <1>4, SetStatusKeeps
<1>6. user_order'[key].status = "REFUNDED"
  BY <1>2, <1>5, StatusFacts
<1>7. DOMAIN states' = DOMAIN states \cup {td}
  BY <1>1, ReplaceFacts
<1>8. states'[td] = seats
  BY <1>1, ReplaceFacts
<1>9. \A d \in DOMAIN states \ {td} : states'[d] = states[d]
  BY <1>1, ReplaceFacts
<1>10. TypeOK'
  <2>1. IsIndex(states', TrainId \X Int, Seq(Nat))
    BY <1>1, <1>2, <1>3, ReplaceKeepsType DEF IInv, TypeOK
  <2>2. IsIndex(train_query', TrainId \X Int \X Nat, Query)
    BY <1>1 DEF IInv, TypeOK, IsIndex
  <2>3. seats' \in Seq(Nat)
    BY <1>1
  <2>4. QED
    BY <1>1, <1>5, <2>1, <2>2, <2>3 DEF sessions, IInv, TypeOK
<1>11. CatalogueOK'
  BY <1>1 DEF IInv, CatalogueOK
<1>12. LookupsNeverMiss'
  <2>1. \A k \in DOMAIN user_order' : Departure(user_order'[k]) \in DOMAIN states'
    BY <1>5, <1>7 DEF IInv, LookupsNeverMiss
  <2>2. \A d \in DOMAIN states' :
          /\ d[1] \in DOMAIN release
          /\ release[d[1]].has_released
          /\ Len(states'[d]) = Len(release[d[1]].stations)
    BY <1>2, <1>3, <1>7, <1>8, <1>9 DEF IInv, LookupsNeverMiss
  <2>3. QED
    BY <1>1, <1>7, <2>1, <2>2 DEF IInv, LookupsNeverMiss
<1>13. OrderNumbersUnique'
  BY <1>1, <1>5 DEF IInv, OrderNumbersUnique, IssuedTime
<1>14. QueueMatchesOrders'
  <2>1. ASSUME NEW k \in DOMAIN train_query'
        PROVE  /\ k = QueryKey(train_query'[k])
               /\ GetKey(train_query'[k]) \in DOMAIN user_order'
               /\ user_order'[GetKey(train_query'[k])] = AsOrder(train_query'[k], "PENDING")
    <3>1. /\ k \in DOMAIN train_query
          /\ k \notin complete_query
          /\ train_query'[k] = train_query[k]
      BY <1>1
    <3>2. /\ k = QueryKey(train_query[k])
          /\ GetKey(train_query[k]) \in DOMAIN user_order
          /\ user_order[GetKey(train_query[k])] = AsOrder(train_query[k], "PENDING")
          /\ user_order[GetKey(train_query[k])].status = "PENDING"
      BY <3>1, QueryOfOrder
    <3>3. GetKey(train_query[k]) # key
      BY <1>2, <3>2
    <3>4. QED
      BY <1>5, <3>1, <3>2, <3>3
  <2>2. ASSUME NEW k \in Waiting'
        PROVE  /\ QueryKey(user_order'[k]) \in DOMAIN train_query'
               /\ GetKey(train_query'[QueryKey(user_order'[k])]) = k
    <3> DEFINE qkey == QueryKey(user_order[k])
    <3>1. k \in DOMAIN user_order /\ k # key
      BY <1>5, <1>6 DEF Waiting
    <3>2. user_order'[k] = user_order[k] /\ k \in Waiting
      BY <1>5, <3>1 DEF Waiting
    <3>3. qkey \in DOMAIN train_query /\ GetKey(train_query[qkey]) = k
      BY <3>2 DEF IInv, QueueMatchesOrders
    <3>4. user_order[k].status = "PENDING"
      BY <3>2 DEF Waiting
    <3>5. qkey \notin complete_query
      BY <3>3, <3>4, QueryOfOrder
    <3> HIDE DEF qkey
    <3>6. qkey \in DOMAIN train_query' /\ train_query'[qkey] = train_query[qkey]
      BY <1>1, <3>3, <3>5
    <3>7. QED
      BY <3>2, <3>3, <3>6 DEF qkey
  <2>3. QED
    BY <1>1, <2>1, <2>2 DEF QueueMatchesOrders
<1>15. ScanOK'
  BY <1>1 DEF ScanOK
<1>16. QED
  BY <1>10, <1>11, <1>12, <1>13, <1>14, <1>15 DEF IInv

-----------------------------------------------------------------------------
LEMMA NextIInv == IInv /\ [Next]_vars => IInv'
<1> SUFFICES ASSUME IInv, [Next]_vars PROVE IInv'
  OBVIOUS
<1>1. CASE UNCHANGED vars
  BY <1>1, StutterKeeps
<1>2. CASE SessionChange
  BY <1>2, SessionChangeKeeps
<1>3. CASE Exit
  BY <1>3, ExitKeeps
<1>4. CASE Boot
  BY <1>4, BootKeeps
<1>5. CASE TrainCommand
  BY <1>5, AddTrainKeeps, DeleteTrainKeeps, ReleaseTrainKeeps DEF TrainCommand
<1>6. CASE BuyCommand
  BY <1>6, BuyTicketKeeps DEF BuyCommand
<1>7. CASE RefundCommand
  BY <1>7, RefundRefusedKeeps, RefundPendingKeeps, RefundBeginKeeps DEF RefundCommand
<1>8. CASE RefundVisit
  BY <1>8, RefundVisitKeeps
<1>9. CASE RefundEnd
  BY <1>9, RefundEndKeeps
<1>10. QED
  BY <1>1, <1>2, <1>3, <1>4, <1>5, <1>6, <1>7, <1>8, <1>9 DEF Next

THEOREM Invariance == Spec => []IInv
<1>1. Init => IInv
  BY InitIInv
<1>2. IInv /\ [Next]_vars => IInv'
  BY NextIInv
<1>3. QED
  BY <1>1, <1>2, PTL DEF Spec

\* Type correctness, for any trains and any history of commands: in particular
\* no count of seats ever goes below zero, whatever is bought, given back and
\* promoted (BuyTicket, Refund).
THEOREM TypeCorrect == Spec => []TypeOK
<1>1. IInv => TypeOK
  BY DEF IInv
<1>2. QED
  BY <1>1, Invariance, PTL

\* The .value() taken without a test in Refund, QueryTicket and QueryTrain
\* always has a value.
THEOREM LookupsSucceed == Spec => []LookupsNeverMiss
<1>1. IInv => LookupsNeverMiss
  BY DEF IInv
<1>2. QED
  BY <1>1, Invariance, PTL

\* No order number is given twice, over any number of commands and restarts.
THEOREM NumbersAreUnique == Spec => []OrderNumbersUnique
<1>1. IInv => OrderNumbersUnique
  BY DEF IInv
<1>2. QED
  BY <1>1, Invariance, PTL

\* Queue and orders tell the same story after every command and at every
\* iteration of the scan.
THEOREM QueueIsTheWaiting == Spec => []QueueMatchesOrders
<1>1. IInv => QueueMatchesOrders
  BY DEF IInv
<1>2. QED
  BY <1>1, Invariance, PTL

-----------------------------------------------------------------------------
\* What one step may do to one stored order.
Moves == {<<"PENDING", "SUCCESS">>, <<"PENDING", "REFUNDED">>, <<"SUCCESS", "REFUNDED">>}

\* Every step leaves the orders alone, enters a new one, or moves the status
\* of one of them forward.
LEMMA StepOnOrders ==
  ASSUME IInv, [Next]_vars
  PROVE  \/ user_order' = user_order
         \/ \E key, order : /\ key \notin DOMAIN user_order
                            /\ user_order' = IndexInsert(user_order, key, order)
         \/ \E key \in DOMAIN user_order, status \in {"SUCCESS", "REFUNDED"} :
              /\ <<user_order[key].status, status>> \in Moves
              /\ user_order' = SetStatus(key, user_order[key], status)
<1>1. CASE UNCHANGED vars
  BY <1>1 DEF vars, disk
<1>2. CASE SessionChange \/ Exit \/ Boot \/ TrainCommand
  BY <1>2 DEF SessionChange, Exit, Boot, TrainCommand, AddTrain, DeleteTrain,
              ReleaseTrain, disk
<1>3. ASSUME NEW uid \in Uid, NEW id \in TrainId, NEW origin \in Station,
             NEW des \in Station, NEW date \in Date, NEW amount \in Amount,
             NEW queue \in BOOLEAN,
             BuyTicket(uid, id, origin, des, date, amount, queue)
      PROVE  \/ user_order' = user_order
             \/ \E key, order : /\ key \notin DOMAIN user_order
                                /\ user_order' = IndexInsert(user_order, key, order)
  <2> DEFINE query == [uid |-> uid, train_id |-> id, origin |-> origin, des |-> des,
                       date |-> DepartureDay(id, origin, date), amount |-> amount,
                       time |-> order_time']
  <2>1. /\ pc = "idle"
        /\ order_time' = order_time + 1
        /\ BuyNow(query) \/ BuyQueued(query, queue) \/ BuyRefused(query, queue)
    BY <1>3 DEF BuyTicket
  <2>2. query \in Query
    <3>1. order_time' \in Nat /\ amount \in Nat
      BY <2>1, InputAssumption DEF IInv, TypeOK
    <3>2. QED
      BY <3>1, DepartureDayType DEF Query
  <2>3. query.time = order_time + 1
    BY <2>1
  <2> HIDE DEF query
  <2>4. GetKey(query) \notin DOMAIN user_order
    BY <2>1, <2>2, <2>3, FreshKeys
  <2>5. CASE BuyNow(query) \/ BuyQueued(query, queue)
    BY <2>4, <2>5 DEF BuyNow, BuyQueued
  <2>6. CASE BuyRefused(query, queue)
    BY <2>6 DEF BuyRefused
  <2>7. QED
    BY <2>1, <2>5, <2>6
<1>4. ASSUME NEW uid \in Uid, NEW rank \in 1 .. MaxOrders,
             RefundRefused(uid, rank) \/ RefundBegin(uid, rank)
      PROVE  user_order' = user_order
  BY <1>4 DEF RefundRefused, RefundBegin, disk
<1>5. ASSUME NEW uid \in Uid, NEW rank \in 1 .. MaxOrders, RefundPending(uid, rank)
      PROVE  \E key \in DOMAIN user_order :
               /\ <<user_order[key].status, "REFUNDED">> \in Moves
               /\ user_order' = SetStatus(key, user_order[key], "REFUNDED")
  BY <1>5 DEF RefundPending, Moves
<1>6. ASSUME RefundVisit
      PROVE  \/ user_order' = user_order
             \/ \E key \in DOMAIN user_order :
                  /\ <<user_order[key].status, "SUCCESS">> \in Moves
                  /\ user_order' = SetStatus(key, user_order[key], "SUCCESS")
  <2>1. PICK key \in DOMAIN train_query :
          /\ IsNext(key)
          /\ \/ user_order' = user_order
             \/ user_order' = SetStatus(GetKey(train_query[key]),
                                        user_order[GetKey(train_query[key])], "SUCCESS")
    BY <1>6 DEF RefundVisit
  <2>2. key[3] >= cursor /\ cursor \in Nat /\ key[3] \in Nat
    BY <2>1 DEF IsNext, Unvisited, IInv, TypeOK, IsIndex
  <2>3. key \notin complete_query
    BY <1>6, <2>2 DEF RefundVisit, IInv, ScanOK
  <2>4. /\ GetKey(train_query[key]) \in DOMAIN user_order
        /\ user_order[GetKey(train_query[key])].status = "PENDING"
    BY <2>3, QueryOfOrder
  <2>5. QED
    BY <2>1, <2>4 DEF Moves
<1>7. ASSUME RefundEnd
      PROVE  \E key \in DOMAIN user_order :
               /\ <<user_order[key].status, "REFUNDED">> \in Moves
               /\ user_order' = SetStatus(key, user_order[key], "REFUNDED")
  BY <1>7 DEF RefundEnd, IInv, ScanOK, Moves
<1>8. QED
  BY <1>1, <1>2, <1>3, <1>4, <1>5, <1>6, <1>7 DEF Next, BuyCommand, RefundCommand

\* What a step does to one stored order: its status may move forward, and
\* nothing else in it changes.
LEMMA StepMovesForward ==
  ASSUME IInv, [Next]_vars, NEW k \in DOMAIN user_order
  PROVE  /\ k \in DOMAIN user_order'
         /\ user_order'[k] = [user_order[k] EXCEPT !.status = user_order'[k].status]
         /\ \/ <<user_order[k].status, user_order'[k].status>> \in Moves
            \/ user_order'[k] = user_order[k]
<1> DEFINE before == user_order[k]
<1>1. before \in Order
  BY DEF IInv, TypeOK, IsIndex
<1>2. before = [before EXCEPT !.status = before.status]
  BY <1>1 DEF Order
<1>3. CASE k \in DOMAIN user_order' /\ user_order'[k] = before
  BY <1>2, <1>3
<1>4. CASE user_order' = user_order
  BY <1>3, <1>4
<1>5. CASE \E key, order : /\ key \notin DOMAIN user_order
                           /\ user_order' = IndexInsert(user_order, key, order)
  <2>1. PICK key, order : /\ key \notin DOMAIN user_order
                          /\ user_order' = IndexInsert(user_order, key, order)
    BY <1>5
  <2>2. DOMAIN user_order' = DOMAIN user_order \cup {key}
    BY <2>1, InsertFacts
  <2>3. \A l \in DOMAIN user_order : user_order'[l] = user_order[l]
    BY <2>1, InsertFacts
  <2>4. QED
    BY <1>3, <2>2, <2>3
<1>6. CASE \E key \in DOMAIN user_order, status \in {"SUCCESS", "REFUNDED"} :
             /\ <<user_order[key].status, status>> \in Moves
             /\ user_order' = SetStatus(key, user_order[key], status)
  <2>1. PICK key \in DOMAIN user_order, status \in {"SUCCESS", "REFUNDED"} :
          /\ <<user_order[key].status, status>> \in Moves
          /\ user_order' = SetStatus(key, user_order[key], status)
    BY <1>6
  <2>2. /\ DOMAIN user_order' = DOMAIN user_order
        /\ user_order'[key] = [user_order[key] EXCEPT !.status = status]
        /\ \A l \in DOMAIN user_order \ {key} : user_order'[l] = user_order[l]
    BY <2>1, SetStatusKeeps
  <2>3. CASE k # key
    BY <1>3, <2>2, <2>3
  <2>4. CASE k = key
    <3>1. user_order'[k] = [before EXCEPT !.status = status]
      BY <2>2, <2>4
    <3>2. user_order'[k].status = status
      BY <1>1, <3>1 DEF Order
    <3>3. QED
      BY <2>1, <2>2, <2>4, <3>1, <3>2
  <2>5. QED
    BY <2>3, <2>4
<1>7. QED
  BY <1>4, <1>5, <1>6, StepOnOrders

\* No order is ever lost, altered or brought back to life.
THEOREM OrdersOnlyMoveForward == Spec => OrderLifecycle
<1> DEFINE Forward ==
      \A k \in DOMAIN user_order :
        /\ k \in DOMAIN user_order'
        /\ LET before == user_order[k]
               after == user_order'[k]
           IN /\ after = [before EXCEPT !.status = after.status]
              /\ <<before.status, after.status>> \in
                   {<<"PENDING", "SUCCESS">>, <<"PENDING", "REFUNDED">>,
                    <<"SUCCESS", "REFUNDED">>} \/ before = after
<1>1. IInv /\ [Next]_vars => Forward
  BY StepMovesForward DEF Moves
<1>2. Forward => [Forward]_vars
  OBVIOUS
<1> HIDE DEF Forward
<1>3. Spec => [][Forward]_vars
  BY <1>1, <1>2, Invariance, PTL DEF Spec
<1>4. QED
  BY <1>3 DEF OrderLifecycle, Forward

\* A step closes no departure and changes nothing about its train.
LEMMA StepKeepsDepartures ==
  ASSUME IInv, [Next]_vars, NEW td \in DOMAIN states
  PROVE  /\ td \in DOMAIN states'
         /\ td[1] \in DOMAIN release'
         /\ release'[td[1]] = release[td[1]]
<1>1. td[1] \in DOMAIN release /\ release[td[1]].has_released
  BY DEF IInv, LookupsNeverMiss
<1>2. CASE UNCHANGED vars \/ SessionChange \/ Exit \/ Boot \/ RefundCommand \/ RefundVisit
  BY <1>1, <1>2 DEF vars, disk, SessionChange, Exit, Boot, RefundCommand, RefundRefused,
              RefundPending, RefundBegin, RefundVisit
<1>3. ASSUME NEW id \in TrainId, NEW train \in TrainTotals, AddTrain(id, train)
      PROVE  /\ td \in DOMAIN states'
             /\ td[1] \in DOMAIN release'
             /\ release'[td[1]] = release[td[1]]
  <2>1. release' = IndexInsert(release, id, train) /\ states' = states
    BY <1>3 DEF AddTrain
  <2>2. \A k \in DOMAIN release : release'[k] = release[k]
    BY <2>1, InsertFacts
  <2>3. DOMAIN release' = DOMAIN release \cup {id}
    BY <2>1, InsertFacts
  <2>4. QED
    BY <1>1, <2>1, <2>2, <2>3
<1>4. ASSUME NEW id \in TrainId, DeleteTrain(id)
      PROVE  /\ td \in DOMAIN states'
             /\ td[1] \in DOMAIN release'
             /\ release'[td[1]] = release[td[1]]
  <2>1. CASE id \in DOMAIN release /\ ~release[id].has_released
    <3>1. release' = IndexRemove(release, id) /\ states' = states
      BY <1>4, <2>1 DEF DeleteTrain
    <3>2. \A k \in DOMAIN release \ {id} : release'[k] = release[k]
      BY <3>1, RemoveFacts
    <3>3. DOMAIN release' = DOMAIN release \ {id}
      BY <3>1, RemoveFacts
    <3>4. QED
      BY <1>1, <2>1, <3>1, <3>2, <3>3
  <2>2. CASE ~(id \in DOMAIN release /\ ~release[id].has_released)
    BY <1>1, <1>4, <2>2 DEF DeleteTrain
  <2>3. QED
    BY <2>1, <2>2
<1>5. ASSUME NEW id \in TrainId, ReleaseTrain(id)
      PROVE  /\ td \in DOMAIN states'
             /\ td[1] \in DOMAIN release'
             /\ release'[td[1]] = release[td[1]]
  <2>1. CASE id \in DOMAIN release /\ ~release[id].has_released
    <3>1. /\ states' = IndexInsertAll(states, OpenedStates(id, release[id]))
          /\ release' = IndexReplace(release, id,
                                     [release[id] EXCEPT !.has_released = TRUE])
      BY <1>5, <2>1 DEF ReleaseTrain
    <3>2. DOMAIN states' = DOMAIN states \cup DOMAIN OpenedStates(id, release[id])
      BY <3>1, InsertAllFacts
    <3>3. \A k \in DOMAIN release \ {id} : release'[k] = release[k]
      BY <3>1, ReplaceFacts
    <3>4. DOMAIN release' = DOMAIN release \cup {id}
      BY <3>1, ReplaceFacts
    <3>5. QED
      BY <1>1, <2>1, <3>2, <3>3, <3>4
  <2>2. CASE ~(id \in DOMAIN release /\ ~release[id].has_released)
    BY <1>1, <1>5, <2>2 DEF ReleaseTrain
  <2>3. QED
    BY <2>1, <2>2
<1>6. CASE BuyCommand
  <2>1. release' = release
    BY <1>6 DEF BuyCommand, BuyTicket
  <2>2. \/ states' = states
        \/ \E query, counts : states' = IndexReplace(states, Departure(query), counts)
    BY <1>6 DEF BuyCommand, BuyTicket, BuyNow, BuyQueued, BuyRefused
  <2>3. DOMAIN states \subseteq DOMAIN states'
    <3>1. CASE \E query, counts : states' = IndexReplace(states, Departure(query), counts)
      <4>1. PICK query, counts : states' = IndexReplace(states, Departure(query), counts)
        BY <3>1
      <4>2. DOMAIN states' = DOMAIN states \cup {Departure(query)}
        BY <4>1, ReplaceFacts
      <4>3. QED
        BY <4>2
    <3>2. QED
      BY <2>2, <3>1
  <2>4. QED
    BY <1>1, <2>1, <2>3
<1>7. CASE RefundEnd
  <2>1. states' = IndexReplace(states, Departure(target), seats) /\ release' = release
    BY <1>7 DEF RefundEnd
  <2>2. DOMAIN states' = DOMAIN states \cup {Departure(target)}
    BY <2>1, ReplaceFacts
  <2>3. QED
    BY <1>1, <2>1, <2>2
<1>8. QED
  BY <1>2, <1>3, <1>4, <1>5, <1>6, <1>7 DEF Next, TrainCommand

\* A departure on sale stays on sale, with the stations and seats it had.
THEOREM DeparturesStay == Spec => OpenedForGood
<1> DEFINE Stays == \A td \in DOMAIN states :
                      /\ td \in DOMAIN states'
                      /\ td[1] \in DOMAIN release'
                      /\ release'[td[1]] = release[td[1]]
<1>1. IInv /\ [Next]_vars => Stays
  BY StepKeepsDepartures
<1>2. Stays => [Stays]_vars
  OBVIOUS
<1> HIDE DEF Stays
<1>3. Spec => [][Stays]_vars
  BY <1>1, <1>2, Invariance, PTL DEF Spec
<1>4. QED
  BY <1>3 DEF OpenedForGood, Stays

-----------------------------------------------------------------------------
\* Sets of seats: one element for each seat of each holder.
SeatsOf(holders, amount) == UNION {{k} \X (1 .. amount[k]) : k \in holders}

\* Finitely many holders occupy finitely many seats.
LEMMA SeatsOfFinite ==
  ASSUME NEW holders, NEW amount, IsFiniteSet(holders),
         \A k \in holders : amount[k] \in Nat
  PROVE  IsFiniteSet(SeatsOf(holders, amount)) /\ Cardinality(SeatsOf(holders, amount)) \in Nat
<1> DEFINE block(k) == {k} \X (1 .. amount[k])
           blocks == {block(k) : k \in holders}
           f == [k \in holders |-> block(k)]
<1>1. ASSUME NEW k \in holders PROVE IsFiniteSet(block(k))
  <2>1. IsFiniteSet({k})
    BY FS_Singleton
  <2>2. amount[k] \in Nat
    OBVIOUS
  <2>3. IsFiniteSet(1 .. amount[k])
    BY <2>2, FS_Interval
  <2>4. QED
    BY <2>1, <2>3, FS_Product
<1>2. f \in Surjection(holders, blocks)
  BY DEF Surjection
<1> HIDE DEF f, block
<1>3. IsFiniteSet(blocks)
  BY <1>2, FS_Surjection
<1>4. \A T \in blocks : IsFiniteSet(T)
  BY <1>1
<1> HIDE DEF blocks
<1>5. IsFiniteSet(UNION blocks)
  BY <1>3, <1>4, FS_UNION
<1>6. SeatsOf(holders, amount) = UNION blocks
  BY DEF SeatsOf, blocks, block
<1>7. QED
  BY <1>5, <1>6, FS_CardinalityType

\* A new holder occupies as many seats as it asked for, none of them taken.
LEMMA AddHolder ==
  ASSUME NEW holders, NEW amount, NEW key, IsFiniteSet(holders), key \notin holders,
         \A k \in holders \cup {key} : amount[k] \in Nat
  PROVE  Cardinality(SeatsOf(holders \cup {key}, amount)) =
           Cardinality(SeatsOf(holders, amount)) + amount[key]
<1> DEFINE old == SeatsOf(holders, amount)
           new == {key} \X (1 .. amount[key])
<1>1. IsFiniteSet(old) /\ Cardinality(old) \in Nat
  BY SeatsOfFinite
<1>2. IsFiniteSet(new) /\ Cardinality(new) = amount[key]
  <2>1. IsFiniteSet({key}) /\ Cardinality({key}) = 1
    BY FS_Singleton
  <2>2. amount[key] \in Nat
    OBVIOUS
  <2>3. IsFiniteSet(1 .. amount[key]) /\ Cardinality(1 .. amount[key]) = amount[key]
    BY <2>2, FS_Interval
  <2>4. IsFiniteSet(new) /\ Cardinality(new) = Cardinality({key}) * Cardinality(1 .. amount[key])
    BY <2>1, <2>3, FS_Product
  <2>5. QED
    BY <2>1, <2>2, <2>3, <2>4
<1>3. SeatsOf(holders \cup {key}, amount) = old \cup new
  BY DEF SeatsOf
<1>4. old \cap new = {}
  <2>1. \A seat \in old : seat[1] \in holders
    BY DEF SeatsOf
  <2>2. \A seat \in new : seat[1] = key
    OBVIOUS
  <2>3. QED
    BY <2>1, <2>2
<1> HIDE DEF old, new
<1>5. Cardinality(old \cup new) = Cardinality(old) + Cardinality(new) - Cardinality(old \cap new)
  BY <1>1, <1>2, FS_Union
<1>6. Cardinality(old \cap new) = 0
  BY <1>4, FS_EmptySet
<1>7. amount[key] \in Nat
  OBVIOUS
<1>8. Cardinality(old \cup new) = Cardinality(old) + amount[key]
  BY <1>1, <1>2, <1>5, <1>6, <1>7
<1>9. QED
  BY <1>3, <1>8 DEF old

\* A holder that leaves frees the seats it occupied.
LEMMA DropHolder ==
  ASSUME NEW holders, NEW amount, NEW key \in holders, IsFiniteSet(holders),
         \A k \in holders : amount[k] \in Nat
  PROVE  Cardinality(SeatsOf(holders \ {key}, amount)) =
           Cardinality(SeatsOf(holders, amount)) - amount[key]
<1> DEFINE rest == holders \ {key}
<1>1. IsFiniteSet(rest)
  BY FS_RemoveElement
<1>2. key \notin rest /\ rest \cup {key} = holders
  OBVIOUS
<1>3. \A k \in rest \cup {key} : amount[k] \in Nat
  OBVIOUS
<1>4. Cardinality(SeatsOf(rest, amount)) \in Nat /\ amount[key] \in Nat
  BY <1>1, <1>3, SeatsOfFinite
<1> HIDE DEF rest
<1>5. Cardinality(SeatsOf(rest \cup {key}, amount)) =
        Cardinality(SeatsOf(rest, amount)) + amount[key]
  BY <1>1, <1>2, <1>3, AddHolder
<1>6. SeatsOf(rest \cup {key}, amount) = SeatsOf(holders, amount)
  BY <1>2
<1>7. Cardinality(SeatsOf(rest, amount)) = Cardinality(SeatsOf(holders, amount)) - amount[key]
  BY <1>4, <1>5, <1>6
<1>8. QED
  BY <1>7 DEF rest

\* Only the holders' own amounts matter.
LEMMA SameSeats ==
  ASSUME NEW holders, NEW amount, NEW other,
         \A k \in holders : amount[k] = other[k]
  PROVE  SeatsOf(holders, amount) = SeatsOf(holders, other)
BY DEF SeatsOf

-----------------------------------------------------------------------------
\* Who holds seats.

\* The orders that hold seats; the one that Refund is giving back does not.
Held ==
  {k \in DOMAIN user_order :
     /\ user_order[k].status = "SUCCESS"
     /\ ~(pc = "scan" /\ k = GetKey(target))}

\* Every order rides its train forward, as BuyTicket has checked.
OrdersRide ==
  \A k \in DOMAIN user_order :
    LET order == user_order[k]
        train == release[order.train_id]
    IN /\ FindStation(train, order.origin) # 0
       /\ FindStation(train, order.origin) < FindStation(train, order.des)

\* The counts of one departure change by amount on the legs of order, those of
\* the other departures do not.
SeatsMove(order, amount) ==
  /\ SeatsNow(Departure(order))' =
       TakeSeats(SeatsNow(Departure(order)), LegsOf(order), amount)
  /\ \A td \in DOMAIN states \ {Departure(order)} : SeatsNow(td)' = SeatsNow(td)

\* A step that moves no seat.
NoSeatMoves ==
  /\ Held' = Held
  /\ \A td \in DOMAIN states : SeatsNow(td)' = SeatsNow(td)

\* order, stored under key by this step, gets its seats.
SeatsTaken(key, order) ==
  /\ key \in DOMAIN user_order' \ Held
  /\ user_order'[key] = order
  /\ Held' = Held \cup {key}
  /\ Departure(order) \in DOMAIN states
  /\ Fits(SeatsNow(Departure(order)), LegsOf(order), order.amount)
  /\ SeatsMove(order, order.amount)
  /\ release' = release /\ DOMAIN states' = DOMAIN states

\* order, stored under key, gives its seats back and the scan begins.
SeatsReturned(key, order) ==
  /\ key \in Held
  /\ user_order[key] = order
  /\ Held' = Held \ {key}
  /\ Departure(order) \in DOMAIN states
  /\ SeatsMove(order, - order.amount)
  /\ pc = "idle" /\ pc' = "scan"
  /\ target' = order /\ cursor' = 0 /\ complete_query' = {}
  /\ UNCHANGED disk

\* An order that rides forward takes at least one leg, and only legs that the
\* counts of its departure have.
LEMMA LegsFacts ==
  ASSUME NEW train, train.stations \in Seq(Station), NEW origin, NEW des,
         FindStation(train, origin) # 0,
         FindStation(train, origin) < FindStation(train, des)
  PROVE  /\ Legs(train, origin, des) \subseteq DOMAIN train.stations
         /\ FindStation(train, origin) \in Legs(train, origin, des)
<1> DEFINE start == FindStation(train, origin)
           end == FindStation(train, des)
<1>1. start \in {0} \cup DOMAIN train.stations /\ end \in {0} \cup DOMAIN train.stations
  BY FindStationFacts
<1>2. DOMAIN train.stations = 1 .. Len(train.stations) /\ Len(train.stations) \in Nat
  BY SeqIsFunction
<1>3. Legs(train, origin, des) = start .. end - 1
  BY DEF Legs
<1> HIDE DEF start, end
<1>4. start \in Nat /\ end \in Nat /\ 1 <= start /\ end <= Len(train.stations) /\ start < end
  BY <1>1, <1>2 DEF start, end
<1>5. QED
  BY <1>2, <1>3, <1>4 DEF start

\* A stored order keeps its departure, its legs and its amount.
LEMMA OrderKept ==
  ASSUME IInv, [Next]_vars, NEW k \in DOMAIN user_order
  PROVE  /\ k \in DOMAIN user_order'
         /\ user_order[k] \in Order
         /\ Departure(user_order[k]) \in DOMAIN states
         /\ user_order'[k].train_id = user_order[k].train_id
         /\ user_order'[k].origin = user_order[k].origin
         /\ user_order'[k].des = user_order[k].des
         /\ user_order'[k].time = user_order[k].time
         /\ user_order'[k].amount = user_order[k].amount
         /\ Departure(user_order'[k]) = Departure(user_order[k])
         /\ release'[user_order[k].train_id] = release[user_order[k].train_id]
         /\ LegsOf(user_order[k])' = LegsOf(user_order[k])
<1> DEFINE order == user_order[k]
<1>1. order \in Order /\ Departure(order) \in DOMAIN states
  BY DEF IInv, TypeOK, IsIndex, LookupsNeverMiss
<1>2. k \in DOMAIN user_order' /\ user_order'[k] = [order EXCEPT !.status = user_order'[k].status]
  BY StepMovesForward
<1>3. /\ user_order'[k].train_id = order.train_id
      /\ user_order'[k].date = order.date
      /\ user_order'[k].origin = order.origin
      /\ user_order'[k].des = order.des
      /\ user_order'[k].time = order.time
      /\ user_order'[k].amount = order.amount
  <2> DEFINE new == user_order'[k].status
  <2> HIDE DEF order, new
  <2>1. user_order'[k] = [order EXCEPT !.status = new]
    BY <1>2 DEF order, new
  <2>2. QED
    BY <1>1, <2>1 DEF Order
<1>4. Departure(order)[1] = order.train_id
  BY DEF Departure
<1>5. release'[order.train_id] = release[order.train_id]
  BY <1>1, <1>4, StepKeepsDepartures
<1>6. Departure(user_order'[k]) = Departure(order)
  BY <1>3 DEF Departure
<1>7. LegsOf(user_order[k])' = LegsOf(user_order[k])
  BY <1>3, <1>5 DEF LegsOf
<1>8. QED
  BY <1>1, <1>2, <1>3, <1>5, <1>6, <1>7

\* The request that BuyTicket examines.
LEMMA BuyTicketQuery ==
  ASSUME IInv, NEW uid \in Uid, NEW id \in TrainId, NEW origin \in Station,
         NEW des \in Station, NEW date \in Date, NEW amount \in Amount, NEW queue,
         BuyTicket(uid, id, origin, des, date, amount, queue)
  PROVE  /\ pc = "idle" /\ pc' = "idle"
         /\ UNCHANGED <<release, scan>>
         /\ \E query \in Query :
              /\ query.time = order_time + 1
              /\ GetKey(query) \notin DOMAIN user_order
              /\ QueryKey(query) \notin DOMAIN train_query
              /\ BuyNow(query) \/ BuyQueued(query, queue) \/ BuyRefused(query, queue)
<1> DEFINE query == [uid |-> uid, train_id |-> id, origin |-> origin, des |-> des,
                     date |-> DepartureDay(id, origin, date), amount |-> amount,
                     time |-> order_time']
<1>1. /\ pc = "idle"
      /\ order_time' = order_time + 1
      /\ BuyNow(query) \/ BuyQueued(query, queue) \/ BuyRefused(query, queue)
      /\ UNCHANGED <<pc, sessions, has_opened, release, routes, scan>>
  BY DEF BuyTicket
<1>2. query \in Query
  <2>1. order_time' \in Nat /\ amount \in Nat
    BY <1>1, InputAssumption DEF IInv, TypeOK
  <2>2. QED
    BY <2>1, DepartureDayType DEF Query
<1>3. query.time = order_time + 1
  BY <1>1
<1> HIDE DEF query
<1>4. GetKey(query) \notin DOMAIN user_order /\ QueryKey(query) \notin DOMAIN train_query
  BY <1>1, <1>2, <1>3, FreshKeys
<1>5. QED
  BY <1>1, <1>2, <1>3, <1>4

\* BuyTicket sells seats that are there (train_system.cpp, BuyTicket).
LEMMA BuyNowOnSeats ==
  ASSUME IInv, pc = "idle", pc' = "idle", release' = release, NEW query \in Query,
         GetKey(query) \notin DOMAIN user_order, BuyNow(query)
  PROVE  SeatsTaken(GetKey(query), AsOrder(query, "SUCCESS"))
<1> DEFINE key == GetKey(query)
           order == AsOrder(query, "SUCCESS")
           td == Departure(query)
<1>1. /\ td \in DOMAIN states
      /\ Fits(states[td], LegsOf(query), query.amount)
      /\ states' = IndexReplace(states, td, TakeSeats(states[td], LegsOf(query), query.amount))
      /\ user_order' = IndexInsert(user_order, key, order)
  BY DEF BuyNow, Bookable
<1>2. /\ order.status = "SUCCESS"
      /\ Departure(order) = td
      /\ LegsOf(order) = LegsOf(query)
      /\ order.amount = query.amount
  BY DEF AsOrder, Departure, LegsOf
<1> HIDE DEF key, order, td
<1>3. /\ DOMAIN user_order' = DOMAIN user_order \cup {key}
      /\ \A k \in DOMAIN user_order : user_order'[k] = user_order[k]
      /\ user_order'[key] = order
  <2>1. DOMAIN user_order' = DOMAIN user_order \cup {key}
    BY <1>1, InsertFacts
  <2>2. \A k \in DOMAIN user_order : user_order'[k] = user_order[k]
    BY <1>1, InsertFacts
  <2>3. user_order'[key] = order
    BY <1>1, InsertFacts DEF key
  <2>4. QED
    BY <2>1, <2>2, <2>3
<1>4. /\ DOMAIN states' = DOMAIN states \cup {td}
      /\ states'[td] = TakeSeats(states[td], LegsOf(query), query.amount)
      /\ \A d \in DOMAIN states \ {td} : states'[d] = states[d]
  <2>1. DOMAIN states' = DOMAIN states \cup {td}
    BY <1>1, ReplaceFacts
  <2>2. states'[td] = TakeSeats(states[td], LegsOf(query), query.amount)
    BY <1>1, ReplaceFacts
  <2>3. \A d \in DOMAIN states \ {td} : states'[d] = states[d]
    BY <1>1, ReplaceFacts
  <2>4. QED
    BY <2>1, <2>2, <2>3
<1>5. Held' = Held \cup {key}
  BY <1>2, <1>3 DEF Held
<1>6. key \notin Held
  BY DEF Held, key
<1>7. SeatsMove(order, order.amount)
  BY <1>1, <1>2, <1>4 DEF SeatsMove, SeatsNow
<1>8. Fits(SeatsNow(td), LegsOf(query), query.amount)
  BY <1>1 DEF SeatsNow
<1>9. SeatsTaken(key, order)
  BY <1>1, <1>2, <1>3, <1>4, <1>5, <1>6, <1>7, <1>8 DEF SeatsTaken
<1>10. QED
  BY <1>9 DEF key, order

\* A queued or refused request moves no seat.
LEMMA BuyLaterOnSeats ==
  ASSUME IInv, pc = "idle", pc' = "idle", NEW query \in Query, NEW queue,
         GetKey(query) \notin DOMAIN user_order,
         BuyQueued(query, queue) \/ BuyRefused(query, queue)
  PROVE  NoSeatMoves
<1>1. states' = states
  BY DEF BuyQueued, BuyRefused
<1>2. CASE BuyQueued(query, queue)
  <2> DEFINE key == GetKey(query)
             order == AsOrder(query, "PENDING")
  <2>1. user_order' = IndexInsert(user_order, key, order)
    BY <1>2 DEF BuyQueued
  <2>2. order.status = "PENDING"
    BY DEF AsOrder
  <2> HIDE DEF key, order
  <2>3. /\ DOMAIN user_order' = DOMAIN user_order \cup {key}
        /\ \A k \in DOMAIN user_order : user_order'[k] = user_order[k]
        /\ user_order'[key] = order
    <3>1. DOMAIN user_order' = DOMAIN user_order \cup {key}
      BY <2>1, InsertFacts
    <3>2. \A k \in DOMAIN user_order : user_order'[k] = user_order[k]
      BY <2>1, InsertFacts
    <3>3. user_order'[key] = order
      BY <2>1, InsertFacts DEF key
    <3>4. QED
      BY <3>1, <3>2, <3>3
  <2>4. Held' = Held
    BY <2>2, <2>3 DEF Held, key
  <2>5. QED
    BY <1>1, <2>4 DEF NoSeatMoves, SeatsNow
<1>3. CASE BuyRefused(query, queue)
  BY <1>1, <1>3 DEF BuyRefused, NoSeatMoves, Held, SeatsNow
<1>4. QED
  BY <1>2, <1>3

\* Commands on trains: a release adds departures and leaves the others alone.
LEMMA TrainCommandOnSeats ==
  ASSUME IInv, TrainCommand
  PROVE  NoSeatMoves
<1>1. pc = "idle" /\ pc' = pc /\ user_order' = user_order
  BY DEF TrainCommand, AddTrain, DeleteTrain, ReleaseTrain
<1>2. \A td \in DOMAIN states : states'[td] = states[td]
  <2>1. CASE states' = states
    BY <2>1
  <2>2. ASSUME NEW entries, states' = IndexInsertAll(states, entries)
        PROVE  \A td \in DOMAIN states : states'[td] = states[td]
    BY <2>2, InsertAllFacts
  <2>3. \/ states' = states
        \/ \E entries : states' = IndexInsertAll(states, entries)
    BY DEF TrainCommand, AddTrain, DeleteTrain, ReleaseTrain
  <2>4. QED
    BY <2>1, <2>2, <2>3
<1>3. QED
  BY <1>1, <1>2 DEF NoSeatMoves, Held, SeatsNow

\* Sessions, restarts, refused refunds and the refund of a waiting order.
LEMMA QuietOnSeats ==
  ASSUME IInv,
         \/ UNCHANGED vars
         \/ SessionChange
         \/ Exit
         \/ Boot
         \/ \E uid \in Uid, rank \in 1 .. MaxOrders :
              RefundRefused(uid, rank) \/ RefundPending(uid, rank)
  PROVE  NoSeatMoves
<1>1. CASE UNCHANGED vars
  BY <1>1 DEF vars, disk, scan, NoSeatMoves, Held, SeatsNow
<1>2. CASE SessionChange \/ Exit \/ Boot
  BY <1>2 DEF SessionChange, Exit, Boot, disk, scan, NoSeatMoves, Held, SeatsNow
<1>3. ASSUME NEW uid, NEW rank, RefundRefused(uid, rank) PROVE NoSeatMoves
  BY <1>3 DEF RefundRefused, disk, scan, NoSeatMoves, Held, SeatsNow
<1>4. ASSUME NEW uid, NEW rank, RefundPending(uid, rank) PROVE NoSeatMoves
  <2>1. PICK key \in DOMAIN user_order :
          /\ user_order[key].status = "PENDING"
          /\ user_order' = SetStatus(key, user_order[key], "REFUNDED")
    BY <1>4 DEF RefundPending
  <2>2. /\ DOMAIN user_order' = DOMAIN user_order
        /\ user_order'[key] = [user_order[key] EXCEPT !.status = "REFUNDED"]
        /\ \A k \in DOMAIN user_order \ {key} : user_order'[k] = user_order[k]
    BY <2>1, SetStatusKeeps
  <2>3. user_order'[key].status = "REFUNDED"
    BY <2>2, StatusFacts DEF IInv, TypeOK, IsIndex
  <2>4. Held' = Held
    BY <1>4, <2>1, <2>2, <2>3 DEF Held, RefundPending
  <2>5. QED
    BY <1>4, <2>4 DEF NoSeatMoves, SeatsNow, RefundPending
<1>5. QED
  BY <1>1, <1>2, <1>3, <1>4

\* Refund gives the seats of a bought order back, in its copy of the counts.
LEMMA RefundBeginOnSeats ==
  ASSUME IInv, NEW uid, NEW rank, RefundBegin(uid, rank)
  PROVE  \E key \in Held, order \in Order : SeatsReturned(key, order)
<1>1. PICK key \in DOMAIN user_order, order \in Order :
        /\ order = user_order[key]
        /\ order.status = "SUCCESS"
        /\ target' = order
        /\ seats' = TakeSeats(states[Departure(order)], LegsOf(order), - order.amount)
  BY DEF RefundBegin, IInv, TypeOK, IsIndex
<1>2. /\ pc = "idle" /\ pc' = "scan" /\ cursor' = 0 /\ complete_query' = {}
      /\ UNCHANGED disk
  BY DEF RefundBegin
<1>3. key = GetKey(order) /\ Departure(order) \in DOMAIN states
  BY <1>1 DEF IInv, OrderNumbersUnique, LookupsNeverMiss
<1>4. key \in Held
  BY <1>1, <1>2 DEF Held
<1>5. Held' = Held \ {key}
  BY <1>1, <1>2, <1>3 DEF Held, disk
<1>6. SeatsMove(order, - order.amount)
  <2>1. SeatsNow(Departure(order)) = states[Departure(order)]
    BY <1>2 DEF SeatsNow
  <2>2. SeatsNow(Departure(order))' = seats'
    BY <1>1, <1>2 DEF SeatsNow
  <2>3. \A td \in DOMAIN states \ {Departure(order)} : SeatsNow(td)' = SeatsNow(td)
    BY <1>1, <1>2 DEF SeatsNow, disk
  <2>4. QED
    BY <1>1, <2>1, <2>2, <2>3 DEF SeatsMove
<1>7. SeatsReturned(key, order)
  BY <1>1, <1>2, <1>3, <1>4, <1>5, <1>6 DEF SeatsReturned
<1>8. QED
  BY <1>1, <1>4, <1>7

\* One iteration of the scan: the oldest unvisited waiter gets its seats when
\* they are there, and is passed over otherwise.
LEMMA RefundVisitOnSeats ==
  ASSUME IInv, RefundVisit
  PROVE  /\ pc = "scan" /\ pc' = "scan"
         /\ UNCHANGED <<release, states, train_query, target>>
         /\ \E key \in DOMAIN train_query, query \in Query :
              /\ train_query[key] = query
              /\ IsNext(key)
              /\ key \notin complete_query
              /\ cursor' = key[3] + 1
              /\ Departure(query) = Departure(target)
              /\ \/ /\ ~Fits(seats, LegsOf(query), query.amount)
                    /\ NoSeatMoves
                    /\ UNCHANGED <<complete_query, user_order>>
                 \/ /\ complete_query' = complete_query \cup {key}
                    /\ GetKey(query) \in DOMAIN user_order
                    /\ user_order[GetKey(query)] = AsOrder(query, "PENDING")
                    /\ DOMAIN user_order' = DOMAIN user_order
                    /\ \A k \in DOMAIN user_order \ {GetKey(query)} :
                         user_order'[k] = user_order[k]
                    /\ SeatsTaken(GetKey(query), AsOrder(query, "SUCCESS"))
<1>1. /\ pc = "scan" /\ pc' = "scan"
      /\ UNCHANGED <<release, states, train_query, target>>
  BY DEF RefundVisit
<1>2. PICK key \in DOMAIN train_query, query \in Query :
        /\ query = train_query[key]
        /\ IsNext(key)
        /\ cursor' = key[3] + 1
        /\ IF Fits(seats, LegsOf(query), query.amount)
           THEN /\ complete_query' = complete_query \cup {key}
                /\ seats' = TakeSeats(seats, LegsOf(query), query.amount)
                /\ user_order' = SetStatus(GetKey(query),
                                           user_order[GetKey(query)], "SUCCESS")
           ELSE UNCHANGED <<complete_query, seats, user_order>>
  BY DEF RefundVisit, IInv, TypeOK, IsIndex
<1> DEFINE okey == GetKey(query)
           order == AsOrder(query, "SUCCESS")
<1>3. key \in Unvisited /\ key[3] >= cursor /\ cursor \in Nat /\ key[3] \in Nat
  BY <1>2 DEF IsNext, Unvisited, IInv, TypeOK, IsIndex
<1>4. key \notin complete_query
  BY <1>1, <1>3 DEF IInv, ScanOK, TypeOK, IsIndex
<1>5. /\ key = QueryKey(query)
      /\ okey \in DOMAIN user_order
      /\ user_order[okey] = AsOrder(query, "PENDING")
      /\ user_order[okey].status = "PENDING"
      /\ Departure(user_order[okey]) = Departure(query)
  BY <1>2, <1>4, QueryOfOrder
<1>6. Departure(query) = Departure(target)
  BY <1>3, <1>5 DEF Unvisited, QueryKey, Departure
<1>7. CASE ~Fits(seats, LegsOf(query), query.amount)
  <2>1. UNCHANGED <<complete_query, seats, user_order>>
    BY <1>2, <1>7
  <2>2. NoSeatMoves
    BY <1>1, <2>1 DEF NoSeatMoves, Held, SeatsNow
  <2>3. QED
    BY <1>1, <1>2, <1>4, <1>6, <1>7, <2>1, <2>2
<1>8. CASE Fits(seats, LegsOf(query), query.amount)
  <2>1. /\ complete_query' = complete_query \cup {key}
        /\ seats' = TakeSeats(seats, LegsOf(query), query.amount)
        /\ user_order' = SetStatus(okey, user_order[okey], "SUCCESS")
    BY <1>2, <1>8
  <2>2. /\ DOMAIN user_order' = DOMAIN user_order
        /\ user_order'[okey] = [user_order[okey] EXCEPT !.status = "SUCCESS"]
        /\ \A k \in DOMAIN user_order \ {okey} : user_order'[k] = user_order[k]
    BY <1>5, <2>1, SetStatusKeeps
  <2>3. user_order'[okey] = order
    BY <1>5, <2>2 DEF AsOrder
  <2>4. /\ Departure(order) = Departure(query)
        /\ LegsOf(order) = LegsOf(query)
        /\ order.amount = query.amount
        /\ order.status = "SUCCESS"
    BY DEF AsOrder, LegsOf, Departure
  <2>5. Departure(order) \in DOMAIN states
    BY <1>5, <2>4 DEF IInv, LookupsNeverMiss
  <2>6. okey # GetKey(target)
    BY <1>1, <1>5 DEF IInv, ScanOK
  <2> HIDE DEF order, okey
  <2>7. Held' = Held \cup {okey}
    BY <1>1, <1>5, <2>2, <2>3, <2>4, <2>6 DEF Held
  <2>8. okey \in DOMAIN user_order' \ Held
    BY <1>5, <2>2 DEF Held
  <2>9. SeatsNow(Departure(order)) = seats /\ SeatsNow(Departure(order))' = seats'
    BY <1>1, <1>6, <2>4 DEF SeatsNow
  <2>10. \A td \in DOMAIN states \ {Departure(order)} : SeatsNow(td)' = SeatsNow(td)
    BY <1>1, <1>6, <2>4 DEF SeatsNow
  <2>11. SeatsMove(order, order.amount)
    BY <2>1, <2>4, <2>9, <2>10 DEF SeatsMove
  <2>12. SeatsTaken(okey, order)
    BY <1>1, <1>8, <2>3, <2>4, <2>5, <2>7, <2>8, <2>9, <2>11 DEF SeatsTaken
  <2>13. QED
    BY <1>1, <1>2, <1>4, <1>5, <1>6, <2>1, <2>2, <2>12 DEF okey, order
<1>9. QED
  BY <1>7, <1>8

\* The end of the scan stores the counts that the scan has computed.
LEMMA RefundEndOnSeats ==
  ASSUME IInv, RefundEnd
  PROVE  NoSeatMoves
<1> DEFINE key == GetKey(target)
           td == Departure(target)
<1>1. /\ pc = "scan" /\ pc' = "idle"
      /\ states' = IndexReplace(states, td, seats)
      /\ user_order' = SetStatus(key, target, "REFUNDED")
  BY DEF RefundEnd
<1>2. key \in DOMAIN user_order /\ user_order[key] = target
  BY <1>1 DEF IInv, ScanOK
<1>3. user_order' = SetStatus(key, user_order[key], "REFUNDED")
  BY <1>1, <1>2
<1>4. /\ DOMAIN user_order' = DOMAIN user_order
      /\ user_order'[key] = [user_order[key] EXCEPT !.status = "REFUNDED"]
      /\ \A k \in DOMAIN user_order \ {key} : user_order'[k] = user_order[k]
  BY <1>2, <1>3, SetStatusKeeps
<1>5. user_order'[key].status = "REFUNDED"
  BY <1>2, <1>4, StatusFacts DEF IInv, TypeOK, IsIndex
<1>6. key = GetKey(target) /\ td = Departure(target)
  OBVIOUS
<1> HIDE DEF key, td
<1>7. Held' = Held
  BY <1>1, <1>4, <1>5, <1>6 DEF Held
<1>8. states'[td] = seats
  BY <1>1, ReplaceFacts
<1>9. \A d \in DOMAIN states \ {td} : states'[d] = states[d]
  BY <1>1, ReplaceFacts
<1>10. \A d \in DOMAIN states : SeatsNow(d)' = SeatsNow(d)
  BY <1>1, <1>6, <1>8, <1>9 DEF SeatsNow
<1>11. QED
  BY <1>7, <1>10 DEF NoSeatMoves

\* Every step moves no seat, or the seats of exactly one order.
LEMMA StepOnSeats ==
  ASSUME IInv, [Next]_vars
  PROVE  \/ NoSeatMoves
         \/ \E key, order : order \in Order /\ SeatsTaken(key, order)
         \/ \E key, order : order \in Order /\ SeatsReturned(key, order)
<1>1. CASE UNCHANGED vars \/ SessionChange \/ Exit \/ Boot
  BY <1>1, QuietOnSeats
<1>2. CASE TrainCommand
  BY <1>2, TrainCommandOnSeats
<1>3. CASE BuyCommand
  <2>1. PICK uid \in Uid, id \in TrainId, origin \in Station, des \in Station,
             date \in Date, amount \in Amount, queue \in BOOLEAN :
          BuyTicket(uid, id, origin, des, date, amount, queue)
    BY <1>3 DEF BuyCommand
  <2>2. /\ pc = "idle" /\ pc' = "idle" /\ release' = release
        /\ \E query \in Query :
             /\ GetKey(query) \notin DOMAIN user_order
             /\ BuyNow(query) \/ BuyQueued(query, queue) \/ BuyRefused(query, queue)
    BY <2>1, BuyTicketQuery
  <2>3. PICK query \in Query :
          /\ GetKey(query) \notin DOMAIN user_order
          /\ BuyNow(query) \/ BuyQueued(query, queue) \/ BuyRefused(query, queue)
    BY <2>2
  <2>4. CASE BuyNow(query)
    BY <2>2, <2>3, <2>4, BuyNowOnSeats, AsOrderFacts
  <2>5. CASE BuyQueued(query, queue) \/ BuyRefused(query, queue)
    BY <2>2, <2>3, <2>5, BuyLaterOnSeats
  <2>6. QED
    BY <2>3, <2>4, <2>5
<1>4. ASSUME NEW uid \in Uid, NEW rank \in 1 .. MaxOrders,
             RefundRefused(uid, rank) \/ RefundPending(uid, rank)
      PROVE  NoSeatMoves
  BY <1>4, QuietOnSeats
<1>5. ASSUME NEW uid \in Uid, NEW rank \in 1 .. MaxOrders, RefundBegin(uid, rank)
      PROVE  \E key, order : order \in Order /\ SeatsReturned(key, order)
  BY <1>5, RefundBeginOnSeats
<1>6. CASE RefundVisit
  <2>1. \/ NoSeatMoves
        \/ \E query \in Query : SeatsTaken(GetKey(query), AsOrder(query, "SUCCESS"))
    BY <1>6, RefundVisitOnSeats
  <2>2. QED
    BY <2>1, AsOrderFacts
<1>7. CASE RefundEnd
  BY <1>7, RefundEndOnSeats
<1>8. QED
  BY <1>1, <1>2, <1>3, <1>4, <1>5, <1>6, <1>7 DEF Next, RefundCommand

\* Only BuyTicket enters orders: bought ones and waiting ones.
LEMMA NewOrder ==
  ASSUME IInv, [Next]_vars, NEW k \in DOMAIN user_order' \ DOMAIN user_order
  PROVE  /\ pc = "idle" /\ pc' = "idle" /\ release' = release
         /\ \E query \in Query :
              /\ k = GetKey(query)
              /\ query.time = order_time + 1
              /\ Bookable(query)
              /\ DOMAIN user_order' = DOMAIN user_order \cup {k}
              /\ \/ /\ user_order'[k] = AsOrder(query, "SUCCESS")
                    /\ BuyNow(query)
                 \/ /\ user_order'[k] = AsOrder(query, "PENDING")
                    /\ \E queue \in BOOLEAN : BuyQueued(query, queue)
<1>1. CASE UNCHANGED vars \/ SessionChange \/ Exit \/ Boot \/ TrainCommand
  BY <1>1 DEF vars, SessionChange, Exit, Boot, TrainCommand, AddTrain, DeleteTrain,
              ReleaseTrain, disk
<1>2. ASSUME \E key \in DOMAIN user_order, status \in {"SUCCESS", "REFUNDED"} :
               user_order' = SetStatus(key, user_order[key], status)
      PROVE  FALSE
  BY <1>2, SetStatusKeeps
<1>3. CASE RefundCommand
  BY <1>2, <1>3 DEF RefundCommand, RefundRefused, RefundPending, RefundBegin, disk
<1>4. CASE RefundVisit
  BY <1>4, RefundVisitOnSeats
<1>5. CASE RefundEnd
  BY <1>2, <1>5 DEF RefundEnd, IInv, ScanOK
<1>6. CASE BuyCommand
  <2>1. PICK uid \in Uid, id \in TrainId, origin \in Station, des \in Station,
             date \in Date, amount \in Amount, queue \in BOOLEAN :
          BuyTicket(uid, id, origin, des, date, amount, queue)
    BY <1>6 DEF BuyCommand
  <2>2. pc = "idle" /\ pc' = "idle" /\ release' = release
    BY <2>1, BuyTicketQuery
  <2>3. PICK query \in Query :
          /\ query.time = order_time + 1
          /\ GetKey(query) \notin DOMAIN user_order
          /\ BuyNow(query) \/ BuyQueued(query, queue) \/ BuyRefused(query, queue)
    BY <2>1, BuyTicketQuery
  <2>4. ASSUME NEW order, user_order' = IndexInsert(user_order, GetKey(query), order)
        PROVE  /\ k = GetKey(query)
               /\ DOMAIN user_order' = DOMAIN user_order \cup {k}
               /\ user_order'[k] = order
    <3>1. DOMAIN user_order' = DOMAIN user_order \cup {GetKey(query)}
      BY <2>4, InsertFacts
    <3>2. user_order'[GetKey(query)] = order
      BY <2>3, <2>4, InsertFacts
    <3>3. QED
      BY <3>1, <3>2
  <2>5. CASE BuyNow(query)
    BY <2>2, <2>3, <2>4, <2>5 DEF BuyNow
  <2>6. CASE BuyQueued(query, queue)
    BY <2>2, <2>3, <2>4, <2>6 DEF BuyQueued
  <2>7. CASE BuyRefused(query, queue)
    BY <2>7 DEF BuyRefused
  <2>8. QED
    BY <2>3, <2>5, <2>6, <2>7
<1>7. QED
  BY <1>1, <1>3, <1>4, <1>5, <1>6 DEF Next

\* A new departure starts with all the seats of its train.
LEMMA NewDeparture ==
  ASSUME IInv, [Next]_vars, NEW td \in DOMAIN states' \ DOMAIN states
  PROVE  /\ pc' = "idle" /\ user_order' = user_order
         /\ states'[td] = Construct(release'[td[1]])
<1>1. PICK id \in TrainId : ReleaseTrain(id)
  <2>1. ASSUME NEW d \in DOMAIN states, NEW counts,
               states' = IndexReplace(states, d, counts)
        PROVE  FALSE
    <3>1. DOMAIN states' = DOMAIN states \cup {d}
      BY <2>1, ReplaceFacts
    <3>2. QED
      BY <3>1
  <2>2. CASE UNCHANGED vars \/ SessionChange \/ Exit \/ Boot \/ RefundCommand \/ RefundVisit
    BY <2>2 DEF vars, SessionChange, Exit, Boot, RefundCommand, RefundRefused,
                RefundPending, RefundBegin, RefundVisit, disk
  <2>3. CASE BuyCommand
    BY <2>1, <2>3 DEF BuyCommand, BuyTicket, BuyNow, BuyQueued, BuyRefused, Bookable
  <2>4. CASE RefundEnd
    <3>1. Departure(target) \in DOMAIN states
      <4>1. GetKey(target) \in DOMAIN user_order /\ user_order[GetKey(target)] = target
        BY <2>4 DEF RefundEnd, IInv, ScanOK
      <4>2. QED
        BY <4>1 DEF IInv, LookupsNeverMiss
    <3>2. QED
      BY <2>1, <2>4, <3>1 DEF RefundEnd
  <2>5. QED
    BY <2>2, <2>3, <2>4 DEF Next, TrainCommand, AddTrain, DeleteTrain
<1> DEFINE train == release[id]
           opened == OpenedStates(id, train)
           released == [train EXCEPT !.has_released = TRUE]
<1>2. /\ id \in DOMAIN release
      /\ states' = IndexInsertAll(states, opened)
      /\ release' = IndexReplace(release, id, released)
      /\ pc = "idle" /\ pc' = pc /\ user_order' = user_order
  BY <1>1 DEF ReleaseTrain
<1>3. train \in Train
  BY <1>2 DEF IInv, TypeOK, IsIndex
<1>4. DOMAIN opened = {id} \X (train.begin .. train.end)
  BY <1>3, OpenedStatesType
<1>5. Construct(released) = Construct(train)
  BY <1>3 DEF Train, Construct
<1>6. \A d \in DOMAIN opened : opened[d] = Construct(train)
  BY DEF OpenedStates
<1> HIDE DEF train, opened, released
<1>7. DOMAIN states' = DOMAIN states \cup DOMAIN opened
  BY <1>2, InsertAllFacts
<1>8. td \in DOMAIN opened /\ td[1] = id
  BY <1>4, <1>7
<1>9. states'[td] = opened[td]
  BY <1>2, <1>8, InsertAllFacts
<1>10. release'[id] = released
  BY <1>2, ReplaceFacts
<1>11. QED
  BY <1>2, <1>5, <1>6, <1>8, <1>9, <1>10

-----------------------------------------------------------------------------
\* No seat is sold twice and none is lost.

\* The inductive invariant: the orders are finitely many, so that their seats
\* can be counted, and each of them occupies legs that its departure has.
SeatInv == IInv /\ IsFiniteSet(DOMAIN user_order) /\ OrdersRide /\ SeatsConserved

LEMMA CountsFacts ==
  ASSUME IInv, NEW td \in DOMAIN states
  PROVE  /\ td[1] \in DOMAIN release
         /\ release[td[1]] \in Train
         /\ release[td[1]].stations \in Seq(Station)
         /\ SeatsNow(td) \in Seq(Nat)
         /\ DOMAIN SeatsNow(td) = DOMAIN states[td]
         /\ DOMAIN states[td] = DOMAIN release[td[1]].stations
<1>1. td[1] \in DOMAIN release /\ Len(states[td]) = Len(release[td[1]].stations)
  BY DEF IInv, LookupsNeverMiss
<1>2. release[td[1]] \in Train /\ release[td[1]].stations \in Seq(Station)
  BY <1>1 DEF IInv, TypeOK, IsIndex, Train
<1>3. states[td] \in Seq(Nat) /\ seats \in Seq(Nat)
  BY DEF IInv, TypeOK, IsIndex
<1>4. SeatsNow(td) \in Seq(Nat) /\ Len(SeatsNow(td)) = Len(states[td])
  BY <1>3 DEF SeatsNow, IInv, ScanOK
<1>5. DOMAIN SeatsNow(td) = DOMAIN states[td]
  BY <1>3, <1>4, SeqIsFunction
<1>6. DOMAIN states[td] = DOMAIN release[td[1]].stations
  BY <1>1, <1>2, <1>3, SeqIsFunction
<1>7. QED
  BY <1>1, <1>2, <1>4, <1>5, <1>6

LEMMA FiniteStep ==
  ASSUME IInv, [Next]_vars, IsFiniteSet(DOMAIN user_order)
  PROVE  IsFiniteSet(DOMAIN user_order')
<1>1. CASE DOMAIN user_order' \subseteq DOMAIN user_order
  BY <1>1, FS_Subset
<1>2. CASE \E k : DOMAIN user_order' = DOMAIN user_order \cup {k}
  BY <1>2, FS_AddElement
<1>3. QED
  BY <1>1, <1>2, NewOrder

LEMMA RidesStep ==
  ASSUME IInv, [Next]_vars, OrdersRide
  PROVE  OrdersRide'
<1> SUFFICES ASSUME NEW k \in DOMAIN user_order'
             PROVE  /\ FindStation(release'[user_order'[k].train_id], user_order'[k].origin) # 0
                    /\ FindStation(release'[user_order'[k].train_id], user_order'[k].origin)
                         < FindStation(release'[user_order'[k].train_id], user_order'[k].des)
  BY DEF OrdersRide
<1>1. CASE k \in DOMAIN user_order
  BY <1>1, OrderKept DEF OrdersRide
<1>2. CASE k \notin DOMAIN user_order
  <2>1. PICK query \in Query :
          /\ Bookable(query) /\ release' = release
          /\ \/ user_order'[k] = AsOrder(query, "SUCCESS")
             \/ user_order'[k] = AsOrder(query, "PENDING")
    BY <1>2, NewOrder
  <2>2. QED
    BY <2>1 DEF Bookable, AsOrder
<1>3. QED
  BY <1>1, <1>2

\* How many seats leg i of a departure has sold, from the amounts of its holders.
Amounts == [k \in DOMAIN user_order |-> user_order[k].amount]

LEMMA SoldFacts ==
  ASSUME IInv, IsFiniteSet(DOMAIN user_order), NEW td, NEW i
  PROVE  /\ Holders(td, i) = {k \in Held : Departure(user_order[k]) = td
                                           /\ i \in LegsOf(user_order[k])}
         /\ IsFiniteSet(Holders(td, i))
         /\ SoldSeats(td, i) = SeatsOf(Holders(td, i), Amounts)
         /\ \A k \in DOMAIN user_order : Amounts[k] = user_order[k].amount /\ Amounts[k] \in Nat
         /\ Cardinality(SoldSeats(td, i)) \in Nat
<1>1. Holders(td, i) = {k \in Held : Departure(user_order[k]) = td
                                     /\ i \in LegsOf(user_order[k])}
  BY DEF Holders, Held
<1>2. Holders(td, i) \in SUBSET DOMAIN user_order
  BY DEF Holders
<1>3. IsFiniteSet(Holders(td, i))
  BY <1>2, FS_Subset
<1>4. \A k \in DOMAIN user_order : Amounts[k] = user_order[k].amount /\ Amounts[k] \in Nat
  BY OrderFacts DEF Amounts, IInv, TypeOK, IsIndex
<1>5. SoldSeats(td, i) = SeatsOf(Holders(td, i), Amounts)
  BY <1>2, <1>4 DEF SoldSeats, SeatsOf
<1>6. Cardinality(SoldSeats(td, i)) \in Nat
  BY <1>2, <1>3, <1>4, <1>5, SeatsOfFinite
<1>7. QED
  BY <1>1, <1>3, <1>4, <1>5, <1>6

\* A departure with the same holders on a leg has sold the same seats on it.
LEMMA SameHolders ==
  ASSUME IInv, IInv', IsFiniteSet(DOMAIN user_order), IsFiniteSet(DOMAIN user_order'),
         [Next]_vars, NEW td, NEW i, Holders(td, i)' = Holders(td, i)
  PROVE  SoldSeats(td, i)' = SoldSeats(td, i)
<1>1. Holders(td, i) \subseteq DOMAIN user_order
  BY DEF Holders
<1>2. \A k \in Holders(td, i) : user_order'[k].amount = user_order[k].amount
  BY <1>1, OrderKept
<1>3. QED
  BY <1>2 DEF SoldSeats

\* The same facts of the state after a step.
LEMMA SoldAfter ==
  ASSUME IInv', IsFiniteSet(DOMAIN user_order'), NEW td, NEW i
  PROVE  /\ Holders(td, i)' = {k \in Held' : Departure(user_order'[k]) = td
                                             /\ i \in LegsOf(user_order[k])'}
         /\ IsFiniteSet(Holders(td, i)')
         /\ SoldSeats(td, i)' = SeatsOf(Holders(td, i)', Amounts')
         /\ \A k \in DOMAIN user_order' :
              Amounts'[k] = user_order'[k].amount /\ Amounts'[k] \in Nat
<1>1. Holders(td, i)' = {k \in Held' : Departure(user_order'[k]) = td
                                       /\ i \in LegsOf(user_order[k])'}
  BY DEF Holders, Held
<1>2. Holders(td, i)' \in SUBSET DOMAIN user_order'
  BY DEF Holders
<1>3. IsFiniteSet(Holders(td, i)')
  BY <1>2, FS_Subset
<1>4. \A k \in DOMAIN user_order' :
        Amounts'[k] = user_order'[k].amount /\ Amounts'[k] \in Nat
  BY OrderFacts DEF Amounts, IInv, TypeOK, IsIndex
<1>5. SoldSeats(td, i)' = SeatsOf(Holders(td, i)', Amounts')
  BY <1>2, <1>4 DEF SoldSeats, SeatsOf
<1>6. QED
  BY <1>1, <1>3, <1>4, <1>5

\* Each seat that an order takes is taken from the counts of its legs.
LEMMA TakenStep ==
  ASSUME SeatInv, [Next]_vars, IInv', IsFiniteSet(DOMAIN user_order'),
         NEW key, NEW order \in Order, SeatsTaken(key, order),
         NEW td \in DOMAIN states, NEW i \in DOMAIN states[td]
  PROVE  SeatsNow(td)'[i] + Cardinality(SoldSeats(td, i)') =
           SeatsNow(td)[i] + Cardinality(SoldSeats(td, i))
<1> DEFINE old == Holders(td, i)
<1>1. IInv /\ IsFiniteSet(DOMAIN user_order)
  BY DEF SeatInv
<1>2. /\ key \in DOMAIN user_order' \ Held /\ user_order'[key] = order
      /\ Held' = Held \cup {key} /\ release' = release
      /\ SeatsMove(order, order.amount)
  BY DEF SeatsTaken
<1>3. Held \subseteq DOMAIN user_order
  BY DEF Held
<1>4. LegsOf(user_order[key])' = LegsOf(order)
  BY <1>2 DEF LegsOf
<1>5. i \in DOMAIN SeatsNow(td) /\ SeatsNow(td) \in Seq(Nat)
  BY <1>1, CountsFacts
<1>6. SeatsNow(td)[i] \in Nat /\ Cardinality(SoldSeats(td, i)) \in Nat /\ order.amount \in Nat
  BY <1>1, <1>5, SoldFacts, OrderFacts
<1>7. \A k \in Held : Departure(user_order'[k]) = td /\ i \in LegsOf(user_order[k])'
                        <=> Departure(user_order[k]) = td /\ i \in LegsOf(user_order[k])
  BY <1>1, <1>3, OrderKept
<1>8. CASE td = Departure(order) /\ i \in LegsOf(order)
  <2>1. Holders(td, i)' = old \cup {key} /\ key \notin old /\ IsFiniteSet(old)
    BY <1>1, <1>2, <1>4, <1>7, <1>8, SoldFacts, SoldAfter
  <2>2. old \cup {key} \subseteq DOMAIN user_order' /\ old \subseteq DOMAIN user_order
    BY <1>1, <1>2, <1>3, SoldFacts, OrderKept
  <2>3. \A k \in old \cup {key} : Amounts'[k] \in Nat
    BY <2>2, SoldAfter
  <2>4. Amounts'[key] = order.amount
    BY <1>2, SoldAfter
  <2>5. \A k \in old : Amounts'[k] = Amounts[k]
    BY <1>1, <2>2, SoldFacts, SoldAfter, OrderKept
  <2> HIDE DEF old
  <2>6. Cardinality(SeatsOf(old \cup {key}, Amounts')) =
          Cardinality(SeatsOf(old, Amounts')) + Amounts'[key]
    BY <2>1, <2>3, AddHolder
  <2>7. SeatsOf(old, Amounts') = SeatsOf(old, Amounts)
    BY <2>5, SameSeats
  <2>8. SoldSeats(td, i)' = SeatsOf(old \cup {key}, Amounts')
    BY <2>1, SoldAfter
  <2>9. SoldSeats(td, i) = SeatsOf(old, Amounts)
    BY <1>1, SoldFacts DEF old
  <2>10. Cardinality(SoldSeats(td, i)') = Cardinality(SoldSeats(td, i)) + order.amount
    BY <2>4, <2>6, <2>7, <2>8, <2>9
  <2>11. SeatsNow(td)'[i] = SeatsNow(td)[i] - order.amount
    BY <1>2, <1>5, <1>8 DEF SeatsMove, TakeSeats
  <2>12. QED
    BY <1>6, <2>10, <2>11
<1>9. CASE ~(td = Departure(order) /\ i \in LegsOf(order))
  <2>1. Holders(td, i)' = Holders(td, i)
    <3>1. Holders(td, i)' = {k \in Held' : Departure(user_order'[k]) = td
                                           /\ i \in LegsOf(user_order[k])'}
      BY SoldAfter
    <3>2. Holders(td, i) = {k \in Held : Departure(user_order[k]) = td
                                         /\ i \in LegsOf(user_order[k])}
      BY <1>1, SoldFacts
    <3>3. ~(Departure(user_order'[key]) = td /\ i \in LegsOf(user_order[key])')
      BY <1>2, <1>4, <1>9
    <3>4. QED
      BY <1>2, <1>7, <3>1, <3>2, <3>3
  <2>2. SoldSeats(td, i)' = SoldSeats(td, i)
    BY <1>1, <2>1, SameHolders
  <2>3. SeatsNow(td)'[i] = SeatsNow(td)[i]
    BY <1>2, <1>5, <1>9 DEF SeatsMove, TakeSeats
  <2>4. QED
    BY <2>2, <2>3
<1>10. QED
  BY <1>8, <1>9

\* Each seat that an order gives back returns to the counts of its legs.
LEMMA ReturnedStep ==
  ASSUME SeatInv, [Next]_vars, IInv', IsFiniteSet(DOMAIN user_order'),
         NEW key, NEW order \in Order, SeatsReturned(key, order),
         NEW td \in DOMAIN states, NEW i \in DOMAIN states[td]
  PROVE  SeatsNow(td)'[i] + Cardinality(SoldSeats(td, i)') =
           SeatsNow(td)[i] + Cardinality(SoldSeats(td, i))
<1> DEFINE old == Holders(td, i)
<1>1. IInv /\ IsFiniteSet(DOMAIN user_order)
  BY DEF SeatInv
<1>2. /\ key \in Held /\ user_order[key] = order
      /\ Held' = Held \ {key} /\ UNCHANGED <<user_order, release>>
      /\ SeatsMove(order, - order.amount)
  BY DEF SeatsReturned, disk
<1>3. i \in DOMAIN SeatsNow(td) /\ SeatsNow(td) \in Seq(Nat)
  BY <1>1, CountsFacts
<1>4. SeatsNow(td)[i] \in Nat /\ Cardinality(SoldSeats(td, i)) \in Nat /\ order.amount \in Nat
  BY <1>1, <1>3, SoldFacts, OrderFacts
<1>5. Holders(td, i)' = {k \in Held \ {key} : Departure(user_order[k]) = td
                                              /\ i \in LegsOf(user_order[k])}
  BY <1>2, SoldAfter DEF LegsOf
<1>6. Amounts' = Amounts
  BY <1>2 DEF Amounts
<1>7. CASE td = Departure(order) /\ i \in LegsOf(order)
  <2>1. Holders(td, i)' = old \ {key} /\ key \in old /\ IsFiniteSet(old)
    BY <1>1, <1>2, <1>5, <1>7, SoldFacts
  <2>2. \A k \in old : Amounts[k] \in Nat
    BY <1>1, SoldFacts DEF Held
  <2>3. Amounts[key] = order.amount
    BY <1>1, <1>2, SoldFacts DEF Held
  <2> HIDE DEF old
  <2>4. Cardinality(SeatsOf(old \ {key}, Amounts)) =
          Cardinality(SeatsOf(old, Amounts)) - Amounts[key]
    BY <2>1, <2>2, DropHolder
  <2>5. SoldSeats(td, i)' = SeatsOf(old \ {key}, Amounts)
    BY <1>6, <2>1, SoldAfter
  <2>6. SoldSeats(td, i) = SeatsOf(old, Amounts)
    BY <1>1, SoldFacts DEF old
  <2>7. Cardinality(SoldSeats(td, i)') = Cardinality(SoldSeats(td, i)) - order.amount
    BY <2>3, <2>4, <2>5, <2>6
  <2>8. SeatsNow(td)'[i] = SeatsNow(td)[i] - (- order.amount)
    BY <1>2, <1>3, <1>7 DEF SeatsMove, TakeSeats
  <2>9. QED
    BY <1>4, <2>7, <2>8
<1>8. CASE ~(td = Departure(order) /\ i \in LegsOf(order))
  <2>1. Holders(td, i)' = Holders(td, i)
    BY <1>1, <1>2, <1>5, <1>8, SoldFacts
  <2>2. SoldSeats(td, i)' = SoldSeats(td, i)
    BY <1>1, <2>1, SameHolders
  <2>3. SeatsNow(td)'[i] = SeatsNow(td)[i]
    BY <1>2, <1>3, <1>8 DEF SeatsMove, TakeSeats
  <2>4. QED
    BY <2>2, <2>3
<1>9. QED
  BY <1>7, <1>8

LEMMA ConservedStep ==
  ASSUME SeatInv, [Next]_vars, IInv', IsFiniteSet(DOMAIN user_order'),
         NEW td \in DOMAIN states', NEW i \in DOMAIN states'[td]
  PROVE  SeatsNow(td)'[i] + Cardinality(SoldSeats(td, i)') = release'[td[1]].tickets_num
<1>1. IInv /\ IsFiniteSet(DOMAIN user_order)
  BY DEF SeatInv
<1>2. /\ td[1] \in DOMAIN release'
      /\ DOMAIN states'[td] = DOMAIN release'[td[1]].stations
      /\ release'[td[1]] \in Train
  <2>1. td[1] \in DOMAIN release' /\ Len(states'[td]) = Len(release'[td[1]].stations)
    BY DEF IInv, LookupsNeverMiss
  <2>2. states'[td] \in Seq(Nat) /\ release'[td[1]] \in Train
    BY <2>1 DEF IInv, TypeOK, IsIndex
  <2>3. release'[td[1]].stations \in Seq(Station)
    BY <2>2 DEF Train
  <2>4. QED
    BY <2>1, <2>2, <2>3, SeqIsFunction
<1>3. CASE td \notin DOMAIN states
  <2>1. /\ pc' = "idle" /\ user_order' = user_order
        /\ states'[td] = Construct(release'[td[1]])
    BY <1>1, <1>3, NewDeparture
  <2>2. Holders(td, i)' = {}
    BY <1>1, <1>3, <2>1, OrderKept DEF Holders
  <2>3. SoldSeats(td, i)' = {}
    BY <2>2 DEF SoldSeats
  <2>4. SeatsNow(td)'[i] = release'[td[1]].tickets_num
    BY <1>2, <2>1 DEF SeatsNow, Construct
  <2>5. release'[td[1]].tickets_num \in Nat
    BY <1>2 DEF Train
  <2>6. QED
    BY <2>3, <2>4, <2>5, FS_EmptySet
<1>4. CASE td \in DOMAIN states
  <2>1. release'[td[1]] = release[td[1]]
    BY <1>1, <1>4, StepKeepsDepartures
  <2>2. i \in DOMAIN states[td]
    BY <1>1, <1>2, <1>4, <2>1, CountsFacts
  <2>3. SeatsNow(td)[i] + Cardinality(SoldSeats(td, i)) = release[td[1]].tickets_num
    BY <1>4, <2>2 DEF SeatInv, SeatsConserved
  <2>4. SeatsNow(td)'[i] + Cardinality(SoldSeats(td, i)') =
          SeatsNow(td)[i] + Cardinality(SoldSeats(td, i))
    <3>1. CASE NoSeatMoves
      <4>1. Held' = Held /\ SeatsNow(td)' = SeatsNow(td)
        BY <1>4, <3>1 DEF NoSeatMoves
      <4>2. Held \subseteq DOMAIN user_order
        BY DEF Held
      <4>3. \A k \in Held : Departure(user_order'[k]) = Departure(user_order[k])
                              /\ LegsOf(user_order[k])' = LegsOf(user_order[k])
        BY <1>1, <4>2, OrderKept
      <4>4. Holders(td, i) = {k \in Held : Departure(user_order[k]) = td
                                           /\ i \in LegsOf(user_order[k])}
        BY <1>1, SoldFacts
      <4>5. Holders(td, i)' = {k \in Held' : Departure(user_order'[k]) = td
                                             /\ i \in LegsOf(user_order[k])'}
        BY SoldAfter
      <4>6. Holders(td, i)' = Holders(td, i)
        BY <4>1, <4>3, <4>4, <4>5
      <4>7. SoldSeats(td, i)' = SoldSeats(td, i)
        BY <1>1, <4>6, SameHolders
      <4>8. QED
        BY <4>1, <4>7
    <3>2. ASSUME NEW key, NEW order \in Order, SeatsTaken(key, order)
          PROVE  SeatsNow(td)'[i] + Cardinality(SoldSeats(td, i)') =
                   SeatsNow(td)[i] + Cardinality(SoldSeats(td, i))
      BY <1>4, <2>2, <3>2, TakenStep
    <3>3. ASSUME NEW key, NEW order \in Order, SeatsReturned(key, order)
          PROVE  SeatsNow(td)'[i] + Cardinality(SoldSeats(td, i)') =
                   SeatsNow(td)[i] + Cardinality(SoldSeats(td, i))
      BY <1>4, <2>2, <3>3, ReturnedStep
    <3>4. QED
      BY <1>1, <3>1, <3>2, <3>3, StepOnSeats
  <2>5. QED
    BY <2>1, <2>3, <2>4
<1>5. QED
  BY <1>3, <1>4

LEMMA InitSeatInv == Init => SeatInv
<1> SUFFICES ASSUME Init PROVE SeatInv
  OBVIOUS
<1>1. IInv
  BY InitIInv
<1>2. IsFiniteSet(DOMAIN user_order) /\ OrdersRide /\ SeatsConserved
  BY EmptyIndexFacts, FS_EmptySet DEF Init, OrdersRide, SeatsConserved
<1>3. QED
  BY <1>1, <1>2 DEF SeatInv

LEMMA NextSeatInv == SeatInv /\ [Next]_vars => SeatInv'
<1> SUFFICES ASSUME SeatInv, [Next]_vars PROVE SeatInv'
  OBVIOUS
<1>1. IInv'
  BY NextIInv DEF SeatInv
<1>2. IsFiniteSet(DOMAIN user_order') /\ OrdersRide'
  BY FiniteStep, RidesStep DEF SeatInv
<1>3. SeatsConserved'
  BY <1>1, <1>2, ConservedStep DEF SeatsConserved
<1>4. QED
  BY <1>1, <1>2, <1>3 DEF SeatInv

LEMMA SeatInvariance == Spec => []SeatInv
<1>1. QED
  BY InitSeatInv, NextSeatInv, PTL DEF Spec

\* Every seat of every leg is left or sold to one order, after any purchases,
\* refunds, promotions and restarts (BuyTicket, Refund, ReleaseTrain).
THEOREM SeatsAreConserved == Spec => []SeatsConserved
<1>1. SeatInv => SeatsConserved
  BY DEF SeatInv
<1>2. QED
  BY <1>1, SeatInvariance, PTL

\* No leg of any departure is ever sold to more passengers than the train has
\* seats (the seat tests of BuyTicket and of the scan in Refund).
THEOREM NeverOverbooked == Spec => []NoOverbooking
<1>1. SeatInv => NoOverbooking
  <2> SUFFICES ASSUME SeatInv, NEW td \in DOMAIN states, NEW i \in DOMAIN states[td]
               PROVE  Cardinality(SoldSeats(td, i)) <= release[td[1]].tickets_num
    BY DEF NoOverbooking
  <2>1. SeatsNow(td)[i] + Cardinality(SoldSeats(td, i)) = release[td[1]].tickets_num
    BY DEF SeatInv, SeatsConserved
  <2>2. SeatsNow(td)[i] \in Nat
    BY CountsFacts DEF SeatInv
  <2>3. Cardinality(SoldSeats(td, i)) \in Nat
    BY SoldFacts DEF SeatInv
  <2>4. QED
    BY <2>1, <2>2, <2>3
<1>2. QED
  BY <1>1, SeatInvariance, PTL

-----------------------------------------------------------------------------
\* What query_ticket shows.

\* A set of numbers that is not empty has a least one (the least seat count
\* over some legs, in QueryTicket and in BuyTicket).
LEMMA LeastNumber ==
  ASSUME NEW S, S \subseteq Nat, S # {}
  PROVE  \E n \in S : \A m \in S : n <= m
<1>1. PICK n \in S : \A m \in S : ~ (<<m, n>> \in OpToRel(<, Nat))
  BY WFMin, NatLessThanWellFounded, Zenon
<1>2. \A m \in S : ~ (m < n)
  BY <1>1 DEF OpToRel
<1>3. QED
  BY <1>2

\* The route index holds what the trains on sale say: a route for each pair of
\* stations in the order of travel, with the day of departure there.
RoutesMatch ==
  \A id \in DOMAIN release : release[id].has_released =>
    \A origin, des \in Station :
      LET start == FindStation(release[id], origin)
          forward == start # 0 /\ start < FindStation(release[id], des)
      IN /\ <<origin, des, id>> \in DOMAIN routes <=> forward
         /\ forward => routes[<<origin, des, id>>] = release[id].leave_day[start]

\* The routes of one train, as ReleaseTrain enters them.
LEMMA OpenedRoutesFacts ==
  ASSUME NEW id, NEW train \in Train, WellFormed(train),
         NEW origin \in Station, NEW des \in Station
  PROVE  LET start == FindStation(train, origin)
             forward == start # 0 /\ start < FindStation(train, des)
         IN /\ <<origin, des, id>> \in DOMAIN OpenedRoutes(id, train) <=> forward
            /\ forward => OpenedRoutes(id, train)[<<origin, des, id>>]
                            = train.leave_day[start]
<1> DEFINE Calls == DOMAIN train.stations
           start == FindStation(train, origin)
           end == FindStation(train, des)
           pairs == {p \in Calls \X Calls : p[1] < p[2]}
           keys == {<<train.stations[p[1]], train.stations[p[2]], id>> : p \in pairs}
           day(r) == train.leave_day[FindStation(train, r[1])]
<1>1. train.stations \in Seq(Station)
  BY DEF Train
<1>2. Calls \subseteq Nat \ {0}
  BY <1>1
<1>3. \A i, j \in Calls : train.stations[i] = train.stations[j] => i = j
  BY DEF WellFormed
<1>4. ASSUME NEW station, FindStation(train, station) # 0
      PROVE  /\ FindStation(train, station) \in Calls
             /\ train.stations[FindStation(train, station)] = station
  BY <1>4 DEF FindStation
<1>5. ASSUME NEW i \in Calls PROVE FindStation(train, train.stations[i]) = i
  BY <1>2, <1>3 DEF FindStation
<1>6. start \in Nat /\ end \in Nat
  BY <1>1, FindStationFacts
<1>7. <<origin, des, id>> \in keys <=> start # 0 /\ start < end
  <2>1. ASSUME start # 0, start < end PROVE <<origin, des, id>> \in keys
    <3>1. start \in Calls /\ end \in Calls
      BY <1>4, <1>6, <2>1
    <3>2. train.stations[start] = origin /\ train.stations[end] = des
      BY <1>4, <1>6, <2>1
    <3> HIDE DEF start, end
    <3>3. <<start, end>> \in pairs
      BY <2>1, <3>1
    <3>4. QED
      BY <3>2, <3>3
  <2>2. ASSUME <<origin, des, id>> \in keys PROVE start # 0 /\ start < end
    <3>1. PICK p \in pairs : <<origin, des, id>>
                               = <<train.stations[p[1]], train.stations[p[2]], id>>
      BY <2>2
    <3>2. origin = train.stations[p[1]] /\ des = train.stations[p[2]]
      BY <3>1
    <3>3. p[1] \in Calls /\ p[2] \in Calls /\ p[1] < p[2]
      OBVIOUS
    <3>4. start = p[1] /\ end = p[2]
      BY <1>5, <3>2, <3>3
    <3>5. QED
      BY <1>2, <3>3, <3>4
  <2>3. QED
    BY <2>1, <2>2
<1>8. OpenedRoutes(id, train) = [r \in keys |-> day(r)]
  BY DEF OpenedRoutes
<1>9. day(<<origin, des, id>>) = train.leave_day[start]
  OBVIOUS
<1> HIDE DEF keys, day, start, end
<1>10. QED
  BY <1>7, <1>8, <1>9 DEF start, end

LEMMA InitRoutesMatch == Init => RoutesMatch
BY EmptyIndexFacts DEF Init, RoutesMatch

LEMMA ReleaseTrainOnRoutes ==
  ASSUME IInv, RoutesMatch, NEW id \in TrainId, ReleaseTrain(id)
  PROVE  RoutesMatch'
<1>1. CASE ~(id \in DOMAIN release /\ ~release[id].has_released)
  BY <1>1 DEF ReleaseTrain, RoutesMatch
<1>2. CASE id \in DOMAIN release /\ ~release[id].has_released
  <2> DEFINE train == release[id]
             released == [train EXCEPT !.has_released = TRUE]
             lines == OpenedRoutes(id, train)
  <2>1. train \in Train /\ WellFormed(train)
    BY <1>2 DEF IInv, TypeOK, CatalogueOK, IsIndex
  <2>2. released.stations = train.stations /\ released.leave_day = train.leave_day
    BY <2>1 DEF Train
  <2>3. routes' = IndexInsertAll(routes, lines) /\ release' = IndexReplace(release, id, released)
    BY <1>2 DEF ReleaseTrain
  <2>4. \A r \in DOMAIN lines : r[3] = id
    BY <1>2, <2>1, OpenedRoutesType
  <2>5. \A r \in DOMAIN routes : r[3] # id
    BY <1>2 DEF IInv, LookupsNeverMiss
  <2> HIDE DEF released, lines
  <2>6. DOMAIN release' = DOMAIN release /\ release'[id] = released
    <3>1. DOMAIN release' = DOMAIN release \cup {id}
      BY <2>3, ReplaceFacts
    <3>2. release'[id] = released
      BY <2>3, ReplaceFacts
    <3>3. QED
      BY <1>2, <3>1, <3>2
  <2>7. \A k \in DOMAIN release \ {id} : release'[k] = release[k]
    BY <2>3, ReplaceFacts
  <2>8. DOMAIN routes' = DOMAIN routes \cup DOMAIN lines
    BY <2>3, InsertAllFacts
  <2>9. \A r \in DOMAIN routes : routes'[r] = routes[r]
    BY <2>3, InsertAllFacts
  <2>10. \A r \in DOMAIN lines \ DOMAIN routes : routes'[r] = lines[r]
    BY <2>3, InsertAllFacts
  <2>11. \A station : FindStation(released, station) = FindStation(train, station)
    BY <2>2 DEF FindStation
  <2> SUFFICES ASSUME NEW k \in DOMAIN release', release'[k].has_released,
                      NEW origin \in Station, NEW des \in Station
               PROVE  LET start == FindStation(release'[k], origin)
                          forward == start # 0 /\ start < FindStation(release'[k], des)
                      IN /\ <<origin, des, k>> \in DOMAIN routes' <=> forward
                         /\ forward => routes'[<<origin, des, k>>]
                                         = release'[k].leave_day[start]
    BY DEF RoutesMatch
  <2>12. CASE k = id
    <3> DEFINE r == <<origin, des, id>>
    <3>1. r \notin DOMAIN routes
      BY <2>5
    <3>2. LET start == FindStation(train, origin)
              forward == start # 0 /\ start < FindStation(train, des)
          IN /\ r \in DOMAIN lines <=> forward
             /\ forward => lines[r] = train.leave_day[start]
      BY <2>1, OpenedRoutesFacts DEF lines
    <3> HIDE DEF r, train
    <3>3. QED
      BY <2>2, <2>6, <2>8, <2>10, <2>11, <2>12, <3>1, <3>2 DEF r
  <2>13. CASE k # id
    <3> DEFINE r == <<origin, des, k>>
    <3>1. r \notin DOMAIN lines
      BY <2>4, <2>13
    <3>2. k \in DOMAIN release /\ release'[k] = release[k]
      BY <2>6, <2>7, <2>13
    <3>3. LET start == FindStation(release[k], origin)
              forward == start # 0 /\ start < FindStation(release[k], des)
          IN /\ r \in DOMAIN routes <=> forward
             /\ forward => routes[r] = release[k].leave_day[start]
      BY <3>2 DEF RoutesMatch
    <3> HIDE DEF r
    <3>4. QED
      BY <2>8, <2>9, <3>1, <3>2, <3>3 DEF r
  <2>14. QED
    BY <2>12, <2>13
<1>3. QED
  BY <1>1, <1>2

LEMMA NextRoutesMatch ==
  ASSUME IInv, RoutesMatch, [Next]_vars
  PROVE  RoutesMatch'
<1>1. ASSUME NEW id \in TrainId, NEW train \in TrainTotals, AddTrain(id, train)
      PROVE  RoutesMatch'
  <2>1. DOMAIN release' = DOMAIN release \cup {id}
    BY <1>1, InsertFacts DEF AddTrain
  <2>2. \A k \in DOMAIN release : release'[k] = release[k]
    BY <1>1, InsertFacts DEF AddTrain
  <2>3. id \notin DOMAIN release => release'[id] = train /\ ~train.has_released
    BY <1>1, InsertFacts, TrainTotalsAssumption DEF AddTrain
  <2>4. routes' = routes
    BY <1>1 DEF AddTrain
  <2>5. QED
    BY <2>1, <2>2, <2>3, <2>4 DEF RoutesMatch
<1>2. ASSUME NEW id \in TrainId, DeleteTrain(id) PROVE RoutesMatch'
  <2>1. routes' = routes /\ (release' = release \/ release' = IndexRemove(release, id))
    BY <1>2 DEF DeleteTrain
  <2>2. \A k \in DOMAIN release' : k \in DOMAIN release /\ release'[k] = release[k]
    <3>1. CASE release' = release
      BY <3>1
    <3>2. CASE release' = IndexRemove(release, id)
      <4>1. DOMAIN release' = DOMAIN release \ {id}
        BY <3>2, RemoveFacts
      <4>2. \A k \in DOMAIN release \ {id} : release'[k] = release[k]
        BY <3>2, RemoveFacts
      <4>3. QED
        BY <4>1, <4>2
    <3>3. QED
      BY <2>1, <3>1, <3>2
  <2>3. QED
    BY <2>1, <2>2 DEF RoutesMatch
<1>3. CASE TrainCommand
  BY <1>1, <1>2, <1>3, ReleaseTrainOnRoutes DEF TrainCommand
<1>4. CASE UNCHANGED <<release, routes>>
  BY <1>4 DEF RoutesMatch
<1>5. \/ TrainCommand
      \/ UNCHANGED <<release, routes>>
  <2>1. ASSUME UNCHANGED vars \/ SessionChange \/ Exit \/ Boot PROVE UNCHANGED <<release, routes>>
    BY <2>1 DEF vars, disk, SessionChange, Exit, Boot
  <2>2. ASSUME BuyCommand PROVE UNCHANGED <<release, routes>>
    BY <2>2 DEF BuyCommand, BuyTicket
  <2>3. ASSUME RefundCommand PROVE UNCHANGED <<release, routes>>
    BY <2>3 DEF RefundCommand, RefundRefused, RefundPending, RefundBegin, disk
  <2>4. ASSUME RefundVisit \/ RefundEnd PROVE UNCHANGED <<release, routes>>
    BY <2>4 DEF RefundVisit, RefundEnd
  <2>5. QED
    BY <2>1, <2>2, <2>3, <2>4 DEF Next
<1>6. QED
  BY <1>3, <1>4, <1>5

\* What the routes show is what the trains sell.
LEMMA ShownIsSold ==
  ASSUME IInv, RoutesMatch, pc = "idle",
         NEW origin \in Station, NEW des \in Station, NEW date \in Date
  PROVE  LET onsale == {id \in DOMAIN release :
                          LET start == FindStation(release[id], origin)
                          IN /\ start # 0
                             /\ start < FindStation(release[id], des)
                             /\ <<id, DepartureDay(id, origin, date)>> \in DOMAIN states}
         IN /\ {a.train_id : a \in QueryTicket(origin, des, date)} = onsale
            /\ \A a \in QueryTicket(origin, des, date) :
                 LET counts == states[<<a.train_id, DepartureDay(a.train_id, origin, date)>>]
                     legs == Legs(release[a.train_id], origin, des)
                 IN Fits(counts, legs, a.remain) /\ ~Fits(counts, legs, a.remain + 1)
<1> DEFINE onsale == {id \in DOMAIN release :
                        LET start == FindStation(release[id], origin)
                        IN /\ start # 0
                           /\ start < FindStation(release[id], des)
                           /\ <<id, DepartureDay(id, origin, date)>> \in DOMAIN states}
           shown == {q \in DOMAIN routes : /\ q[1] = origin
                                           /\ q[2] = des
                                           /\ <<q[3], date - routes[q]>> \in DOMAIN states}
           left(r) == {states[<<r[3], date - routes[r]>>][i] :
                         i \in Legs(release[r[3]], origin, des)}
           least(S) == CHOOSE n \in S : \A m \in S : n <= m
           answer(r) == [train_id |-> r[3], date |-> date - routes[r],
                         remain |-> least(left(r))]
<1>1. QueryTicket(origin, des, date) = {answer(r) : r \in shown}
  BY DEF QueryTicket
<1>2. ASSUME NEW r \in shown
      PROVE  /\ r = <<origin, des, r[3]>>
             /\ r[3] \in onsale
             /\ DepartureDay(r[3], origin, date) = date - routes[r]
  <2>1. r \in Station \X Station \X TrainId
    BY DEF IInv, TypeOK, IsIndex
  <2>2. r = <<origin, des, r[3]>>
    BY <2>1
  <2>3. r[3] \in DOMAIN release /\ release[r[3]].has_released
    BY DEF IInv, LookupsNeverMiss
  <2>4. PICK id \in DOMAIN release : id = r[3]
    BY <2>3
  <2>5. /\ FindStation(release[id], origin) # 0
        /\ FindStation(release[id], origin) < FindStation(release[id], des)
        /\ routes[r] = release[id].leave_day[FindStation(release[id], origin)]
    BY <2>2, <2>3, <2>4 DEF RoutesMatch
  <2>6. DepartureDay(id, origin, date) = date - routes[r]
    BY <2>5 DEF DepartureDay
  <2>7. QED
    BY <2>2, <2>4, <2>5, <2>6
<1>3. ASSUME NEW id \in onsale PROVE <<origin, des, id>> \in shown
  <2>1. <<id, DepartureDay(id, origin, date)>> \in DOMAIN states
    OBVIOUS
  <2>2. release[id].has_released
    BY <2>1 DEF IInv, LookupsNeverMiss
  <2>3. /\ <<origin, des, id>> \in DOMAIN routes
        /\ routes[<<origin, des, id>>] = release[id].leave_day[FindStation(release[id], origin)]
    BY <2>2 DEF RoutesMatch
  <2>4. DepartureDay(id, origin, date) = date - routes[<<origin, des, id>>]
    BY <2>3 DEF DepartureDay
  <2>5. QED
    BY <2>1, <2>3, <2>4
<1>4. {a.train_id : a \in QueryTicket(origin, des, date)} = onsale
  <2> HIDE DEF onsale, shown, least, left
  <2>1. \A r \in shown : answer(r).train_id \in onsale
    BY <1>2
  <2>2. \A id \in onsale : \E r \in shown : answer(r).train_id = id
    <3>1. \A id : answer(<<origin, des, id>>).train_id = id
      OBVIOUS
    <3> HIDE DEF answer
    <3>2. QED
      BY <1>3, <3>1
  <2> HIDE DEF answer
  <2>3. QED
    BY <1>1, <2>1, <2>2
<1>5. ASSUME NEW r \in shown
      PROVE  LET id == r[3]
                 counts == states[<<id, DepartureDay(id, origin, date)>>]
                 legs == Legs(release[id], origin, des)
             IN Fits(counts, legs, least(left(r))) /\ ~Fits(counts, legs, least(left(r)) + 1)
  <2> DEFINE id == r[3]
             td == <<id, date - routes[r]>>
             counts == states[td]
             legs == Legs(release[id], origin, des)
             remain == least(left(r))
  <2>1. id \in onsale /\ DepartureDay(id, origin, date) = date - routes[r]
    BY <1>2
  <2>2. td \in DOMAIN states /\ td[1] = id
    OBVIOUS
  <2>3. release[id].stations \in Seq(Station) /\ DOMAIN counts = DOMAIN release[id].stations
    BY <2>2, CountsFacts
  <2>4. legs \subseteq DOMAIN counts /\ legs # {}
    BY <2>1, <2>3, LegsFacts
  <2>5. counts \in Seq(Nat)
    BY <2>2 DEF IInv, TypeOK, IsIndex
  <2>6. left(r) = {counts[i] : i \in legs}
    OBVIOUS
  <2> HIDE DEF counts, legs, left, td, id
  <2>7. left(r) \subseteq Nat /\ left(r) # {}
    BY <2>4, <2>5, <2>6
  <2>8. remain \in left(r) /\ \A m \in left(r) : remain <= m
    BY <2>7, LeastNumber
  <2> HIDE DEF remain
  <2>9. Fits(counts, legs, remain) /\ ~Fits(counts, legs, remain + 1)
    BY <2>6, <2>7, <2>8 DEF Fits
  <2>10. QED
    BY <2>1, <2>9 DEF counts, legs, td, id, remain
<1>6. ASSUME NEW a \in QueryTicket(origin, des, date)
      PROVE  LET counts == states[<<a.train_id, DepartureDay(a.train_id, origin, date)>>]
                 legs == Legs(release[a.train_id], origin, des)
             IN Fits(counts, legs, a.remain) /\ ~Fits(counts, legs, a.remain + 1)
  <2>1. PICK r \in shown : a = answer(r)
    BY <1>1, Zenon
  <2>2. a.train_id = r[3] /\ a.remain = least(left(r))
    BY <2>1
  <2> HIDE DEF least, left, answer, shown
  <2>3. QED
    BY <1>5, <2>2
<1>7. QED
  BY <1>4, <1>6

LEMMA RoutesInvariance == Spec => [](IInv /\ RoutesMatch)
<1>1. Init => IInv /\ RoutesMatch
  BY InitIInv, InitRoutesMatch
<1>2. IInv /\ RoutesMatch /\ [Next]_vars => (IInv /\ RoutesMatch)'
  BY NextIInv, NextRoutesMatch
<1>3. QED
  BY <1>1, <1>2, PTL DEF Spec

\* query_ticket shows exactly the departures that buy_ticket accepts, with the
\* largest amount it would sell at once (QueryTicket, CompleteRoute, BuyTicket).
THEOREM ShownTicketsCanBeBought == Spec => []AdvertisedIsBuyable
<1>1. IInv /\ RoutesMatch => AdvertisedIsBuyable
  BY ShownIsSold DEF AdvertisedIsBuyable
<1>2. QED
  BY <1>1, RoutesInvariance, PTL

-----------------------------------------------------------------------------
\* The waiting queue.

\* Who waits is still kept waiting when seats are taken.
LEMMA FewerSeats ==
  ASSUME NEW counts \in Seq(Nat), NEW legs, legs \subseteq DOMAIN counts,
         NEW amount \in Nat, ~Fits(counts, legs, amount),
         NEW taken, NEW number \in Nat
  PROVE  ~Fits(TakeSeats(counts, taken, number), legs, amount)
<1>1. PICK i \in legs : ~(counts[i] >= amount)
  BY DEF Fits
<1>2. i \in DOMAIN counts /\ counts[i] \in Nat
  OBVIOUS
<1>3. TakeSeats(counts, taken, number)[i] \in {counts[i], counts[i] - number}
  BY <1>2 DEF TakeSeats
<1>4. QED
  BY <1>1, <1>2, <1>3 DEF Fits

\* A query waits for legs that its departure has.
LEMMA WaiterFacts ==
  ASSUME IInv, OrdersRide, NEW k \in DOMAIN train_query
  PROVE  LET query == train_query[k]
         IN /\ query \in Query
            /\ k = QueryKey(query)
            /\ k[3] = query.time /\ k[3] \in Nat
            /\ <<k[1], k[2]>> = Departure(query)
            /\ Departure(query) \in DOMAIN states
            /\ LegsOf(query) \subseteq DOMAIN SeatsNow(Departure(query))
            /\ SeatsNow(Departure(query)) \in Seq(Nat)
            /\ query.amount \in Nat
            /\ release[query.train_id].stations \in Seq(Station)
            /\ GetKey(query) \in DOMAIN user_order
            /\ user_order[GetKey(query)] =
                 AsOrder(query, IF k \in complete_query THEN "SUCCESS" ELSE "PENDING")
<1> DEFINE query == train_query[k]
           okey == GetKey(query)
           train == release[query.train_id]
<1>1. /\ query \in Query
      /\ k = QueryKey(query)
      /\ okey \in DOMAIN user_order
      /\ user_order[okey] =
           AsOrder(query, IF k \in complete_query THEN "SUCCESS" ELSE "PENDING")
      /\ Departure(user_order[okey]) = Departure(query)
  BY QueryOfOrder
<1>2. /\ user_order[okey].train_id = query.train_id
      /\ user_order[okey].origin = query.origin
      /\ user_order[okey].des = query.des
  BY <1>1 DEF AsOrder
<1>3. /\ FindStation(train, query.origin) # 0
      /\ FindStation(train, query.origin) < FindStation(train, query.des)
  BY <1>1, <1>2 DEF OrdersRide
<1>4. Departure(query) \in DOMAIN states /\ Departure(query)[1] = query.train_id
  BY <1>1 DEF IInv, LookupsNeverMiss, Departure
<1>5. /\ train.stations \in Seq(Station)
      /\ SeatsNow(Departure(query)) \in Seq(Nat)
      /\ DOMAIN SeatsNow(Departure(query)) = DOMAIN train.stations
  BY <1>4, CountsFacts
<1> HIDE DEF query, okey, train
<1>6. LegsOf(query) \subseteq DOMAIN SeatsNow(Departure(query))
  BY <1>3, <1>5, LegsFacts DEF LegsOf, train
<1>7. k[3] = query.time /\ k[3] \in Nat /\ query.amount \in Nat
  BY <1>1, QueryFacts
<1>8. <<k[1], k[2]>> = Departure(query)
  BY <1>1 DEF QueryKey, Departure
<1>9. QED
  BY <1>1, <1>4, <1>5, <1>6, <1>7, <1>8 DEF query, okey, train

\* A step keeps the queries it does not take out of the queue, and only
\* BuyTicket enters one.
LEMMA QueueStep ==
  ASSUME IInv, [Next]_vars, NEW k \in DOMAIN train_query'
  PROVE  \/ k \in DOMAIN train_query /\ train_query'[k] = train_query[k]
         \/ /\ k \notin DOMAIN train_query
            /\ pc = "idle" /\ pc' = "idle" /\ release' = release
            /\ \E query \in Query, queue \in BOOLEAN :
                 train_query'[k] = query /\ BuyQueued(query, queue)
<1>1. CASE train_query' = train_query
  BY <1>1
<1>2. ASSUME NEW key, train_query' = IndexRemove(train_query, key)
      PROVE  k \in DOMAIN train_query /\ train_query'[k] = train_query[k]
  <2>1. DOMAIN train_query' = DOMAIN train_query \ {key}
    BY <1>2, RemoveFacts
  <2>2. \A l \in DOMAIN train_query \ {key} : train_query'[l] = train_query[l]
    BY <1>2, RemoveFacts
  <2>3. QED
    BY <2>1, <2>2
<1>3. CASE UNCHANGED vars \/ SessionChange \/ Exit \/ Boot \/ TrainCommand \/ RefundVisit
  BY <1>1, <1>3 DEF vars, SessionChange, Exit, Boot, TrainCommand, AddTrain, DeleteTrain,
              ReleaseTrain, RefundVisit, disk
<1>4. CASE RefundCommand
  BY <1>1, <1>2, <1>4 DEF RefundCommand, RefundRefused, RefundPending, RefundBegin, disk
<1>5. CASE RefundEnd
  BY <1>5 DEF RefundEnd
<1>6. CASE BuyCommand
  <2>1. PICK uid \in Uid, id \in TrainId, origin \in Station, des \in Station,
             date \in Date, amount \in Amount, queue \in BOOLEAN :
          BuyTicket(uid, id, origin, des, date, amount, queue)
    BY <1>6 DEF BuyCommand
  <2>2. pc = "idle" /\ pc' = "idle" /\ release' = release
    BY <2>1, BuyTicketQuery
  <2>3. PICK query \in Query :
          /\ QueryKey(query) \notin DOMAIN train_query
          /\ BuyNow(query) \/ BuyQueued(query, queue) \/ BuyRefused(query, queue)
    BY <2>1, BuyTicketQuery
  <2>4. CASE BuyQueued(query, queue)
    <3>1. train_query' = IndexInsert(train_query, QueryKey(query), query)
      BY <2>4 DEF BuyQueued
    <3>2. DOMAIN train_query' = DOMAIN train_query \cup {QueryKey(query)}
      BY <3>1, InsertFacts
    <3>3. \A l \in DOMAIN train_query : train_query'[l] = train_query[l]
      BY <3>1, InsertFacts
    <3>4. train_query'[QueryKey(query)] = query
      BY <2>3, <3>1, InsertFacts
    <3>5. QED
      BY <2>2, <2>3, <2>4, <3>2, <3>3, <3>4
  <2>5. CASE BuyNow(query) \/ BuyRefused(query, queue)
    BY <1>1, <2>5 DEF BuyNow, BuyRefused
  <2>6. QED
    BY <2>3, <2>4, <2>5
<1>7. QED
  BY <1>3, <1>4, <1>5, <1>6 DEF Next

-----------------------------------------------------------------------------
\* No waiter could have its seats.
LacksSeats(query) ==
  ~Fits(SeatsNow(Departure(query)), LegsOf(query), query.amount)

\* Only a refund of a bought order can bring a waiter its seats.
LEMMA LacksSeatsStep ==
  ASSUME IInv, OrdersRide, [Next]_vars, NEW k \in DOMAIN train_query, NEW query,
         query = train_query[k], LacksSeats(query)
  PROVE  \/ LacksSeats(query)'
         \/ /\ pc = "idle" /\ pc' = "scan" /\ cursor' = 0
            /\ Departure(query) = Departure(target')
            /\ train_query' = train_query
<1> DEFINE td == Departure(query)
<1>1. /\ query \in Query /\ td \in DOMAIN states /\ query.amount \in Nat
      /\ LegsOf(query) \subseteq DOMAIN SeatsNow(td)
      /\ SeatsNow(td) \in Seq(Nat)
  BY WaiterFacts
<1>2. td[1] = query.train_id
  BY DEF Departure
<1>3. release'[query.train_id] = release[query.train_id]
  BY <1>1, <1>2, StepKeepsDepartures
<1>4. LegsOf(query)' = LegsOf(query)
  BY <1>3 DEF LegsOf
<1> HIDE DEF td
<1>5. ~Fits(SeatsNow(td), LegsOf(query), query.amount)
  BY DEF LacksSeats, td
<1>6. ASSUME SeatsNow(td)' = SeatsNow(td) PROVE LacksSeats(query)'
  BY <1>4, <1>5, <1>6 DEF LacksSeats, td
<1>7. CASE NoSeatMoves
  BY <1>1, <1>6, <1>7 DEF NoSeatMoves
<1>8. ASSUME NEW key, NEW order \in Order, SeatsTaken(key, order)
      PROVE  LacksSeats(query)'
  <2>1. CASE td = Departure(order)
    <3>1. SeatsNow(td)' = TakeSeats(SeatsNow(td), LegsOf(order), order.amount)
      BY <1>8, <2>1 DEF SeatsTaken, SeatsMove
    <3>2. order.amount \in Nat
      BY OrderFacts
    <3>3. ~Fits(TakeSeats(SeatsNow(td), LegsOf(order), order.amount), LegsOf(query), query.amount)
      BY <1>1, <1>5, <3>2, FewerSeats
    <3>4. QED
      BY <1>4, <3>1, <3>3 DEF LacksSeats, td
  <2>2. CASE td # Departure(order)
    BY <1>1, <1>6, <1>8, <2>2 DEF SeatsTaken, SeatsMove
  <2>3. QED
    BY <2>1, <2>2
<1>9. ASSUME NEW key, NEW order \in Order, SeatsReturned(key, order)
      PROVE  \/ LacksSeats(query)'
             \/ /\ pc = "idle" /\ pc' = "scan" /\ cursor' = 0
                /\ Departure(query) = Departure(target')
                /\ train_query' = train_query
  <2>1. CASE td = Departure(order)
    BY <1>9, <2>1 DEF SeatsReturned, disk, td
  <2>2. CASE td # Departure(order)
    BY <1>1, <1>6, <1>9, <2>2 DEF SeatsReturned, SeatsMove
  <2>3. QED
    BY <2>1, <2>2
<1>10. QED
  BY <1>7, <1>8, <1>9, StepOnSeats

\* What the scan does about a waiter that it had satisfied, or had still to
\* visit: it takes the first out of the queue at the end, and finds out about
\* the second before it passes it.
LEMMA ScanStep ==
  ASSUME IInv, OrdersRide, [Next]_vars, pc = "scan",
         NEW k \in DOMAIN train_query, k \in DOMAIN train_query', NEW query,
         query = train_query[k],
         k \in complete_query \/ k \in Unvisited
  PROVE  \/ k \in complete_query'
         \/ pc' = "scan" /\ Departure(query) = Departure(target') /\ k[3] >= cursor'
         \/ LacksSeats(query)'
<1>1. <<k[1], k[2]>> = Departure(query) /\ k[3] \in Nat /\ k = QueryKey(query)
  BY WaiterFacts
<1>2. k \in Unvisited <=> Departure(query) = Departure(target) /\ k[3] >= cursor
  BY <1>1 DEF Unvisited
<1>3. CASE UNCHANGED vars
  BY <1>2, <1>3 DEF vars, scan
<1>4. CASE RefundEnd
  BY <1>4 DEF RefundEnd
<1>5. CASE RefundVisit
  <2>1. PICK key \in DOMAIN train_query, visited \in Query :
          /\ train_query[key] = visited
          /\ IsNext(key)
          /\ cursor' = key[3] + 1
          /\ \/ /\ ~Fits(seats, LegsOf(visited), visited.amount)
                /\ NoSeatMoves
                /\ UNCHANGED complete_query
             \/ complete_query' = complete_query \cup {key}
    BY <1>5, RefundVisitOnSeats
  <2>2. pc' = "scan" /\ UNCHANGED <<release, states, train_query, target>>
    BY <1>5, RefundVisitOnSeats
  <2>3. CASE k \in complete_query
    BY <2>1, <2>3
  <2>4. CASE k \in Unvisited /\ k # key
    <3>1. key[3] <= k[3] /\ key \in Unvisited
      BY <2>1, <2>4 DEF IsNext
    <3>2. key = <<key[1], key[2], key[3]>> /\ k = <<k[1], k[2], k[3]>> /\ key[3] \in Nat
      BY DEF IInv, TypeOK, IsIndex
    <3>3. key[3] # k[3]
      BY <2>4, <3>1, <3>2 DEF Unvisited
    <3>4. k[3] >= cursor'
      BY <1>1, <2>1, <3>1, <3>2, <3>3
    <3>5. QED
      BY <1>2, <2>2, <2>4, <3>4
  <2>5. CASE k \in Unvisited /\ k = key
    <3>1. CASE complete_query' = complete_query \cup {key}
      BY <2>5, <3>1
    <3>2. CASE ~Fits(seats, LegsOf(visited), visited.amount) /\ NoSeatMoves
      <4>1. visited = query
        BY <2>1, <2>5
      <4>2. Departure(query) \in DOMAIN states /\ SeatsNow(Departure(query)) = seats
        BY <1>2, <2>5, WaiterFacts DEF SeatsNow
      <4>3. SeatsNow(Departure(query))' = seats
        BY <3>2, <4>2 DEF NoSeatMoves
      <4>4. QED
        BY <2>2, <3>2, <4>1, <4>3 DEF LacksSeats, LegsOf
    <3>3. QED
      BY <2>1, <3>1, <3>2
  <2>6. QED
    BY <2>3, <2>4, <2>5
<1>6. ASSUME NEW uid, NEW id, NEW origin, NEW des, NEW date, NEW amount, NEW queue,
             BuyTicket(uid, id, origin, des, date, amount, queue)
      PROVE  FALSE
  BY <1>6 DEF BuyTicket
<1>7. QED
  BY <1>3, <1>4, <1>5, <1>6
     DEF Next, SessionChange, Exit, Boot, TrainCommand, AddTrain, DeleteTrain,
         ReleaseTrain, BuyCommand, RefundCommand, RefundRefused, RefundPending, RefundBegin

LEMMA NoWaiterFitsStep ==
  ASSUME IInv, OrdersRide, NoWaiterFits, [Next]_vars, IInv', OrdersRide'
  PROVE  NoWaiterFits'
<1> SUFFICES ASSUME NEW k \in DOMAIN train_query', NEW query, query = train_query'[k]
             PROVE  \/ k \in complete_query'
                    \/ /\ pc' = "scan" /\ Departure(query) = Departure(target')
                       /\ k[3] >= cursor'
                    \/ LacksSeats(query)'
  BY DEF NoWaiterFits, LacksSeats
<1>1. CASE k \in DOMAIN train_query /\ query = train_query[k]
  <2>1. <<k[1], k[2]>> = Departure(query) /\ k[3] \in Nat
    BY <1>1, WaiterFacts
  <2>2. CASE LacksSeats(query)
    BY <1>1, <2>1, <2>2, LacksSeatsStep
  <2>3. CASE ~LacksSeats(query)
    <3>1. \/ k \in complete_query
          \/ pc = "scan" /\ Departure(query) = Departure(target) /\ k[3] >= cursor
      BY <1>1, <2>3 DEF NoWaiterFits, LacksSeats
    <3>2. pc = "scan"
      BY <3>1 DEF IInv, ScanOK
    <3>3. k \in complete_query \/ k \in Unvisited
      BY <1>1, <2>1, <3>1 DEF Unvisited
    <3>4. QED
      BY <1>1, <3>2, <3>3, ScanStep
  <2>4. QED
    BY <2>2, <2>3
<1>2. CASE k \notin DOMAIN train_query
  <2>1. PICK queued \in Query, queue \in BOOLEAN :
          /\ train_query'[k] = queued /\ BuyQueued(queued, queue)
          /\ pc = "idle" /\ pc' = "idle" /\ release' = release
    BY <1>2, QueueStep
  <2>2. queued = query /\ states' = states
    BY <2>1 DEF BuyQueued
  <2>3. LacksSeats(query)'
    BY <2>1, <2>2 DEF BuyQueued, LacksSeats, SeatsNow, LegsOf
  <2>4. QED
    BY <2>3
<1>3. QED
  BY <1>1, <1>2, QueueStep

-----------------------------------------------------------------------------
\* Nobody is overtaken.

\* What fits a longer trip of more passengers fits a shorter one of fewer.
LEMMA FitsWithin ==
  ASSUME NEW counts \in Seq(Nat), NEW long, NEW short, short \subseteq long,
         long \subseteq DOMAIN counts, NEW more \in Nat, NEW fewer \in Nat,
         fewer <= more, Fits(counts, long, more)
  PROVE  Fits(counts, short, fewer)
<1> SUFFICES ASSUME NEW i \in short PROVE counts[i] >= fewer
  BY DEF Fits
<1>1. counts[i] >= more /\ counts[i] \in Nat
  BY DEF Fits
<1>2. QED
  BY <1>1

\* The order that a step makes a bought one finds its seats, and it is either
\* a new order or the oldest waiter that the scan has still to visit.
LEMMA Bought ==
  ASSUME IInv, [Next]_vars, NEW l \in DOMAIN user_order',
         user_order'[l].status = "SUCCESS",
         ~(l \in DOMAIN user_order /\ user_order[l].status = "SUCCESS")
  PROVE  \E query \in Query :
           /\ l = GetKey(query)
           /\ user_order'[l] = AsOrder(query, "SUCCESS")
           /\ SeatsTaken(l, AsOrder(query, "SUCCESS"))
           /\ \/ pc = "idle" /\ l \notin DOMAIN user_order
              \/ /\ pc = "scan"
                 /\ Departure(query) = Departure(target)
                 /\ l \in DOMAIN user_order
                 /\ \A k \in Unvisited : k[3] >= query.time
<1>1. CASE l \notin DOMAIN user_order
  <2>1. PICK query \in Query :
          /\ pc = "idle" /\ pc' = "idle" /\ release' = release
          /\ l = GetKey(query)
          /\ \/ user_order'[l] = AsOrder(query, "SUCCESS") /\ BuyNow(query)
             \/ user_order'[l] = AsOrder(query, "PENDING")
    BY <1>1, NewOrder
  <2>2. user_order'[l] = AsOrder(query, "SUCCESS") /\ BuyNow(query)
    BY <2>1, AsOrderFacts
  <2>3. SeatsTaken(l, AsOrder(query, "SUCCESS"))
    BY <1>1, <2>1, <2>2, BuyNowOnSeats
  <2>4. QED
    BY <1>1, <2>1, <2>2, <2>3
<1>2. CASE l \in DOMAIN user_order
  <2>1. user_order[l].status # "SUCCESS" /\ user_order' # user_order
    BY <1>2
  <2>2. ASSUME NEW key \in DOMAIN user_order,
               user_order' = SetStatus(key, user_order[key], "REFUNDED")
        PROVE  FALSE
    <3>1. /\ user_order'[key] = [user_order[key] EXCEPT !.status = "REFUNDED"]
          /\ \A k \in DOMAIN user_order \ {key} : user_order'[k] = user_order[k]
      BY <2>2, SetStatusKeeps
    <3>2. user_order'[key].status = "REFUNDED"
      BY <3>1, StatusFacts DEF IInv, TypeOK, IsIndex
    <3>3. QED
      BY <1>2, <2>1, <3>1, <3>2
  <2>3. CASE UNCHANGED vars \/ SessionChange \/ Exit \/ Boot \/ TrainCommand
    BY <2>1, <2>3 DEF vars, SessionChange, Exit, Boot, TrainCommand, AddTrain, DeleteTrain,
                ReleaseTrain, disk
  <2>4. CASE RefundCommand
    BY <2>1, <2>2, <2>4 DEF RefundCommand, RefundRefused, RefundPending, RefundBegin, disk
  <2>5. CASE RefundEnd
    BY <2>2, <2>5 DEF RefundEnd, IInv, ScanOK
  <2>6. CASE BuyCommand
    <3>1. ASSUME NEW key, NEW order, user_order' = IndexInsert(user_order, key, order)
          PROVE  FALSE
      <4>1. \A k \in DOMAIN user_order : user_order'[k] = user_order[k]
        BY <3>1, InsertFacts
      <4>2. QED
        BY <1>2, <2>1, <4>1
    <3>2. QED
      BY <2>1, <2>6, <3>1 DEF BuyCommand, BuyTicket, BuyNow, BuyQueued, BuyRefused
  <2>7. CASE RefundVisit
    <3>1. PICK key \in DOMAIN train_query, query \in Query :
            /\ train_query[key] = query
            /\ IsNext(key)
            /\ Departure(query) = Departure(target)
            /\ \/ UNCHANGED user_order
               \/ /\ \A k \in DOMAIN user_order \ {GetKey(query)} :
                       user_order'[k] = user_order[k]
                  /\ SeatsTaken(GetKey(query), AsOrder(query, "SUCCESS"))
      BY <2>7, RefundVisitOnSeats
    <3>2. l = GetKey(query) /\ SeatsTaken(l, AsOrder(query, "SUCCESS"))
      BY <1>2, <2>1, <3>1
    <3>3. user_order'[l] = AsOrder(query, "SUCCESS")
      BY <3>2 DEF SeatsTaken
    <3>4. key[3] = query.time
      BY <3>1, QueryOfOrder, QueryFacts
    <3>5. \A k \in Unvisited : k[3] >= query.time
      <4>1. \A k \in Unvisited : key[3] <= k[3] /\ k[3] \in Nat
        BY <3>1 DEF IsNext, Unvisited, IInv, TypeOK, IsIndex
      <4>2. query.time \in Nat
        BY QueryFacts
      <4>3. QED
        BY <3>4, <4>1, <4>2
    <3>6. QED
      BY <1>2, <2>7, <3>1, <3>2, <3>3, <3>5 DEF RefundVisit
  <2>8. QED
    BY <2>3, <2>4, <2>5, <2>6, <2>7 DEF Next
<1>3. QED
  BY <1>1, <1>2

LEMMA NoOvertakingStep ==
  ASSUME IInv, OrdersRide, NoWaiterFits, NoOvertaking, [Next]_vars, IInv', OrdersRide'
  PROVE  NoOvertaking'
<1> SUFFICES ASSUME NEW k \in DOMAIN user_order', NEW l \in DOMAIN user_order',
                    user_order'[k].status = "PENDING",
                    Departure(user_order'[k]) = Departure(user_order'[l]),
                    user_order'[k].time < user_order'[l].time,
                    LegsOf(user_order[k])' \subseteq LegsOf(user_order[l])',
                    user_order'[k].amount <= user_order'[l].amount,
                    user_order'[l].status = "SUCCESS"
             PROVE  FALSE
  BY DEF NoOvertaking
<1>1. /\ user_order'[l] \in Order /\ user_order'[k] \in Order
      /\ user_order'[l].time \in Nat /\ user_order'[k].time \in Nat
      /\ user_order'[l].amount \in Nat /\ user_order'[k].amount \in Nat
  BY OrderFacts DEF IInv, TypeOK, IsIndex
<1>2. /\ k[2] = user_order'[k].time /\ l[2] = user_order'[l].time
      /\ k = GetKey(user_order'[k]) /\ l = GetKey(user_order'[l])
  BY <1>1, OrderFacts DEF IInv, OrderNumbersUnique
<1>3. k \in DOMAIN user_order
  <2> SUFFICES ASSUME k \notin DOMAIN user_order PROVE FALSE
    OBVIOUS
  <2>1. /\ pc = "idle" /\ k[2] = order_time + 1
        /\ DOMAIN user_order' = DOMAIN user_order \cup {k}
    BY NewOrder, QueryFacts
  <2>2. l \in DOMAIN user_order
    BY <1>1, <1>2, <2>1
  <2>3. l[2] \in 1 .. order_time /\ order_time \in Nat
    BY <2>1, <2>2 DEF IInv, OrderNumbersUnique, IssuedTime, TypeOK
  <2>4. QED
    BY <1>1, <1>2, <2>1, <2>3
<1>4. user_order[k].status = "PENDING" /\ user_order'[k] = user_order[k]
  BY <1>3, StepMovesForward DEF Moves
<1>5. /\ Departure(user_order[k]) \in DOMAIN states
      /\ LegsOf(user_order[k])' = LegsOf(user_order[k])
      /\ user_order[k] \in Order
      /\ release'[user_order[k].train_id] = release[user_order[k].train_id]
  BY <1>3, OrderKept
<1>6. ~(l \in DOMAIN user_order /\ user_order[l].status = "SUCCESS")
  <2> SUFFICES ASSUME l \in DOMAIN user_order, user_order[l].status = "SUCCESS"
               PROVE  FALSE
    OBVIOUS
  <2>1. /\ Departure(user_order'[l]) = Departure(user_order[l])
        /\ user_order'[l].time = user_order[l].time
        /\ user_order'[l].amount = user_order[l].amount
        /\ LegsOf(user_order[l])' = LegsOf(user_order[l])
    BY OrderKept
  <2>2. QED
    BY <1>3, <1>4, <1>5, <2>1 DEF NoOvertaking
<1>7. PICK query \in Query :
        /\ l = GetKey(query)
        /\ user_order'[l] = AsOrder(query, "SUCCESS")
        /\ SeatsTaken(l, AsOrder(query, "SUCCESS"))
        /\ \/ pc = "idle"
           \/ /\ pc = "scan"
              /\ Departure(query) = Departure(target)
              /\ \A j \in Unvisited : j[3] >= query.time
  BY <1>6, Bought
<1> DEFINE late == AsOrder(query, "SUCCESS")
           early == user_order[k]
           td == Departure(early)
           qkey == QueryKey(early)
<1>8. late.time = query.time /\ Departure(late) = Departure(query) /\ late.amount = query.amount
  BY AsOrderFacts DEF AsOrder
<1>9. /\ qkey \in DOMAIN train_query /\ GetKey(train_query[qkey]) = k
  BY <1>3, <1>4 DEF Waiting, IInv, QueueMatchesOrders
<1>10. /\ train_query[qkey] \in Query
       /\ qkey \notin complete_query
       /\ early = AsOrder(train_query[qkey], "PENDING")
       /\ qkey[3] = train_query[qkey].time
       /\ Departure(train_query[qkey]) = td
       /\ LegsOf(train_query[qkey]) = LegsOf(early)
       /\ train_query[qkey].amount = early.amount
       /\ train_query[qkey].time = early.time
  <2>1. /\ train_query[qkey] \in Query
        /\ user_order[k] = AsOrder(train_query[qkey],
                             IF qkey \in complete_query THEN "SUCCESS" ELSE "PENDING")
        /\ user_order[k].status = IF qkey \in complete_query THEN "SUCCESS" ELSE "PENDING"
        /\ qkey = QueryKey(train_query[qkey])
    BY <1>9, QueryOfOrder
  <2>2. qkey \notin complete_query
    BY <1>4, <2>1
  <2>3. early = AsOrder(train_query[qkey], "PENDING")
    BY <2>1, <2>2
  <2>4. qkey[3] = train_query[qkey].time
    BY <2>1, QueryFacts
  <2> HIDE DEF early, qkey
  <2>5. QED
    BY <2>1, <2>2, <2>3, <2>4 DEF AsOrder, Departure, LegsOf, td
<1> HIDE DEF late, early, td, qkey
<1>11. td = Departure(late)
  BY <1>4, <1>7 DEF late, td, early
<1>12. ~(pc = "scan" /\ Departure(train_query[qkey]) = Departure(target) /\ qkey[3] >= cursor)
  <2> SUFFICES ASSUME pc = "scan", Departure(train_query[qkey]) = Departure(target),
                      qkey[3] >= cursor
               PROVE  FALSE
    OBVIOUS
  <2>1. <<qkey[1], qkey[2]>> = Departure(train_query[qkey])
    BY <1>9, WaiterFacts
  <2>2. qkey \in Unvisited
    BY <1>9, <2>1 DEF Unvisited
  <2>3. qkey[3] >= query.time
    BY <1>7, <2>2
  <2>4. qkey[3] = user_order'[k].time /\ query.time = user_order'[l].time
    BY <1>4, <1>7, <1>8, <1>10 DEF early, late
  <2>5. QED
    BY <1>1, <2>3, <2>4
<1>13. ~Fits(SeatsNow(td), LegsOf(early), early.amount)
  BY <1>9, <1>10, <1>12 DEF NoWaiterFits
<1>14. Fits(SeatsNow(td), LegsOf(late), late.amount)
  BY <1>7, <1>11 DEF SeatsTaken, late
<1>15. LegsOf(early) \subseteq LegsOf(late)
  <2>1. LegsOf(user_order[l])' = LegsOf(late)
    <3>1. release' = release
      BY <1>7 DEF SeatsTaken
    <3>2. QED
      BY <1>7, <3>1 DEF LegsOf, late
  <2>2. QED
    BY <1>5, <2>1 DEF early
<1>16. SeatsNow(td) \in Seq(Nat) /\ LegsOf(late) \subseteq DOMAIN SeatsNow(td)
  <2>1. /\ td \in DOMAIN states /\ td[1] = late.train_id
        /\ release' = release
    BY <1>5, <1>7, <1>11 DEF td, early, Departure, SeatsTaken
  <2>2. /\ FindStation(release[late.train_id], late.origin) # 0
        /\ FindStation(release[late.train_id], late.origin)
             < FindStation(release[late.train_id], late.des)
    BY <1>7, <2>1 DEF OrdersRide, late
  <2>3. /\ SeatsNow(td) \in Seq(Nat)
        /\ release[late.train_id].stations \in Seq(Station)
        /\ DOMAIN SeatsNow(td) = DOMAIN release[late.train_id].stations
    BY <2>1, CountsFacts
  <2>4. LegsOf(late) \subseteq DOMAIN release[late.train_id].stations
    BY <2>2, <2>3, LegsFacts DEF LegsOf
  <2>5. QED
    BY <2>3, <2>4
<1>17. early.amount <= late.amount /\ early.amount \in Nat /\ late.amount \in Nat
  BY <1>1, <1>4, <1>7 DEF early, late
<1>18. QED
  BY <1>13, <1>14, <1>15, <1>16, <1>17, FitsWithin

\* The inductive invariant: that no waiter fits is what keeps a later order
\* from being bought before it, at the counter and in the scan.
QueueInv == SeatInv /\ NoWaiterFits /\ NoOvertaking

LEMMA InitQueueInv == Init => QueueInv
<1> SUFFICES ASSUME Init PROVE QueueInv
  OBVIOUS
<1>1. SeatInv
  BY InitSeatInv
<1>2. NoWaiterFits /\ NoOvertaking
  BY EmptyIndexFacts DEF Init, NoWaiterFits, NoOvertaking
<1>3. QED
  BY <1>1, <1>2 DEF QueueInv

LEMMA NextQueueInv == QueueInv /\ [Next]_vars => QueueInv'
<1> SUFFICES ASSUME QueueInv, [Next]_vars PROVE QueueInv'
  OBVIOUS
<1>1. SeatInv'
  BY NextSeatInv DEF QueueInv
<1>2. IInv /\ OrdersRide /\ IInv' /\ OrdersRide'
  BY <1>1 DEF QueueInv, SeatInv
<1>3. NoWaiterFits'
  BY <1>2, NoWaiterFitsStep DEF QueueInv
<1>4. NoOvertaking'
  BY <1>2, NoOvertakingStep DEF QueueInv
<1>5. QED
  BY <1>1, <1>3, <1>4 DEF QueueInv

LEMMA QueueInvariance == Spec => []QueueInv
<1>1. QED
  BY InitQueueInv, NextQueueInv, PTL DEF Spec

\* Seats that come back reach whoever could use them: between two commands no
\* waiting order could be satisfied with the seats that are left (the scan of
\* Refund, the seat test of BuyTicket).
THEOREM NobodyWaitsInVain == Spec => []NoWaiterFits
<1>1. QueueInv => NoWaiterFits
  BY DEF QueueInv
<1>2. QED
  BY <1>1, QueueInvariance, PTL

\* First come, first served: no order is bought, at the counter or by
\* promotion, while an earlier one that needs no more of the same departure
\* still waits (the order of the scan of Refund).
THEOREM FirstComeFirstServed == Spec => []NoOvertaking
<1>1. QueueInv => NoOvertaking
  BY DEF QueueInv
<1>2. QED
  BY <1>1, QueueInvariance, PTL

-----------------------------------------------------------------------------
\* The scan of Refund ends.

\* The queue is no longer than the list of orders.
LEMMA QueueFinite ==
  ASSUME SeatInv
  PROVE  IsFiniteSet(DOMAIN train_query)
<1>1. PICK ticket : ticket = [k \in DOMAIN train_query |-> GetKey(train_query[k])]
  OBVIOUS
<1>2. ASSUME NEW k \in DOMAIN train_query
      PROVE  LET order == user_order[ticket[k]]
             IN /\ ticket[k] \in DOMAIN user_order
                /\ k = <<order.train_id, order.date, order.time>>
  <2>1. /\ k = QueryKey(train_query[k])
        /\ ticket[k] \in DOMAIN user_order
        /\ user_order[ticket[k]] =
             AsOrder(train_query[k], IF k \in complete_query THEN "SUCCESS" ELSE "PENDING")
    BY <1>1 DEF SeatInv, IInv, QueueMatchesOrders
  <2>2. QED
    BY <2>1 DEF QueryKey, AsOrder
<1>3. ticket \in [DOMAIN train_query -> DOMAIN user_order]
  BY <1>1, <1>2
<1>4. \A k, l \in DOMAIN train_query : ticket[k] = ticket[l] => k = l
  BY <1>2
<1>5. ticket \in Injection(DOMAIN train_query, DOMAIN user_order)
  BY <1>3, <1>4 DEF Injection, IsInjective
<1>6. QED
  BY <1>5, FS_Injection DEF SeatInv

\* As long as there are queries to visit, one of them is the next (the
\* iterator of Refund has somewhere to go).
ScanGoesOn == pc = "scan" /\ Unvisited # {} => \E key \in DOMAIN train_query : IsNext(key)

\* Every step of a refund_ticket leaves fewer queries to visit, or is its last;
\* no other command has a turn in between.
ScanShortens ==
  pc = "scan" =>
    \/ pc' = "idle"
    \/ pc' = "scan" /\ Cardinality(Unvisited') < Cardinality(Unvisited)

LEMMA NextIsThere == SeatInv => ScanGoesOn
<1> SUFFICES ASSUME SeatInv, Unvisited # {}
             PROVE  \E key \in DOMAIN train_query : IsNext(key)
  BY DEF ScanGoesOn
<1>1. Unvisited \subseteq DOMAIN train_query
  BY DEF Unvisited
<1>2. \A k \in DOMAIN train_query : k[3] \in Nat
  BY WaiterFacts DEF SeatInv
<1>3. {k[3] : k \in Unvisited} \subseteq Nat /\ {k[3] : k \in Unvisited} # {}
  BY <1>1, <1>2
<1>4. PICK n \in {k[3] : k \in Unvisited} : \A m \in {k[3] : k \in Unvisited} : n <= m
  BY <1>3, LeastNumber
<1>5. PICK key \in Unvisited : key[3] = n
  BY <1>4
<1>6. \A k \in Unvisited : key[3] <= k[3]
  BY <1>4, <1>5
<1>7. QED
  BY <1>1, <1>5, <1>6 DEF IsNext

LEMMA VisitShortens ==
  ASSUME SeatInv, RefundVisit
  PROVE  pc' = "scan" /\ Cardinality(Unvisited') < Cardinality(Unvisited)
<1>1. PICK key \in DOMAIN train_query : IsNext(key) /\ cursor' = key[3] + 1
  BY DEF RefundVisit
<1>2. pc' = "scan" /\ UNCHANGED <<train_query, target>>
  BY DEF RefundVisit
<1>3. key \in Unvisited /\ \A k \in Unvisited : key[3] <= k[3]
  BY <1>1 DEF IsNext
<1>4. \A k \in DOMAIN train_query : k[3] \in Nat
  BY WaiterFacts DEF SeatInv
<1>5. cursor \in Nat
  BY DEF SeatInv, IInv, TypeOK
<1>6. Unvisited' = {k \in DOMAIN train_query :
                      <<k[1], k[2]>> = Departure(target) /\ k[3] >= key[3] + 1}
  BY <1>1, <1>2 DEF Unvisited, Departure
<1>7. Unvisited' \subseteq Unvisited \ {key}
  <2> SUFFICES ASSUME NEW k \in Unvisited' PROVE k \in Unvisited \ {key}
    OBVIOUS
  <2>1. /\ k \in DOMAIN train_query
        /\ <<k[1], k[2]>> = Departure(target) /\ k[3] >= key[3] + 1
    BY <1>6
  <2>2. key[3] >= cursor /\ key[3] \in Nat /\ k[3] \in Nat
    BY <1>1, <1>3, <1>4, <2>1 DEF Unvisited
  <2>3. k[3] >= cursor /\ k # key
    BY <1>5, <2>1, <2>2
  <2>4. QED
    BY <2>1, <2>3 DEF Unvisited
<1>8. IsFiniteSet(Unvisited)
  BY QueueFinite, FS_Subset DEF Unvisited
<1>9. /\ IsFiniteSet(Unvisited \ {key})
      /\ Cardinality(Unvisited \ {key}) = Cardinality(Unvisited) - 1
  BY <1>3, <1>8, FS_RemoveElement
<1>10. IsFiniteSet(Unvisited') /\ Cardinality(Unvisited') <= Cardinality(Unvisited \ {key})
  BY <1>7, <1>9, FS_Subset
<1>11. Cardinality(Unvisited) \in Nat /\ Cardinality(Unvisited') \in Nat
  BY <1>8, <1>10, FS_CardinalityType
<1>12. QED
  BY <1>2, <1>9, <1>10, <1>11

\* A refund_ticket does not get stuck: it has a next query to visit until it
\* has visited all (Refund).
THEOREM ScanHasANext == Spec => []ScanGoesOn
<1>1. QED
  BY NextIsThere, SeatInvariance, PTL

\* And it does not go on for ever: each visit leaves fewer (Refund).  What
\* remains of RefundAnswers is that the program takes its steps.
THEOREM ScanEnds == Spec => [][ScanShortens]_vars
<1>1. SeatInv /\ [Next]_vars => [ScanShortens]_vars
  <2> SUFFICES ASSUME SeatInv, Next, pc = "scan"
               PROVE  \/ pc' = "idle"
                      \/ pc' = "scan" /\ Cardinality(Unvisited') < Cardinality(Unvisited)
    BY DEF ScanShortens
  <2>1. RefundVisit \/ RefundEnd
    BY DEF Next, SessionChange, Exit, Boot, TrainCommand, AddTrain, DeleteTrain,
           ReleaseTrain, BuyCommand, BuyTicket, RefundCommand, RefundRefused,
           RefundPending, RefundBegin
  <2>2. CASE RefundVisit
    BY <2>2, VisitShortens
  <2>3. CASE RefundEnd
    BY <2>3 DEF RefundEnd
  <2>4. QED
    BY <2>1, <2>2, <2>3
<1>2. QED
  BY <1>1, SeatInvariance, PTL DEF Spec

-----------------------------------------------------------------------------
\* The ledger's orders.

\* The order that has a number, when no two have the same.
LEMMA ByNumber ==
  ASSUME NEW orders, \A k, l \in DOMAIN orders : k[2] = l[2] => k = l,
         NEW k \in DOMAIN orders
  PROVE  orders[CHOOSE l \in DOMAIN orders : l[2] = k[2]] = orders[k]
OBVIOUS

\* The ledger has one order for each stored order, under its number.
LEMMA LedgerFacts ==
  ASSUME IInv
  PROVE  /\ DOMAIN LedgerOrders = {k[2] : k \in DOMAIN user_order}
         /\ \A k \in DOMAIN user_order : LedgerOrders[k[2]] = LedgerOrder(user_order[k])
         /\ \A k \in DOMAIN user_order :
              /\ k[2] = user_order[k].time /\ k[2] \in Nat
              /\ QueryKey(user_order[k])[3] = k[2]
         /\ \A k, l \in DOMAIN user_order : k[2] = l[2] => k = l
<1>1. \A k, l \in DOMAIN user_order : k[2] = l[2] => k = l
  BY DEF IInv, OrderNumbersUnique
<1>2. DOMAIN LedgerOrders = {k[2] : k \in DOMAIN user_order}
  BY DEF LedgerOrders
<1>3. \A k \in DOMAIN user_order : OrderOf(k[2]) = user_order[k]
  BY <1>1, ByNumber DEF OrderOf
<1>4. \A k \in DOMAIN user_order : LedgerOrders[k[2]] = LedgerOrder(user_order[k])
  BY <1>3 DEF LedgerOrders
<1>5. ASSUME NEW k \in DOMAIN user_order
      PROVE  /\ k[2] = user_order[k].time /\ k[2] \in Nat
             /\ QueryKey(user_order[k])[3] = k[2]
  <2>1. user_order[k] \in Order /\ k = GetKey(user_order[k])
    BY DEF IInv, TypeOK, IsIndex, OrderNumbersUnique
  <2>2. QED
    BY <2>1, OrderFacts
<1>6. QED
  BY <1>1, <1>2, <1>4, <1>5

\* The same after a step.
LEMMA LedgerAfter ==
  ASSUME IInv'
  PROVE  /\ DOMAIN LedgerOrders' = {k[2] : k \in DOMAIN user_order'}
         /\ \A k \in DOMAIN user_order' :
              LedgerOrders'[k[2]] =
                [uid |-> user_order'[k].uid, departure |-> Departure(user_order'[k]),
                 legs |-> LegsOf(user_order[k])', amount |-> user_order'[k].amount,
                 status |-> IF QueryKey(user_order'[k]) \in complete_query'
                            THEN "PENDING" ELSE user_order'[k].status]
         /\ \A k \in DOMAIN user_order' : k[2] = user_order'[k].time
<1>1. \A k, l \in DOMAIN user_order' : k[2] = l[2] => k = l
  BY DEF IInv, OrderNumbersUnique
<1>2. \A k \in DOMAIN user_order' :
        user_order'[CHOOSE l \in DOMAIN user_order' : l[2] = k[2]] = user_order'[k]
  BY <1>1, ByNumber
<1>3. LedgerOrders' =
        [n \in {k[2] : k \in DOMAIN user_order'} |->
           LET order == user_order'[CHOOSE l \in DOMAIN user_order' : l[2] = n]
           IN [uid |-> order.uid, departure |-> Departure(order),
               legs |-> Legs(release'[order.train_id], order.origin, order.des),
               amount |-> order.amount,
               status |-> IF QueryKey(order) \in complete_query'
                          THEN "PENDING" ELSE order.status]]
  BY DEF LedgerOrders, LedgerOrder, OrderOf, LegsOf, Legs, FindStation, Departure, QueryKey
<1>4. ASSUME NEW k \in DOMAIN user_order'
      PROVE  LedgerOrders'[k[2]] =
                [uid |-> user_order'[k].uid, departure |-> Departure(user_order'[k]),
                 legs |-> LegsOf(user_order[k])', amount |-> user_order'[k].amount,
                 status |-> IF QueryKey(user_order'[k]) \in complete_query'
                            THEN "PENDING" ELSE user_order'[k].status]
  <2>1. LegsOf(user_order[k])' = Legs(release'[user_order'[k].train_id],
                                      user_order'[k].origin, user_order'[k].des)
    BY DEF LegsOf
  <2>2. QED
    BY <1>2, <1>3, <2>1
<1>5. ASSUME NEW k \in DOMAIN user_order' PROVE k[2] = user_order'[k].time
  <2>1. user_order'[k] \in Order /\ k = GetKey(user_order'[k])
    BY DEF IInv, TypeOK, IsIndex, OrderNumbersUnique
  <2>2. QED
    BY <2>1, OrderFacts
<1>6. QED
  BY <1>3, <1>4, <1>5

\* What a stored order is in the ledger, before and after a step: only its
\* status may change.
LEMMA LedgerKept ==
  ASSUME IInv, IInv', [Next]_vars, NEW k \in DOMAIN user_order
  PROVE  /\ k[2] \in DOMAIN LedgerOrders'
         /\ LedgerOrders[k[2]] = LedgerOrder(user_order[k])
         /\ LedgerOrders'[k[2]] =
              [LedgerOrders[k[2]] EXCEPT !.status =
                 IF QueryKey(user_order[k]) \in complete_query'
                 THEN "PENDING" ELSE user_order'[k].status]
<1> DEFINE order == user_order[k]
           new == user_order'[k]
           status == IF QueryKey(order) \in complete_query' THEN "PENDING" ELSE new.status
<1>1. /\ k \in DOMAIN user_order'
      /\ order \in Order
      /\ new.train_id = order.train_id
      /\ new.time = order.time
      /\ new.amount = order.amount
      /\ Departure(new) = Departure(order)
      /\ LegsOf(user_order[k])' = LegsOf(order)
  BY OrderKept
<1>2. new.uid = order.uid
  <2>1. k = GetKey(order)
    BY DEF IInv, OrderNumbersUnique
  <2>2. k = GetKey(new)
    BY <1>1 DEF IInv, OrderNumbersUnique
  <2>3. QED
    BY <2>1, <2>2 DEF GetKey
<1>3. QueryKey(new) = QueryKey(order)
  BY <1>1 DEF QueryKey, Departure
<1>4. LedgerOrders[k[2]] = LedgerOrder(order)
  BY LedgerFacts
<1>5. k[2] \in DOMAIN LedgerOrders'
  BY <1>1, LedgerAfter
<1>6. LedgerOrders'[k[2]] =
        [uid |-> new.uid, departure |-> Departure(new), legs |-> LegsOf(user_order[k])',
         amount |-> new.amount,
         status |-> IF QueryKey(new) \in complete_query' THEN "PENDING" ELSE new.status]
  BY <1>1, LedgerAfter
<1>7. LedgerOrders'[k[2]] =
        [uid |-> order.uid, departure |-> Departure(order), legs |-> LegsOf(order),
         amount |-> order.amount, status |-> status]
  BY <1>1, <1>2, <1>3, <1>6
<1> HIDE DEF order, new, status
<1>8. LedgerOrders'[k[2]] = [LedgerOrder(order) EXCEPT !.status = status]
  BY <1>7 DEF LedgerOrder
<1>9. QED
  BY <1>4, <1>5, <1>8 DEF order, new, status

\* A step that changes no status changes nothing in the ledger's orders.
LEMMA SameLedger ==
  ASSUME IInv, IInv', [Next]_vars, DOMAIN user_order' = DOMAIN user_order,
         \A k \in DOMAIN user_order :
           LedgerOrder(user_order[k]).status =
             IF QueryKey(user_order[k]) \in complete_query'
             THEN "PENDING" ELSE user_order'[k].status
  PROVE  LedgerOrders' = LedgerOrders
<1>1. DOMAIN LedgerOrders' = DOMAIN LedgerOrders
  BY LedgerFacts, LedgerAfter
<1>2. ASSUME NEW k \in DOMAIN user_order PROVE LedgerOrders'[k[2]] = LedgerOrders[k[2]]
  <2> DEFINE status == LedgerOrder(user_order[k]).status
  <2>1. /\ LedgerOrders[k[2]] = LedgerOrder(user_order[k])
        /\ LedgerOrders'[k[2]] = [LedgerOrder(user_order[k]) EXCEPT !.status = status]
    BY LedgerKept
  <2>2. [LedgerOrder(user_order[k]) EXCEPT !.status = status] = LedgerOrder(user_order[k])
    BY DEF LedgerOrder
  <2>3. QED
    BY <2>1, <2>2
<1>3. \A n \in DOMAIN LedgerOrders : LedgerOrders'[n] = LedgerOrders[n]
  BY <1>2, LedgerFacts
<1>4. QED
  BY <1>1, <1>3 DEF LedgerOrders

\* Departures keep their capacity.
LEMMA CapacityKept ==
  ASSUME IInv, [Next]_vars
  PROVE  /\ DOMAIN CapacityNow \subseteq DOMAIN CapacityNow'
         /\ \A td \in DOMAIN CapacityNow : CapacityNow'[td] = CapacityNow[td]
         /\ DOMAIN states' = DOMAIN states => CapacityNow' = CapacityNow
<1>1. \A td \in DOMAIN states : td \in DOMAIN states' /\ release'[td[1]] = release[td[1]]
  BY StepKeepsDepartures
<1>2. CapacityNow' = [td \in DOMAIN states' |-> release'[td[1]].tickets_num]
  BY DEF CapacityNow
<1>3. QED
  BY <1>1, <1>2 DEF CapacityNow

-----------------------------------------------------------------------------
\* Seats.

\* The ledger counts as this module does.
LEMMA LedgerCounts ==
  ASSUME NEW S
  PROVE  Ledger!Cardinality(S) = Cardinality(S)
BY DEF Ledger!Cardinality, Cardinality

\* Holders may be counted by the numbers of their orders.
LEMMA Renumber ==
  ASSUME NEW holders, NEW amount, NEW other, IsFiniteSet(SeatsOf(holders, amount)),
         \A k \in holders : other[k[2]] = amount[k],
         \A k, l \in holders : k[2] = l[2] => k = l
  PROVE  Cardinality(SeatsOf({k[2] : k \in holders}, other)) =
           Cardinality(SeatsOf(holders, amount))
<1> DEFINE S == SeatsOf(holders, amount)
           T == SeatsOf({k[2] : k \in holders}, other)
           f == [seat \in S |-> <<seat[1][2], seat[2]>>]
<1>1. \A seat : seat \in S <=> \E k \in holders : seat \in {k} \X (1 .. amount[k])
  BY DEF SeatsOf
<1>2. \A seat : seat \in T <=> \E k \in holders : seat \in {k[2]} \X (1 .. other[k[2]])
  BY DEF SeatsOf
<1> HIDE DEF S, T
<1>3. f \in [S -> T]
  BY <1>1, <1>2
<1>4. \A a, b \in S : f[a] = f[b] => a = b
  BY <1>1
<1>5. \A t \in T : \E s \in S : f[s] = t
  <2> TAKE t \in T
  <2>1. PICK k \in holders : t \in {k[2]} \X (1 .. amount[k])
    BY <1>2
  <2>2. <<k, t[2]>> \in S
    BY <1>1, <2>1
  <2>3. f[<<k, t[2]>>] = t
    BY <2>1, <2>2
  <2>4. QED
    BY <2>2, <2>3
<1> HIDE DEF f
<1>6. f \in Bijection(S, T)
  BY <1>3, <1>4, <1>5, Fun_IsBij
<1>7. QED
  BY <1>6, FS_Bijection DEF ExistsBijection, S, T

\* The numbers of the orders that hold seats of a departure.
HeldNumbers(td) == {k[2] : k \in {l \in Held : Departure(user_order[l]) = td}}

\* The seats left are what the holders leave.
LEMMA LoadIsSold ==
  ASSUME SeatInv, NEW td, NEW i
  PROVE  Ledger!Load(HeldNumbers(td), i) = Cardinality(SoldSeats(td, i))
<1> DEFINE holders == Holders(td, i)
           numbers == {m \in HeldNumbers(td) : i \in LedgerOrders[m].legs}
           other == [n \in DOMAIN LedgerOrders |-> LedgerOrders[n].amount]
<1>1. IInv /\ IsFiniteSet(DOMAIN user_order)
  BY DEF SeatInv
<1>2. /\ holders = {k \in Held : Departure(user_order[k]) = td
                                 /\ i \in LegsOf(user_order[k])}
      /\ IsFiniteSet(holders)
      /\ SoldSeats(td, i) = SeatsOf(holders, Amounts)
      /\ \A k \in DOMAIN user_order : Amounts[k] = user_order[k].amount /\ Amounts[k] \in Nat
  BY <1>1, SoldFacts
<1>3. Held \subseteq DOMAIN user_order
  BY DEF Held
<1>4. \A k \in DOMAIN user_order :
        /\ k[2] \in DOMAIN LedgerOrders
        /\ LedgerOrders[k[2]].legs = LegsOf(user_order[k])
        /\ LedgerOrders[k[2]].amount = user_order[k].amount
  <2> SUFFICES ASSUME NEW k \in DOMAIN user_order
               PROVE  /\ k[2] \in DOMAIN LedgerOrders
                      /\ LedgerOrders[k[2]].legs = LegsOf(user_order[k])
                      /\ LedgerOrders[k[2]].amount = user_order[k].amount
    OBVIOUS
  <2>1. k[2] \in DOMAIN LedgerOrders /\ LedgerOrders[k[2]] = LedgerOrder(user_order[k])
    BY <1>1, LedgerFacts
  <2>2. QED
    BY <2>1 DEF LedgerOrder
<1>5. \A k, l \in DOMAIN user_order : k[2] = l[2] => k = l
  BY <1>1, LedgerFacts
<1> HIDE DEF holders
<1>6. numbers = {k[2] : k \in holders}
  BY <1>2, <1>3, <1>4 DEF HeldNumbers
<1>7. \A k \in holders : k \in DOMAIN user_order
  BY <1>2, <1>3
<1>8. \A k \in holders : other[k[2]] = Amounts[k]
  BY <1>2, <1>4, <1>7
<1>9. IsFiniteSet(SeatsOf(holders, Amounts))
  BY <1>2, <1>7, SeatsOfFinite
<1> HIDE DEF numbers
<1>10. \A n \in numbers : n \in DOMAIN LedgerOrders
  BY <1>4, <1>6, <1>7
<1> HIDE DEF other
<1>11. Cardinality(SeatsOf({k[2] : k \in holders}, other)) = Cardinality(SeatsOf(holders, Amounts))
  BY <1>5, <1>7, <1>8, <1>9, Renumber
<1>12. SeatsOf(numbers, other) = UNION {{n} \X (1 .. LedgerOrders[n].amount) : n \in numbers}
  BY <1>10 DEF SeatsOf, other
<1>13. Ledger!Load(HeldNumbers(td), i) = Cardinality(SeatsOf(numbers, other))
  BY <1>12, LedgerCounts DEF Ledger!Load, numbers
<1>14. QED
  BY <1>2, <1>6, <1>11, <1>13

\* The seat test of BuyTicket and of the scan is the ledger's.
LEMMA FitsAsInTheLedger ==
  ASSUME SeatInv, NEW td \in DOMAIN states, NEW legs, legs \subseteq DOMAIN states[td],
         NEW amount \in Nat
  PROVE  Fits(SeatsNow(td), legs, amount)
           <=> Ledger!FitsBeside(HeldNumbers(td), td, legs, amount)
<1>1. ASSUME NEW i \in legs
      PROVE  SeatsNow(td)[i] >= amount
               <=> Ledger!Load(HeldNumbers(td), i) + amount <= CapacityNow[td]
  <2>1. SeatsNow(td)[i] + Cardinality(SoldSeats(td, i)) = release[td[1]].tickets_num
    BY DEF SeatInv, SeatsConserved
  <2>2. CapacityNow[td] = release[td[1]].tickets_num
    BY DEF CapacityNow
  <2>3. SeatsNow(td)[i] \in Nat
    BY CountsFacts DEF SeatInv
  <2>4. Cardinality(SoldSeats(td, i)) \in Nat
    BY SoldFacts DEF SeatInv
  <2>5. Ledger!Load(HeldNumbers(td), i) = Cardinality(SoldSeats(td, i))
    BY LoadIsSold
  <2>6. QED
    BY <2>1, <2>2, <2>3, <2>4, <2>5
<1>2. QED
  BY <1>1 DEF Fits, Ledger!FitsBeside

\* The same test again after a step that leaves the ledger alone.
LEMMA SameTest ==
  ASSUME LedgerOrders' = LedgerOrders, CapacityNow' = CapacityNow,
         NEW held, NEW td, NEW legs, NEW amount
  PROVE  Ledger!FitsBeside(held, td, legs, amount)' = Ledger!FitsBeside(held, td, legs, amount)
BY DEF Ledger!FitsBeside, Ledger!Load

-----------------------------------------------------------------------------
\* What the scan has decided.

\* The orders whose seats the scan of Refund found taken when it began, and
\* the waiters numbered below n that it has promoted since.
Others == Ledger!InState(Departure(target), "SUCCESS") \ {target.time}
PromotedBelow(n) == {k[3] : k \in {c \in complete_query : c[3] < n}}

\* The scan has promoted, of the waiters that it has passed, exactly those that
\* fit beside the other bought orders and the waiters it promoted before.
ScanDecides ==
  pc = "scan" =>
    /\ QueryKey(target) \notin DOMAIN train_query
    /\ \A k \in complete_query : Departure(train_query[k]) = Departure(target)
    /\ \A k \in DOMAIN train_query :
         LET query == train_query[k]
         IN Departure(query) = Departure(target) /\ k[3] < cursor =>
              (k \in complete_query
                 <=> Ledger!FitsBeside(Others \cup PromotedBelow(k[3]), Departure(target),
                                       LegsOf(query), query.amount))

\* The state of an order in the ledger.
LEMMA StateInLedger ==
  ASSUME IInv, NEW k \in DOMAIN user_order, NEW td, NEW status
  PROVE  k[2] \in Ledger!InState(td, status)
           <=> /\ Departure(user_order[k]) = td
               /\ status = IF QueryKey(user_order[k]) \in complete_query
                           THEN "PENDING" ELSE user_order[k].status
<1>1. k[2] \in DOMAIN LedgerOrders /\ LedgerOrders[k[2]] = LedgerOrder(user_order[k])
  BY LedgerFacts
<1>2. /\ LedgerOrder(user_order[k]).departure = Departure(user_order[k])
      /\ LedgerOrder(user_order[k]).status = IF QueryKey(user_order[k]) \in complete_query
                                             THEN "PENDING" ELSE user_order[k].status
  BY DEF LedgerOrder
<1>3. QED
  BY <1>1, <1>2 DEF Ledger!InState

\* Between two commands the bought orders are those that hold seats.
LEMMA HeldWhenIdle ==
  ASSUME IInv, pc = "idle", NEW td
  PROVE  HeldNumbers(td) = Ledger!InState(td, "SUCCESS")
<1>1. complete_query = {}
  BY DEF IInv, ScanOK
<1>2. \A k \in DOMAIN user_order :
        k[2] \in Ledger!InState(td, "SUCCESS")
          <=> Departure(user_order[k]) = td /\ user_order[k].status = "SUCCESS"
  BY <1>1, StateInLedger
<1>3. Held = {k \in DOMAIN user_order : user_order[k].status = "SUCCESS"}
  BY DEF Held
<1>4. Ledger!InState(td, "SUCCESS") \subseteq {k[2] : k \in DOMAIN user_order}
  BY LedgerFacts DEF Ledger!InState
<1>5. QED
  BY <1>2, <1>3, <1>4 DEF HeldNumbers

\* During a scan they are the others and those the scan has promoted.
LEMMA HeldInScan ==
  ASSUME IInv, ScanDecides, pc = "scan"
  PROVE  HeldNumbers(Departure(target)) = Others \cup {k[3] : k \in complete_query}
<1> DEFINE td == Departure(target)
           promoted == {k[3] : k \in complete_query}
<1>1. GetKey(target) \in DOMAIN user_order /\ GetKey(target)[2] = target.time
  BY OrderFacts DEF IInv, ScanOK, TypeOK
<1>2. ASSUME NEW k \in Held, Departure(user_order[k]) = td
      PROVE  k[2] \in Others \cup promoted
  <2>1. k \in DOMAIN user_order /\ user_order[k].status = "SUCCESS" /\ k # GetKey(target)
    BY <1>2 DEF Held
  <2>2. CASE QueryKey(user_order[k]) \in complete_query
    <3>1. QueryKey(user_order[k])[3] = k[2]
      BY <2>1, LedgerFacts
    <3>2. QED
      BY <2>2, <3>1
  <2>3. CASE QueryKey(user_order[k]) \notin complete_query
    <3>1. k[2] \in Ledger!InState(td, "SUCCESS")
      BY <1>2, <2>1, <2>3, StateInLedger
    <3>2. k[2] # target.time
      BY <1>1, <2>1, LedgerFacts
    <3>3. QED
      BY <3>1, <3>2 DEF Others
  <2>4. QED
    BY <2>2, <2>3
<1>3. ASSUME NEW n \in Others PROVE n \in HeldNumbers(td)
  <2>1. n \in Ledger!InState(td, "SUCCESS") /\ n # target.time
    BY <1>3 DEF Others
  <2>2. PICK k \in DOMAIN user_order : n = k[2]
    BY <2>1, LedgerFacts DEF Ledger!InState
  <2>3. Departure(user_order[k]) = td /\ user_order[k].status = "SUCCESS"
    BY <2>1, <2>2, StateInLedger
  <2>4. k # GetKey(target)
    BY <1>1, <2>1, <2>2
  <2>5. QED
    BY <2>2, <2>3, <2>4 DEF HeldNumbers, Held
<1>4. ASSUME NEW c \in complete_query PROVE c[3] \in HeldNumbers(td)
  <2>1. c \in DOMAIN train_query
    BY DEF IInv, TypeOK
  <2>2. PICK query \in Query :
          /\ query = train_query[c]
          /\ c = QueryKey(query)
          /\ GetKey(query) \in DOMAIN user_order
          /\ user_order[GetKey(query)].status = "SUCCESS"
          /\ QueryKey(user_order[GetKey(query)]) = c
          /\ Departure(user_order[GetKey(query)]) = Departure(query)
    BY <2>1, QueryOfOrder
  <2>3. Departure(query) = td
    BY <2>2 DEF ScanDecides
  <2>4. GetKey(query)[2] = c[3]
    BY <2>2, QueryFacts
  <2>5. GetKey(query) # GetKey(target)
    <3>1. user_order[GetKey(target)] = target
      BY DEF IInv, ScanOK
    <3>2. QueryKey(target) \notin DOMAIN train_query
      BY DEF ScanDecides
    <3>3. QED
      BY <2>1, <2>2, <3>1, <3>2
  <2>6. QED
    BY <2>2, <2>3, <2>4, <2>5 DEF HeldNumbers, Held
<1>5. \A n \in HeldNumbers(td) : n \in Others \cup promoted
  BY <1>2 DEF HeldNumbers
<1>6. QED
  BY <1>3, <1>4, <1>5

\* An iteration of the scan promotes nobody in the ledger.
LEMMA VisitInLedger ==
  ASSUME IInv, IInv', RefundVisit
  PROVE  LedgerOrders' = LedgerOrders /\ CapacityNow' = CapacityNow
<1>1. [Next]_vars /\ states' = states /\ release' = release
  BY RefundVisitOnSeats DEF Next
<1>2. PICK key \in DOMAIN train_query, query \in Query :
        /\ train_query[key] = query
        /\ \/ UNCHANGED <<complete_query, user_order>>
           \/ /\ complete_query' = complete_query \cup {key}
              /\ GetKey(query) \in DOMAIN user_order
              /\ user_order[GetKey(query)] = AsOrder(query, "PENDING")
              /\ DOMAIN user_order' = DOMAIN user_order
              /\ \A k \in DOMAIN user_order \ {GetKey(query)} : user_order'[k] = user_order[k]
  BY RefundVisitOnSeats
<1> DEFINE okey == GetKey(query)
<1>3. DOMAIN user_order' = DOMAIN user_order
  BY <1>2
<1>4. ASSUME NEW k \in DOMAIN user_order
      PROVE  LedgerOrder(user_order[k]).status =
               IF QueryKey(user_order[k]) \in complete_query'
               THEN "PENDING" ELSE user_order'[k].status
  <2>1. LedgerOrder(user_order[k]).status =
          IF QueryKey(user_order[k]) \in complete_query THEN "PENDING" ELSE user_order[k].status
    BY DEF LedgerOrder
  <2>2. CASE UNCHANGED <<complete_query, user_order>>
    BY <2>1, <2>2
  <2>3. CASE ~UNCHANGED <<complete_query, user_order>>
    <3>1. /\ complete_query' = complete_query \cup {key}
          /\ okey \in DOMAIN user_order
          /\ user_order[okey] = AsOrder(query, "PENDING")
          /\ \A l \in DOMAIN user_order \ {okey} : user_order'[l] = user_order[l]
      BY <1>2, <2>3
    <3>2. QueryKey(user_order[okey]) = key /\ user_order[okey].status = "PENDING"
      BY <1>2, <3>1, QueryOfOrder, AsOrderFacts
    <3>3. CASE k = okey
      BY <2>1, <3>1, <3>2, <3>3
    <3>4. CASE k # okey
      <4>1. QueryKey(user_order[k])[3] = k[2] /\ QueryKey(user_order[okey])[3] = okey[2]
        BY <3>1, LedgerFacts
      <4>2. QueryKey(user_order[k]) # key
        BY <3>1, <3>2, <3>4, <4>1, LedgerFacts
      <4>3. QED
        BY <2>1, <3>1, <3>4, <4>2
    <3>5. QED
      BY <3>3, <3>4
  <2>4. QED
    BY <2>2, <2>3
<1>5. LedgerOrders' = LedgerOrders
  BY <1>1, <1>3, <1>4, SameLedger
<1>6. CapacityNow' = CapacityNow
  BY <1>1 DEF CapacityNow
<1>7. QED
  BY <1>5, <1>6

\* The test of the scan is the ledger's, with the others and those promoted so
\* far.
LEMMA VisitDecides ==
  ASSUME SeatInv, ScanDecides, pc = "scan", NEW key \in DOMAIN train_query,
         NEW query, query = train_query[key], Departure(query) = Departure(target)
  PROVE  Fits(seats, LegsOf(query), query.amount)
           <=> Ledger!FitsBeside(Others \cup {k[3] : k \in complete_query},
                                 Departure(target), LegsOf(query), query.amount)
<1>1. IInv /\ OrdersRide
  BY DEF SeatInv
<1>2. /\ Departure(query) \in DOMAIN states
      /\ LegsOf(query) \subseteq DOMAIN SeatsNow(Departure(query))
      /\ query.amount \in Nat
  BY <1>1, WaiterFacts
<1>3. DOMAIN SeatsNow(Departure(query)) = DOMAIN states[Departure(query)]
  BY <1>1, <1>2, CountsFacts
<1>4. SeatsNow(Departure(query)) = seats
  BY DEF SeatsNow
<1>5. Fits(seats, LegsOf(query), query.amount)
        <=> Ledger!FitsBeside(HeldNumbers(Departure(query)), Departure(query),
                              LegsOf(query), query.amount)
  BY <1>2, <1>3, <1>4, FitsAsInTheLedger
<1>6. QED
  BY <1>1, <1>5, HeldInScan

LEMMA ScanDecidesVisit ==
  ASSUME SeatInv, IInv', ScanDecides, RefundVisit
  PROVE  ScanDecides'
<1>1. IInv /\ OrdersRide
  BY DEF SeatInv
<1>2. /\ pc = "scan" /\ pc' = "scan"
      /\ UNCHANGED <<release, states, train_query, target>>
  BY <1>1, RefundVisitOnSeats
<1>3. LedgerOrders' = LedgerOrders /\ CapacityNow' = CapacityNow
  BY <1>1, VisitInLedger
<1>4. PICK key \in DOMAIN train_query, visited \in Query :
        /\ train_query[key] = visited
        /\ IsNext(key)
        /\ key \notin complete_query
        /\ cursor' = key[3] + 1
        /\ Departure(visited) = Departure(target)
        /\ \/ /\ ~Fits(seats, LegsOf(visited), visited.amount)
              /\ complete_query' = complete_query
           \/ /\ Fits(seats, LegsOf(visited), visited.amount)
              /\ complete_query' = complete_query \cup {key}
  <2>1. PICK key \in DOMAIN train_query, visited \in Query :
        /\ train_query[key] = visited
        /\ IsNext(key)
        /\ key \notin complete_query
        /\ cursor' = key[3] + 1
        /\ Departure(visited) = Departure(target)
        /\ \/ /\ ~Fits(seats, LegsOf(visited), visited.amount)
              /\ complete_query' = complete_query
           \/ /\ complete_query' = complete_query \cup {key}
              /\ SeatsTaken(GetKey(visited), AsOrder(visited, "SUCCESS"))
    BY <1>1, RefundVisitOnSeats
  <2>2. SeatsTaken(GetKey(visited), AsOrder(visited, "SUCCESS"))
          => Fits(seats, LegsOf(visited), visited.amount)
    BY <1>2, <2>1 DEF SeatsTaken, SeatsNow, AsOrder, LegsOf, Departure
  <2>3. QED
    BY <2>1, <2>2
<1>5. key[3] \in Nat /\ cursor \in Nat /\ key[3] >= cursor
  BY <1>1, <1>4, WaiterFacts DEF IsNext, Unvisited, IInv, TypeOK
<1>6. Others' = Others
  BY <1>2, <1>3 DEF Others, Ledger!InState
<1>7. \A c \in complete_query : c[3] < cursor
  BY <1>1, <1>2 DEF IInv, ScanOK
<1>8. QueryKey(target') \notin DOMAIN train_query'
  BY <1>2 DEF ScanDecides
<1>9. \A k \in complete_query' : Departure(train_query'[k]) = Departure(target')
  BY <1>2, <1>4 DEF ScanDecides
<1>10. ASSUME NEW k \in DOMAIN train_query, NEW query, query = train_query[k],
              Departure(query) = Departure(target), k[3] < cursor'
       PROVE  k \in complete_query'
                <=> Ledger!FitsBeside(Others \cup PromotedBelow(k[3]), Departure(target),
                                      LegsOf(query), query.amount)'
  <2> DEFINE legs == LegsOf(query)
  <2>1. k[3] \in Nat /\ <<k[1], k[2]>> = Departure(target) /\ k = QueryKey(query)
    BY <1>1, <1>10, WaiterFacts
  <2>2. LegsOf(query)' = legs
    BY <1>2 DEF LegsOf
  <2>3. PICK below : below = PromotedBelow(k[3])'
    OBVIOUS
  <2>4. PICK held, td : held = Others \cup below /\ td = Departure(target)
    OBVIOUS
  <2>5. PICK trip : trip = legs
    OBVIOUS
  <2>6. Ledger!FitsBeside(Others \cup PromotedBelow(k[3]), Departure(target), legs, query.amount)'
          <=> Ledger!FitsBeside(held, td, trip, query.amount)'
    BY <1>2, <1>6, <2>2, <2>3, <2>4, <2>5
  <2>7. Ledger!FitsBeside(held, td, trip, query.amount)'
          = Ledger!FitsBeside(held, td, trip, query.amount)
    BY <1>3, SameTest
  <2>8. CASE k[3] < cursor
    <3>1. below = PromotedBelow(k[3])
      BY <1>4, <1>5, <2>1, <2>3, <2>8 DEF PromotedBelow
    <3>2. k \in complete_query' <=> k \in complete_query
      BY <1>4, <1>5, <2>1, <2>8
    <3>3. k \in complete_query
            <=> Ledger!FitsBeside(Others \cup PromotedBelow(k[3]), Departure(target),
                                  legs, query.amount)
      BY <1>2, <1>10, <2>8 DEF ScanDecides
    <3>4. QED
      BY <2>4, <2>5, <2>6, <2>7, <3>1, <3>2, <3>3
  <2>9. CASE ~(k[3] < cursor)
    <3>1. k \in Unvisited
      BY <1>5, <2>1, <2>9 DEF Unvisited
    <3>2. k[3] = key[3]
      BY <1>4, <1>5, <1>10, <2>1, <3>1 DEF IsNext
    <3>3. k = key
      <4>1. key = QueryKey(visited)
        BY <1>1, <1>4, WaiterFacts
      <4>2. QED
        BY <1>4, <1>10, <2>1, <3>2, <4>1 DEF QueryKey, Departure
    <3>4. below = {c[3] : c \in complete_query}
      <4>1. \A c \in complete_query : c[3] \in Nat
        BY <1>1 DEF IInv, TypeOK, IsIndex
      <4>2. \A c \in complete_query : c[3] < k[3]
        BY <1>5, <1>7, <3>3, <4>1
      <4>3. {c \in complete_query' : c[3] < k[3]} = complete_query
        BY <1>4, <2>1, <3>3, <4>2
      <4>4. QED
        BY <2>3, <4>3 DEF PromotedBelow
    <3>5. Fits(seats, legs, query.amount)
            <=> Ledger!FitsBeside(Others \cup below, Departure(target), legs, query.amount)
      BY <1>2, <1>10, <3>4, VisitDecides
    <3>6. k \in complete_query' <=> Fits(seats, legs, query.amount)
      BY <1>4, <1>10, <3>3
    <3>7. QED
      BY <2>4, <2>5, <2>6, <2>7, <3>5, <3>6
  <2>10. QED
    BY <2>8, <2>9
<1>11. QED
  BY <1>2, <1>8, <1>9, <1>10 DEF ScanDecides

LEMMA ScanDecidesBegin ==
  ASSUME IInv, NEW uid, NEW rank, RefundBegin(uid, rank)
  PROVE  ScanDecides'
<1>1. PICK key \in DOMAIN user_order :
        user_order[key].status = "SUCCESS" /\ target' = user_order[key]
  BY DEF RefundBegin
<1>2. /\ complete_query = {}
      /\ cursor' = 0 /\ complete_query' = {} /\ train_query' = train_query
  BY DEF RefundBegin, disk, IInv, ScanOK
<1>3. ASSUME QueryKey(user_order[key]) \in DOMAIN train_query PROVE FALSE
  <2>1. PICK k \in DOMAIN train_query, okey \in DOMAIN user_order :
          /\ k = QueryKey(user_order[key])
          /\ user_order[okey].status = "PENDING"
          /\ QueryKey(user_order[okey]) = k
    BY <1>2, <1>3, QueryOfOrder
  <2>2. k[3] = key[2] /\ k[3] = okey[2]
    BY <1>1, <2>1, LedgerFacts
  <2>3. okey = key
    BY <1>1, <2>1, <2>2, LedgerFacts
  <2>4. QED
    BY <1>1, <2>1, <2>3
<1>4. QueryKey(target)' \notin DOMAIN train_query'
  BY <1>1, <1>2, <1>3 DEF QueryKey
<1>5. \A k \in DOMAIN train_query' : ~(k[3] < cursor')
  BY <1>2 DEF IInv, TypeOK, IsIndex
<1>6. QED
  BY <1>2, <1>4, <1>5 DEF ScanDecides

LEMMA ScanDecidesStep ==
  ASSUME SeatInv, IInv', ScanDecides, [Next]_vars
  PROVE  ScanDecides'
<1>1. CASE UNCHANGED vars
  <2>1. LedgerOrders' = LedgerOrders /\ CapacityNow' = CapacityNow
    BY <1>1 DEF vars, disk, scan, LedgerOrders, LedgerOrder, OrderOf, LegsOf, CapacityNow
  <2>2. /\ UNCHANGED <<pc, target, cursor, complete_query, train_query, release>>
        /\ Others' = Others
    BY <1>1, <2>1 DEF vars, disk, scan, Others, Ledger!InState
  <2>3. ASSUME pc = "scan", NEW k \in DOMAIN train_query, NEW query, query = train_query[k],
               Departure(query) = Departure(target), k[3] < cursor
        PROVE  k \in complete_query
                 <=> Ledger!FitsBeside(Others \cup PromotedBelow(k[3]), Departure(target),
                                       LegsOf(query), query.amount)'
    <3>1. PICK held, td, legs : /\ held = Others \cup PromotedBelow(k[3])
                                /\ td = Departure(target)
                                /\ legs = LegsOf(query)
      OBVIOUS
    <3>2. PromotedBelow(k[3])' = PromotedBelow(k[3]) /\ LegsOf(query)' = LegsOf(query)
      BY <2>2 DEF PromotedBelow, LegsOf
    <3>3. Ledger!FitsBeside(held, td, legs, query.amount)'
            = Ledger!FitsBeside(held, td, legs, query.amount)
      BY <2>1, SameTest
    <3>4. k \in complete_query <=> Ledger!FitsBeside(held, td, legs, query.amount)
      BY <2>3, <3>1 DEF ScanDecides
    <3>5. QED
      BY <2>2, <3>1, <3>2, <3>3, <3>4
  <2>4. QED
    BY <2>2, <2>3 DEF ScanDecides
<1>2. CASE RefundVisit
  BY <1>2, ScanDecidesVisit
<1>3. ASSUME NEW uid, NEW rank, RefundBegin(uid, rank) PROVE ScanDecides'
  BY <1>3, ScanDecidesBegin DEF SeatInv
<1>4. ASSUME pc' # "scan" PROVE ScanDecides'
  BY <1>4 DEF ScanDecides
<1>5. CASE SessionChange \/ Exit \/ Boot \/ TrainCommand \/ RefundEnd
  BY <1>4, <1>5 DEF SessionChange, Exit, Boot, TrainCommand, AddTrain, DeleteTrain,
              ReleaseTrain, RefundEnd
<1>6. CASE BuyCommand
  BY <1>4, <1>6, BuyTicketQuery DEF BuyCommand, SeatInv
<1>7. CASE RefundCommand
  BY <1>3, <1>4, <1>7 DEF RefundCommand, RefundRefused, RefundPending
<1>8. QED
  BY <1>1, <1>2, <1>5, <1>6, <1>7 DEF Next

\* The invariant behind the refinement: the seats that the counts leave, and
\* what the scan has decided with them, in the ledger's terms.
LedgerInv == SeatInv /\ ScanDecides

LEMMA LedgerInvariance == Spec => []LedgerInv
<1>1. Init => LedgerInv
  BY InitSeatInv DEF Init, ScanDecides, LedgerInv
<1>2. LedgerInv /\ [Next]_vars => LedgerInv'
  <2> SUFFICES ASSUME LedgerInv, [Next]_vars PROVE LedgerInv'
    OBVIOUS
  <2>1. SeatInv'
    BY NextSeatInv DEF LedgerInv
  <2>2. QED
    BY <2>1, ScanDecidesStep DEF LedgerInv, SeatInv
<1>3. QED
  BY <1>1, <1>2, PTL DEF Spec

-----------------------------------------------------------------------------
\* Every step is a step of the ledger.
LEMMA InitOfLedger == Init => Ledger!Init
<1> SUFFICES ASSUME Init PROVE Ledger!Init
  OBVIOUS
<1>1. DOMAIN user_order = {} /\ DOMAIN states = {} /\ reply = <<"start", "0">>
  BY EmptyIndexFacts DEF Init
<1>2. LedgerOrders = [n \in {} |-> {}] /\ CapacityNow = [d \in {} |-> {}]
  BY <1>1 DEF LedgerOrders, CapacityNow
<1>3. QED
  BY <1>1, <1>2 DEF Ledger!Init

\* A step that leaves the orders, the departures and the scan alone.
LEMMA NothingChanges ==
  ASSUME IInv, IInv', [Next]_vars, user_order' = user_order,
         complete_query' = complete_query, DOMAIN states' = DOMAIN states
  PROVE  LedgerOrders' = LedgerOrders /\ CapacityNow' = CapacityNow
<1>1. LedgerOrders' = LedgerOrders
  BY SameLedger DEF LedgerOrder
<1>2. QED
  BY <1>1, CapacityKept

\* The steps that the ledger does not see.
LEMMA QuietOnLedger ==
  ASSUME IInv, IInv', [Next]_vars,
         \/ UNCHANGED vars \/ SessionChange \/ RefundVisit
         \/ \E uid \in Uid, rank \in 1 .. MaxOrders : RefundBegin(uid, rank)
  PROVE  UNCHANGED <<LedgerOrders, CapacityNow, reply>>
<1>1. CASE RefundVisit
  BY <1>1, VisitInLedger DEF RefundVisit
<1>2. CASE UNCHANGED vars \/ SessionChange
  <2>1. UNCHANGED <<user_order, complete_query, states, reply>>
    BY <1>2 DEF vars, disk, scan, SessionChange
  <2>2. QED
    BY <2>1, NothingChanges
<1>3. ASSUME NEW uid, NEW rank, RefundBegin(uid, rank)
      PROVE  UNCHANGED <<LedgerOrders, CapacityNow, reply>>
  <2>1. UNCHANGED <<user_order, complete_query, states, reply>>
    BY <1>3 DEF disk, RefundBegin, IInv, ScanOK
  <2>2. QED
    BY <2>1, NothingChanges
<1>4. QED
  BY <1>1, <1>2, <1>3

LEMMA NoEffectOnLedger ==
  ASSUME IInv, IInv', [Next]_vars,
         \/ Exit \/ Boot
         \/ \E id \in TrainId : DeleteTrain(id) \/ \E train \in TrainTotals : AddTrain(id, train)
         \/ \E uid \in Uid, rank \in 1 .. MaxOrders : RefundRefused(uid, rank)
  PROVE  Ledger!NoEffect
<1>1. UNCHANGED <<user_order, complete_query, states>>
  BY DEF Exit, Boot, DeleteTrain, AddTrain, RefundRefused, disk, scan
<1>2. LedgerOrders' = LedgerOrders /\ CapacityNow' = CapacityNow
  BY <1>1, NothingChanges
<1>3. reply'[1] \in {"add_train", "delete_train", "exit", "start"}
        \/ reply' = <<"refund_ticket", "-1">>
  BY DEF Exit, Boot, DeleteTrain, AddTrain, RefundRefused
<1>4. QED
  BY <1>2, <1>3 DEF Ledger!NoEffect

LEMMA ReleaseOnLedger ==
  ASSUME IInv, IInv', [Next]_vars, NEW id \in TrainId, ReleaseTrain(id)
  PROVE  Ledger!Open \/ Ledger!NoEffect
<1>1. UNCHANGED <<user_order, complete_query>>
  BY DEF ReleaseTrain, scan
<1>2. LedgerOrders' = LedgerOrders
  BY <1>1, SameLedger DEF LedgerOrder
<1>3. CASE reply' = <<"release_train", "0">>
  BY <1>2, <1>3, CapacityKept DEF Ledger!Open
<1>4. CASE reply' # <<"release_train", "0">>
  <2>1. states' = states /\ reply' = <<"release_train", "-1">>
    BY <1>4 DEF ReleaseTrain
  <2>2. QED
    BY <1>2, <2>1, CapacityKept DEF Ledger!NoEffect
<1>5. QED
  BY <1>3, <1>4

\* A new order under a number above all others.
LEMMA NewInLedger ==
  ASSUME IInv, IInv', [Next]_vars, pc = "idle", UNCHANGED <<release, scan>>,
         DOMAIN states' = DOMAIN states,
         NEW query \in Query, query.time = order_time + 1,
         GetKey(query) \notin DOMAIN user_order, NEW status \in {"SUCCESS", "PENDING"},
         user_order' = IndexInsert(user_order, GetKey(query), AsOrder(query, status))
  PROVE  /\ query.time \in DOMAIN LedgerOrders' \ DOMAIN LedgerOrders
         /\ DOMAIN LedgerOrders' = DOMAIN LedgerOrders \cup {query.time}
         /\ \A m \in DOMAIN LedgerOrders :
              m < query.time /\ LedgerOrders'[m] = LedgerOrders[m]
         /\ LedgerOrders'[query.time] =
              [uid |-> query.uid, departure |-> Departure(query), legs |-> LegsOf(query),
               amount |-> query.amount, status |-> status]
         /\ CapacityNow' = CapacityNow
<1> DEFINE key == GetKey(query)
           n == query.time
<1>1. DOMAIN user_order' = DOMAIN user_order \cup {key}
  BY InsertFacts
<1>2. \A k \in DOMAIN user_order : user_order'[k] = user_order[k]
  BY InsertFacts
<1>3. user_order'[key] = AsOrder(query, status)
  BY InsertFacts
<1>4. key[2] = n /\ n \in Nat
  BY QueryFacts
<1>5. complete_query = {} /\ complete_query' = {}
  BY DEF IInv, ScanOK, scan
<1>6. \A k \in DOMAIN user_order : k[2] < n
  BY DEF IInv, OrderNumbersUnique, IssuedTime, TypeOK
<1> HIDE DEF key, n
<1>7. DOMAIN LedgerOrders' = DOMAIN LedgerOrders \cup {n}
  BY <1>1, <1>4, LedgerFacts, LedgerAfter
<1>8. \A m \in DOMAIN LedgerOrders : m < n
  BY <1>6, LedgerFacts
<1>9. n \notin DOMAIN LedgerOrders
  BY <1>4, <1>8
<1>10. ASSUME NEW k \in DOMAIN user_order PROVE LedgerOrders'[k[2]] = LedgerOrders[k[2]]
  <2>1. /\ LedgerOrders[k[2]] = LedgerOrder(user_order[k])
        /\ LedgerOrders'[k[2]] =
             [LedgerOrders[k[2]] EXCEPT !.status =
                IF QueryKey(user_order[k]) \in complete_query'
                THEN "PENDING" ELSE user_order'[k].status]
    BY LedgerKept
  <2>2. LedgerOrders'[k[2]] =
          [LedgerOrder(user_order[k]) EXCEPT !.status = user_order[k].status]
    BY <1>2, <1>5, <2>1
  <2>3. [LedgerOrder(user_order[k]) EXCEPT !.status = user_order[k].status]
          = LedgerOrder(user_order[k])
    BY <1>5 DEF LedgerOrder
  <2>4. QED
    BY <2>1, <2>2, <2>3
<1>11. \A m \in DOMAIN LedgerOrders : LedgerOrders'[m] = LedgerOrders[m]
  BY <1>10, LedgerFacts
<1>12. LegsOf(user_order[key])' = LegsOf(query)
  BY <1>3 DEF LegsOf, AsOrder
<1>13. LedgerOrders'[key[2]] =
         [uid |-> user_order'[key].uid, departure |-> Departure(user_order'[key]),
          legs |-> LegsOf(user_order[key])', amount |-> user_order'[key].amount,
          status |-> IF QueryKey(user_order'[key]) \in complete_query'
                     THEN "PENDING" ELSE user_order'[key].status]
  BY <1>1, LedgerAfter
<1>14. LedgerOrders'[n] =
         [uid |-> query.uid, departure |-> Departure(query), legs |-> LegsOf(query),
          amount |-> query.amount, status |-> status]
  BY <1>3, <1>4, <1>5, <1>12, <1>13 DEF AsOrder, Departure
<1>15. CapacityNow' = CapacityNow
  BY CapacityKept
<1>16. QED
  BY <1>7, <1>8, <1>9, <1>11, <1>14, <1>15 DEF n

\* The seat test of BuyTicket.
LEMMA BookableInLedger ==
  ASSUME SeatInv, pc = "idle", NEW query \in Query, Bookable(query)
  PROVE  /\ Departure(query) \in DOMAIN CapacityNow
         /\ CapacityNow[Departure(query)] = release[query.train_id].tickets_num
         /\ LegsOf(query) # {}
         /\ Fits(states[Departure(query)], LegsOf(query), query.amount)
              <=> Ledger!FitsBeside(Ledger!InState(Departure(query), "SUCCESS"),
                                    Departure(query), LegsOf(query), query.amount)
<1> DEFINE td == Departure(query)
           train == release[query.train_id]
<1>1. /\ td \in DOMAIN states /\ td[1] = query.train_id
      /\ FindStation(train, query.origin) # 0
      /\ FindStation(train, query.origin) < FindStation(train, query.des)
  BY DEF Bookable, Departure
<1>2. train.stations \in Seq(Station) /\ DOMAIN states[td] = DOMAIN train.stations
  BY <1>1, CountsFacts DEF SeatInv
<1>3. query.amount \in Nat
  BY QueryFacts
<1> HIDE DEF td, train
<1>4. LegsOf(query) \subseteq DOMAIN states[td] /\ LegsOf(query) # {}
  BY <1>1, <1>2, LegsFacts DEF LegsOf, train
<1>5. Fits(SeatsNow(td), LegsOf(query), query.amount)
        <=> Ledger!FitsBeside(HeldNumbers(td), td, LegsOf(query), query.amount)
  BY <1>1, <1>3, <1>4, FitsAsInTheLedger
<1>6. SeatsNow(td) = states[td]
  BY DEF SeatsNow
<1>7. HeldNumbers(td) = Ledger!InState(td, "SUCCESS")
  BY HeldWhenIdle DEF SeatInv
<1>8. td \in DOMAIN CapacityNow /\ CapacityNow[td] = train.tickets_num
  BY <1>1 DEF CapacityNow, train
<1>9. QED
  BY <1>4, <1>5, <1>6, <1>7, <1>8 DEF td, train

LEMMA BuyOnLedger ==
  ASSUME SeatInv, IInv', [Next]_vars, NEW uid \in Uid, NEW id \in TrainId,
         NEW origin \in Station, NEW des \in Station, NEW date \in Date,
         NEW amount \in Amount, NEW queue,
         BuyTicket(uid, id, origin, des, date, amount, queue)
  PROVE  Ledger!Buy \/ Ledger!NoEffect
<1>1. IInv
  BY DEF SeatInv
<1>2. pc = "idle" /\ UNCHANGED <<release, scan>>
  BY <1>1, BuyTicketQuery
<1>3. PICK query \in Query :
        /\ query.time = order_time + 1
        /\ GetKey(query) \notin DOMAIN user_order
        /\ BuyNow(query) \/ BuyQueued(query, queue) \/ BuyRefused(query, queue)
  BY <1>1, BuyTicketQuery
<1> DEFINE td == Departure(query)
           legs == LegsOf(query)
           fits == Ledger!FitsBeside(Ledger!InState(td, "SUCCESS"), td, legs, query.amount)
<1>4. ASSUME NEW status \in {"SUCCESS", "PENDING"}, DOMAIN states' = DOMAIN states,
             Bookable(query),
             user_order' = IndexInsert(user_order, GetKey(query), AsOrder(query, status)),
             \/ fits /\ status = "SUCCESS" /\ reply' = <<"buy_ticket", "price">>
             \/ /\ ~fits
                /\ query.amount <= CapacityNow[td]
                /\ status = "PENDING"
                /\ reply' = <<"buy_ticket", "queue">>
      PROVE  Ledger!Buy
  <2>1. /\ query.time \in DOMAIN LedgerOrders' \ DOMAIN LedgerOrders
        /\ DOMAIN LedgerOrders' = DOMAIN LedgerOrders \cup {query.time}
        /\ \A m \in DOMAIN LedgerOrders :
             m < query.time /\ LedgerOrders'[m] = LedgerOrders[m]
        /\ CapacityNow' = CapacityNow
    BY <1>1, <1>2, <1>3, <1>4, NewInLedger
  <2>2. LedgerOrders'[query.time] =
          [uid |-> query.uid, departure |-> td, legs |-> legs,
           amount |-> query.amount, status |-> status]
    BY <1>1, <1>2, <1>3, <1>4, NewInLedger
  <2>3. /\ LedgerOrders'[query.time].departure = td
        /\ LedgerOrders'[query.time].legs = legs
        /\ LedgerOrders'[query.time].amount = query.amount
        /\ LedgerOrders'[query.time].status = status
    BY <2>2
  <2>4. td \in DOMAIN CapacityNow /\ legs # {}
    BY <1>2, <1>4, BookableInLedger
  <2> HIDE DEF td, legs
  <2>5. QED
    BY <1>4, <2>1, <2>3, <2>4 DEF Ledger!Buy
<1>5. CASE BuyNow(query)
  <2>1. /\ Bookable(query)
        /\ Fits(states[td], legs, query.amount)
        /\ states' = IndexReplace(states, td, TakeSeats(states[td], legs, query.amount))
        /\ user_order' = IndexInsert(user_order, GetKey(query), AsOrder(query, "SUCCESS"))
        /\ reply' = <<"buy_ticket", "price">>
    BY <1>5 DEF BuyNow
  <2>2. fits
    BY <1>2, <2>1, BookableInLedger
  <2>3. DOMAIN states' = DOMAIN states \cup {td}
    BY <2>1, ReplaceFacts
  <2>4. DOMAIN states' = DOMAIN states
    BY <2>1, <2>3 DEF Bookable
  <2> HIDE DEF fits
  <2>5. QED
    BY <1>4, <2>1, <2>2, <2>4
<1>6. CASE BuyQueued(query, queue)
  <2>1. /\ Bookable(query)
        /\ ~Fits(states[td], legs, query.amount)
        /\ query.amount <= release[query.train_id].tickets_num
        /\ user_order' = IndexInsert(user_order, GetKey(query), AsOrder(query, "PENDING"))
        /\ reply' = <<"buy_ticket", "queue">>
        /\ states' = states
    BY <1>6 DEF BuyQueued
  <2>2. ~fits /\ query.amount <= CapacityNow[td]
    BY <1>2, <2>1, BookableInLedger
  <2> HIDE DEF fits
  <2>3. QED
    BY <1>4, <2>1, <2>2
<1>7. CASE BuyRefused(query, queue)
  <2>1. UNCHANGED <<user_order, states, complete_query>> /\ reply' = <<"buy_ticket", "-1">>
    BY <1>2, <1>7 DEF BuyRefused, scan
  <2>2. QED
    BY <1>1, <2>1, NothingChanges DEF Ledger!NoEffect
<1>8. QED
  BY <1>3, <1>5, <1>6, <1>7

\* Where a Refund leaves the orders it does not store, and those it does.
LEMMA StatusInLedger ==
  ASSUME IInv, IInv', [Next]_vars, complete_query' = {},
         NEW key \in DOMAIN user_order, NEW status \in {"SUCCESS", "PENDING", "REFUNDED"},
         user_order' = SetStatus(key, user_order[key], status)
  PROVE  /\ DOMAIN LedgerOrders' = DOMAIN LedgerOrders
         /\ LedgerOrders'[key[2]] = [LedgerOrders[key[2]] EXCEPT !.status = status]
         /\ \A k \in DOMAIN user_order \ {key} :
              LedgerOrders'[k[2]] = [LedgerOrders[k[2]] EXCEPT !.status = user_order[k].status]
<1>1. /\ DOMAIN user_order' = DOMAIN user_order
      /\ user_order'[key] = [user_order[key] EXCEPT !.status = status]
      /\ \A k \in DOMAIN user_order \ {key} : user_order'[k] = user_order[k]
  BY SetStatusKeeps
<1>2. user_order'[key].status = status
  BY <1>1, StatusFacts DEF IInv, TypeOK, IsIndex
<1>3. \A k \in DOMAIN user_order :
        LedgerOrders'[k[2]] = [LedgerOrders[k[2]] EXCEPT !.status = user_order'[k].status]
  BY LedgerKept
<1>4. DOMAIN LedgerOrders' = DOMAIN LedgerOrders
  BY <1>1, LedgerFacts, LedgerAfter
<1>5. QED
  BY <1>1, <1>2, <1>3, <1>4

\* The ledger's order keeps the status it has.
LEMMA SameStatus ==
  ASSUME IInv, NEW k \in DOMAIN user_order, NEW status, status = LedgerOrders[k[2]].status
  PROVE  [LedgerOrders[k[2]] EXCEPT !.status = status] = LedgerOrders[k[2]]
<1>1. LedgerOrders[k[2]] = LedgerOrder(user_order[k])
  BY LedgerFacts
<1>2. QED
  BY <1>1 DEF LedgerOrder

\* refund_ticket of a waiting order.
LEMMA RefundPendingOnLedger ==
  ASSUME IInv, IInv', [Next]_vars, NEW uid, NEW rank, RefundPending(uid, rank)
  PROVE  Ledger!Withdraw
<1>1. PICK key \in DOMAIN user_order :
        /\ user_order[key].status = "PENDING"
        /\ user_order' = SetStatus(key, user_order[key], "REFUNDED")
  BY DEF RefundPending
<1>2. /\ complete_query = {} /\ complete_query' = {} /\ states' = states
      /\ reply' = <<"refund_ticket", "0">>
  BY DEF RefundPending, scan, IInv, ScanOK
<1>3. \A k \in DOMAIN user_order : LedgerOrders[k[2]].status = user_order[k].status
  <2> TAKE k \in DOMAIN user_order
  <2>1. LedgerOrders[k[2]] = LedgerOrder(user_order[k])
    BY LedgerFacts
  <2>2. QED
    BY <1>2, <2>1 DEF LedgerOrder
<1>4. /\ DOMAIN LedgerOrders' = DOMAIN LedgerOrders
      /\ LedgerOrders'[key[2]] = [LedgerOrders[key[2]] EXCEPT !.status = "REFUNDED"]
      /\ \A k \in DOMAIN user_order \ {key} :
           LedgerOrders'[k[2]] = [LedgerOrders[k[2]] EXCEPT !.status = user_order[k].status]
  BY <1>1, <1>2, StatusInLedger
<1>5. \A k \in DOMAIN user_order \ {key} : LedgerOrders'[k[2]] = LedgerOrders[k[2]]
  <2> TAKE k \in DOMAIN user_order \ {key}
  <2>1. LedgerOrders'[k[2]] = [LedgerOrders[k[2]] EXCEPT !.status = user_order[k].status]
    BY <1>4
  <2>2. user_order[k].status = LedgerOrders[k[2]].status
    BY <1>3
  <2>3. [LedgerOrders[k[2]] EXCEPT !.status = user_order[k].status] = LedgerOrders[k[2]]
    BY <2>2, SameStatus
  <2>4. QED
    BY <2>1, <2>3
<1> DEFINE withdrawn == [LedgerOrders EXCEPT ![key[2]].status = "REFUNDED"]
<1>6. key[2] \in DOMAIN LedgerOrders
  BY LedgerFacts
<1>7. \A m \in DOMAIN LedgerOrders : LedgerOrders'[m] = withdrawn[m]
  BY <1>4, <1>5, <1>6, LedgerFacts
<1>8. LedgerOrders' = withdrawn
  BY <1>4, <1>7 DEF LedgerOrders
<1>9. LedgerOrders[key[2]].status = "PENDING"
  BY <1>1, <1>3
<1>10. CapacityNow' = CapacityNow
  BY <1>2, CapacityKept
<1>11. QED
  BY <1>2, <1>6, <1>8, <1>9, <1>10 DEF Ledger!Withdraw

\* Whom the ledger sees waiting for the target's departure at the end of a
\* scan: those in the queue, all of them passed.
LEMMA WaitingInLedger ==
  ASSUME IInv, OrdersRide, ScanDecides, pc = "scan", Unvisited = {},
         NEW m \in Ledger!InState(Departure(target), "PENDING")
  PROVE  \E c \in DOMAIN train_query, query \in Query :
           /\ query = train_query[c]
           /\ GetKey(query) \in DOMAIN user_order
           /\ m = GetKey(query)[2] /\ m = c[3]
           /\ Departure(query) = Departure(target) /\ c[3] < cursor
           /\ LedgerOrders[m] = LedgerOrder(user_order[GetKey(query)])
           /\ LegsOf(user_order[GetKey(query)]) = LegsOf(query)
           /\ user_order[GetKey(query)].amount = query.amount
<1>1. PICK k \in DOMAIN user_order : m = k[2]
  BY LedgerFacts DEF Ledger!InState
<1>2. /\ Departure(user_order[k]) = Departure(target)
      /\ QueryKey(user_order[k]) \in complete_query \/ user_order[k].status = "PENDING"
  BY <1>1, StateInLedger
<1>3. QueryKey(user_order[k]) \in DOMAIN train_query
  BY <1>2 DEF IInv, TypeOK, QueueMatchesOrders, Waiting
<1>4. PICK c \in DOMAIN train_query, query \in Query :
        /\ c = QueryKey(user_order[k])
        /\ query = train_query[c]
        /\ GetKey(query) \in DOMAIN user_order
        /\ user_order[GetKey(query)] =
             AsOrder(query, IF c \in complete_query THEN "SUCCESS" ELSE "PENDING")
        /\ QueryKey(user_order[GetKey(query)]) = c
        /\ Departure(user_order[GetKey(query)]) = Departure(query)
  BY <1>3, QueryOfOrder
<1>5. c[3] = k[2] /\ c[3] = GetKey(query)[2]
  BY <1>4, LedgerFacts
<1>6. GetKey(query) = k
  BY <1>4, <1>5, LedgerFacts
<1>7. <<c[1], c[2]>> = Departure(query) /\ c[3] \in Nat
  BY <1>4, WaiterFacts
<1>8. c[3] < cursor
  BY <1>2, <1>4, <1>6, <1>7 DEF Unvisited, IInv, TypeOK
<1>9. LedgerOrders[m] = LedgerOrder(user_order[GetKey(query)])
  BY <1>1, <1>6, LedgerFacts
<1>10. /\ LegsOf(user_order[GetKey(query)]) = LegsOf(query)
       /\ user_order[GetKey(query)].amount = query.amount
  BY <1>4 DEF AsOrder, LegsOf
<1>11. QED
  BY <1>1, <1>2, <1>4, <1>5, <1>6, <1>8, <1>9, <1>10

\* The waiters that the scan has promoted are those that the ledger promotes.
LEMMA PromotedInLedger ==
  ASSUME IInv, OrdersRide, ScanDecides, pc = "scan", Unvisited = {}
  PROVE  LET promoted == {c[3] : c \in complete_query}
             waiting == Ledger!InState(Departure(target), "PENDING")
         IN promoted \subseteq waiting /\ Ledger!IsPromotion(promoted, Others, waiting)
<1> DEFINE promoted == {c[3] : c \in complete_query}
           waiting == Ledger!InState(Departure(target), "PENDING")
<1>1. ASSUME NEW c \in complete_query PROVE c[3] \in waiting
  <2>1. c \in DOMAIN train_query
    BY DEF IInv, TypeOK
  <2>2. PICK k \in DOMAIN user_order :
          QueryKey(user_order[k]) = c /\ Departure(user_order[k]) = Departure(target)
    BY <2>1, QueryOfOrder DEF ScanDecides
  <2>3. k[2] = c[3]
    BY <2>2, LedgerFacts
  <2>4. k[2] \in waiting
    BY <2>2, StateInLedger
  <2>5. QED
    BY <2>3, <2>4
<1>2. ASSUME NEW m \in waiting
      PROVE  m \in promoted
               <=> Ledger!FitsBeside(Others \cup {q \in promoted : q < m},
                                     LedgerOrders[m].departure, LedgerOrders[m].legs,
                                     LedgerOrders[m].amount)
  <2>1. PICK c \in DOMAIN train_query, query \in Query :
          /\ query = train_query[c]
          /\ GetKey(query) \in DOMAIN user_order
          /\ m = c[3]
          /\ Departure(query) = Departure(target) /\ c[3] < cursor
          /\ LedgerOrders[m] = LedgerOrder(user_order[GetKey(query)])
          /\ LegsOf(user_order[GetKey(query)]) = LegsOf(query)
          /\ user_order[GetKey(query)].amount = query.amount
    BY WaitingInLedger
  <2>2. Departure(user_order[GetKey(query)]) = Departure(target)
    BY <2>1, QueryOfOrder
  <2>3. /\ LedgerOrders[m].departure = Departure(target)
        /\ LedgerOrders[m].legs = LegsOf(query)
        /\ LedgerOrders[m].amount = query.amount
    BY <2>1, <2>2 DEF LedgerOrder
  <2>4. PromotedBelow(m) = {q \in promoted : q < m}
    BY DEF PromotedBelow
  <2>5. c \in complete_query
          <=> Ledger!FitsBeside(Others \cup PromotedBelow(m), Departure(target),
                                LegsOf(query), query.amount)
    BY <2>1 DEF ScanDecides
  <2>6. m \in promoted <=> c \in complete_query
    <3>1. ASSUME NEW d \in complete_query, m = d[3] PROVE d = c
      <4>1. d \in DOMAIN train_query
        BY DEF IInv, TypeOK
      <4>2. Departure(train_query[d]) = Departure(target)
        BY DEF ScanDecides
      <4>3. d = QueryKey(train_query[d]) /\ c = QueryKey(train_query[c])
        BY <4>1, QueryOfOrder
      <4>4. Departure(train_query[d]) = Departure(train_query[c])
        BY <2>1, <4>2
      <4>5. /\ train_query[d].train_id = train_query[c].train_id
            /\ train_query[d].date = train_query[c].date
        BY <4>4 DEF Departure
      <4>6. d[3] = train_query[d].time /\ c[3] = train_query[c].time
        BY <4>3 DEF QueryKey
      <4>7. train_query[d].time = train_query[c].time
        BY <2>1, <3>1, <4>6
      <4>8. QED
        BY <4>3, <4>5, <4>7 DEF QueryKey
    <3>2. QED
      BY <2>1, <3>1
  <2>7. QED
    BY <2>3, <2>4, <2>5, <2>6
<1> HIDE DEF promoted, waiting
<1>3. Ledger!IsPromotion(promoted, Others, waiting)
  BY <1>2 DEF Ledger!IsPromotion
<1>4. QED
  BY <1>1, <1>3 DEF promoted, waiting

\* refund_ticket of a bought order, at the end of its scan.
LEMMA RefundEndOnLedger ==
  ASSUME SeatInv, ScanDecides, IInv', [Next]_vars, RefundEnd
  PROVE  Ledger!GiveBack
<1> DEFINE key == GetKey(target)
           n == target.time
           promoted == {c[3] : c \in complete_query}
           waiting == Ledger!InState(Departure(target), "PENDING")
<1>1. IInv /\ OrdersRide
  BY DEF SeatInv
<1>2. /\ pc = "scan" /\ Unvisited = {}
      /\ user_order' = SetStatus(key, target, "REFUNDED")
      /\ complete_query' = {}
      /\ reply' = <<"refund_ticket", "0">>
  BY DEF RefundEnd
<1>3. key \in DOMAIN user_order /\ user_order[key] = target /\ target.status = "SUCCESS"
  BY <1>1, <1>2 DEF IInv, ScanOK
<1>4. key[2] = n
  BY <1>1, <1>2, OrderFacts DEF IInv, TypeOK
<1>5. QueryKey(target) \notin complete_query
  BY <1>1, <1>2 DEF ScanDecides, IInv, TypeOK
<1>6. /\ n \in DOMAIN LedgerOrders
      /\ LedgerOrders[n].departure = Departure(target)
      /\ LedgerOrders[n].status = "SUCCESS"
  <2>1. n \in DOMAIN LedgerOrders /\ LedgerOrders[n] = LedgerOrder(target)
    BY <1>1, <1>3, <1>4, LedgerFacts
  <2>2. QED
    BY <1>3, <1>5, <2>1 DEF LedgerOrder
<1>7. /\ promoted \subseteq waiting
      /\ Ledger!IsPromotion(promoted, Ledger!InState(Departure(target), "SUCCESS") \ {n}, waiting)
  BY <1>1, <1>2, PromotedInLedger DEF Others
<1>8. /\ DOMAIN LedgerOrders' = DOMAIN LedgerOrders
      /\ LedgerOrders'[n] = [LedgerOrders[n] EXCEPT !.status = "REFUNDED"]
      /\ \A k \in DOMAIN user_order \ {key} :
           LedgerOrders'[k[2]] = [LedgerOrders[k[2]] EXCEPT !.status = user_order[k].status]
  BY <1>1, <1>2, <1>3, <1>4, StatusInLedger
<1>9. ASSUME NEW k \in DOMAIN user_order \ {key}
      PROVE  /\ k[2] # n
             /\ user_order[k].status =
                  IF k[2] \in promoted THEN "SUCCESS" ELSE LedgerOrders[k[2]].status
  <2>1. k[2] # n
    BY <1>1, <1>3, <1>4, LedgerFacts
  <2>2. LedgerOrders[k[2]] = LedgerOrder(user_order[k]) /\ QueryKey(user_order[k])[3] = k[2]
    BY <1>1, LedgerFacts
  <2>3. CASE k[2] \in promoted
    <3>1. PICK c \in complete_query : k[2] = c[3]
      BY <2>3
    <3>2. PICK okey \in DOMAIN user_order :
            QueryKey(user_order[okey]) = c /\ user_order[okey].status = "SUCCESS"
      BY <1>1, QueryOfOrder DEF IInv, TypeOK
    <3>3. okey[2] = k[2]
      BY <1>1, <3>1, <3>2, LedgerFacts
    <3>4. okey = k
      BY <1>1, <3>3, LedgerFacts
    <3>5. QED
      BY <2>1, <2>3, <3>2, <3>4
  <2>4. CASE k[2] \notin promoted
    <3>1. QueryKey(user_order[k]) \notin complete_query
      BY <2>2, <2>4
    <3>2. LedgerOrders[k[2]].status = user_order[k].status
      BY <2>2, <3>1 DEF LedgerOrder
    <3>3. QED
      BY <2>1, <2>4, <3>2
  <2>5. QED
    BY <2>3, <2>4
<1> DEFINE after == [m \in DOMAIN LedgerOrders |->
                       [LedgerOrders[m] EXCEPT !.status =
                          CASE m = n -> "REFUNDED"
                            [] m \in promoted -> "SUCCESS"
                            [] OTHER -> @]]
<1> HIDE DEF promoted, waiting, key, n
<1>10. ASSUME NEW k \in DOMAIN user_order PROVE LedgerOrders'[k[2]] = after[k[2]]
  <2>1. k[2] \in DOMAIN LedgerOrders
    BY <1>1, LedgerFacts
  <2>2. CASE k = key
    <3>1. n \notin promoted
      BY <1>6, <1>7 DEF waiting, Ledger!InState
    <3>2. after[n] = [LedgerOrders[n] EXCEPT !.status = "REFUNDED"]
      BY <1>6, <3>1
    <3>3. QED
      BY <1>4, <1>8, <2>2, <3>2
  <2>3. CASE k # key
    <3>1. k[2] # n
      BY <1>9, <2>3
    <3>2. after[k[2]] = [LedgerOrders[k[2]] EXCEPT !.status =
                           IF k[2] \in promoted THEN "SUCCESS" ELSE LedgerOrders[k[2]].status]
      BY <2>1, <3>1
    <3>3. QED
      BY <1>8, <1>9, <2>3, <3>2
  <2>4. QED
    BY <2>2, <2>3
<1> HIDE DEF after
<1>11. \A m \in DOMAIN LedgerOrders : LedgerOrders'[m] = after[m]
  BY <1>1, <1>10, LedgerFacts
<1>12. DOMAIN after = DOMAIN LedgerOrders
  BY DEF after
<1>13. LedgerOrders' = after
  BY <1>8, <1>11, <1>12 DEF LedgerOrders, after
<1>14. CapacityNow' = CapacityNow
  <2>1. states' = IndexReplace(states, Departure(target), seats)
    BY DEF RefundEnd
  <2>2. DOMAIN states' = DOMAIN states \cup {Departure(target)}
    BY <2>1, ReplaceFacts
  <2>3. Departure(target) \in DOMAIN states
    BY <1>1, <1>3 DEF IInv, LookupsNeverMiss
  <2>4. QED
    BY <1>1, <2>2, <2>3, CapacityKept
<1>15. promoted \in SUBSET Ledger!InState(LedgerOrders[n].departure, "PENDING")
  BY <1>6, <1>7 DEF waiting
<1>16. Ledger!IsPromotion(promoted, Ledger!InState(LedgerOrders[n].departure, "SUCCESS") \ {n},
                          Ledger!InState(LedgerOrders[n].departure, "PENDING"))
  BY <1>6, <1>7 DEF waiting
<1>17. QED
  BY <1>2, <1>6, <1>13, <1>14, <1>15, <1>16 DEF Ledger!GiveBack, after

LEMMA StepOfLedger ==
  ASSUME LedgerInv, IInv', [Next]_vars
  PROVE  [Ledger!Next]_(Ledger!ledger)
<1>1. IInv /\ SeatInv /\ ScanDecides
  BY DEF LedgerInv, SeatInv
<1>2. CASE UNCHANGED vars \/ SessionChange \/ RefundVisit
  BY <1>1, <1>2, QuietOnLedger DEF Ledger!ledger
<1>3. CASE Exit \/ Boot
  BY <1>1, <1>3, NoEffectOnLedger DEF Ledger!Next
<1>4. CASE TrainCommand
  BY <1>1, <1>4, NoEffectOnLedger, ReleaseOnLedger DEF TrainCommand, Ledger!Next
<1>5. CASE BuyCommand
  BY <1>1, <1>5, BuyOnLedger DEF BuyCommand, Ledger!Next
<1>6. CASE RefundCommand
  BY <1>1, <1>6, NoEffectOnLedger, RefundPendingOnLedger, QuietOnLedger
     DEF RefundCommand, Ledger!Next, Ledger!ledger
<1>7. CASE RefundEnd
  BY <1>1, <1>7, RefundEndOnLedger DEF Ledger!Next
<1>8. QED
  BY <1>2, <1>3, <1>4, <1>5, <1>6, <1>7 DEF Next

\* Counts, queue and scan decide every purchase and every promotion as the
\* orders alone do: every run of the train system is a run of the ledger
\* (BuyTicket, Refund, ReleaseTrain).
THEOREM TrainsKeepTheLedger == Spec => ImplementsLedger
<1>1. Init => Ledger!Init
  BY InitOfLedger
<1>2. LedgerInv /\ LedgerInv' /\ [Next]_vars => [Ledger!Next]_(Ledger!ledger)
  BY StepOfLedger DEF LedgerInv, SeatInv
<1>3. QED
  BY <1>1, <1>2, LedgerInvariance, PTL DEF Spec, ImplementsLedger, Ledger!Spec
=============================================================================
