---------------------------- MODULE ProgramProofs ----------------------------
(***************************************************************************)
(* Proofs about the whole program: what is proved of user_sys alone and of *)
(* train_sys alone holds of the two together, and what one keeps in its    *)
(* files and sessions the other can rely on.                               *)
(***************************************************************************)
EXTENDS TicketSystem, TLAPS

\* The two halves with what is proved of them.
TrainFacts == INSTANCE TrainProofs
UserFacts == INSTANCE UserProofs WITH up <- pc # "down"

-----------------------------------------------------------------------------
\* The halves of the program are the modules that the proofs are about.
LEMMA SameTrains ==
  /\ Trains!Init <=> TrainFacts!Init
  /\ \A id : Trains!DeleteTrain(id) <=> TrainFacts!DeleteTrain(id)
  /\ \A id : Trains!ReleaseTrain(id) <=> TrainFacts!ReleaseTrain(id)
  /\ \A id, train : Trains!AddTrain(id, train) <=> TrainFacts!AddTrain(id, train)
  /\ Trains!BuyCommand <=> TrainFacts!BuyCommand
  /\ Trains!RefundCommand <=> TrainFacts!RefundCommand
  /\ Trains!RefundVisit <=> TrainFacts!RefundVisit
  /\ Trains!RefundEnd <=> TrainFacts!RefundEnd
  /\ Trains!Exit <=> TrainFacts!Exit
  /\ Trains!Boot <=> TrainFacts!Boot
  /\ Trains!SessionChange <=> TrainFacts!SessionChange
  /\ Trains!vars = TrainFacts!vars
<1>1. Trains!Init <=> TrainFacts!Init
  BY DEF Trains!Init, TrainFacts!Init, Trains!EmptyIndex, TrainFacts!EmptyIndex
<1>2. \A id : Trains!DeleteTrain(id) <=> TrainFacts!DeleteTrain(id)
  BY DEF Trains!DeleteTrain, TrainFacts!DeleteTrain, Trains!IndexRemove,
         TrainFacts!IndexRemove, Trains!sessions, TrainFacts!sessions, Trains!scan,
         TrainFacts!scan
<1>3. \A id : Trains!ReleaseTrain(id) <=> TrainFacts!ReleaseTrain(id)
  BY DEF Trains!ReleaseTrain, TrainFacts!ReleaseTrain, Trains!IndexInsertAll,
         TrainFacts!IndexInsertAll, Trains!OpenedStates, TrainFacts!OpenedStates,
         Trains!OpenedRoutes, TrainFacts!OpenedRoutes, Trains!Construct,
         TrainFacts!Construct, Trains!FindStation, TrainFacts!FindStation,
         Trains!IndexReplace, TrainFacts!IndexReplace, Trains!IndexInsert,
         TrainFacts!IndexInsert, Trains!IndexRemove, TrainFacts!IndexRemove,
         Trains!sessions, TrainFacts!sessions, Trains!scan, TrainFacts!scan
<1>4. \A id, train : Trains!AddTrain(id, train) <=> TrainFacts!AddTrain(id, train)
  BY DEF Trains!AddTrain, TrainFacts!AddTrain, Trains!IndexInsert,
         TrainFacts!IndexInsert, Trains!sessions, TrainFacts!sessions, Trains!scan,
         TrainFacts!scan
<1>5. Trains!BuyCommand <=> TrainFacts!BuyCommand
  BY DEF Trains!BuyCommand, TrainFacts!BuyCommand, Trains!BuyTicket,
         TrainFacts!BuyTicket, Trains!DepartureDay, TrainFacts!DepartureDay,
         Trains!FindStation, TrainFacts!FindStation, Trains!BuyNow,
         TrainFacts!BuyNow, Trains!BuyQueued, TrainFacts!BuyQueued,
         Trains!BuyRefused, TrainFacts!BuyRefused, Trains!Bookable,
         TrainFacts!Bookable, Trains!Fits, TrainFacts!Fits, Trains!Departure,
         TrainFacts!Departure, Trains!LegsOf, TrainFacts!LegsOf, Trains!Legs,
         TrainFacts!Legs, Trains!TakeSeats, TrainFacts!TakeSeats,
         Trains!IndexReplace, TrainFacts!IndexReplace, Trains!IndexInsert,
         TrainFacts!IndexInsert, Trains!IndexRemove, TrainFacts!IndexRemove,
         Trains!GetKey, TrainFacts!GetKey, Trains!AsOrder, TrainFacts!AsOrder,
         Trains!QueryKey, TrainFacts!QueryKey, Trains!sessions, TrainFacts!sessions,
         Trains!scan, TrainFacts!scan
<1>6. Trains!RefundCommand <=> TrainFacts!RefundCommand
  BY DEF Trains!RefundCommand, TrainFacts!RefundCommand, Trains!RefundRefused,
         TrainFacts!RefundRefused, Trains!RefundPending, TrainFacts!RefundPending,
         Trains!RefundBegin, TrainFacts!RefundBegin, Trains!IsRanked,
         TrainFacts!IsRanked, Trains!UserOrders, TrainFacts!UserOrders,
         Trains!Cardinality, TrainFacts!Cardinality, Trains!SetStatus,
         TrainFacts!SetStatus, Trains!IndexReplace, TrainFacts!IndexReplace,
         Trains!IndexInsert, TrainFacts!IndexInsert, Trains!IndexRemove,
         TrainFacts!IndexRemove, Trains!QueryKey, TrainFacts!QueryKey,
         Trains!TakeSeats, TrainFacts!TakeSeats, Trains!Departure,
         TrainFacts!Departure, Trains!LegsOf, TrainFacts!LegsOf, Trains!Legs,
         TrainFacts!Legs, Trains!FindStation, TrainFacts!FindStation,
         Trains!sessions, TrainFacts!sessions, Trains!disk, TrainFacts!disk,
         Trains!scan, TrainFacts!scan
<1>7. Trains!RefundVisit <=> TrainFacts!RefundVisit
  BY DEF Trains!RefundVisit, TrainFacts!RefundVisit, Trains!IsNext,
         TrainFacts!IsNext, Trains!Unvisited, TrainFacts!Unvisited,
         Trains!Departure, TrainFacts!Departure, Trains!Fits, TrainFacts!Fits,
         Trains!LegsOf, TrainFacts!LegsOf, Trains!Legs, TrainFacts!Legs,
         Trains!FindStation, TrainFacts!FindStation, Trains!TakeSeats,
         TrainFacts!TakeSeats, Trains!SetStatus, TrainFacts!SetStatus,
         Trains!GetKey, TrainFacts!GetKey, Trains!IndexReplace,
         TrainFacts!IndexReplace, Trains!IndexInsert, TrainFacts!IndexInsert,
         Trains!IndexRemove, TrainFacts!IndexRemove, Trains!sessions,
         TrainFacts!sessions
<1>8. Trains!RefundEnd <=> TrainFacts!RefundEnd
  BY DEF Trains!RefundEnd, TrainFacts!RefundEnd, Trains!Unvisited,
         TrainFacts!Unvisited, Trains!Departure, TrainFacts!Departure,
         Trains!SetStatus, TrainFacts!SetStatus, Trains!GetKey, TrainFacts!GetKey,
         Trains!IndexReplace, TrainFacts!IndexReplace, Trains!IndexInsert,
         TrainFacts!IndexInsert, Trains!IndexRemove, TrainFacts!IndexRemove,
         Trains!sessions, TrainFacts!sessions
<1>9. Trains!Exit <=> TrainFacts!Exit
  BY DEF Trains!Exit, TrainFacts!Exit, Trains!disk, TrainFacts!disk, Trains!scan,
         TrainFacts!scan
<1>10. Trains!Boot <=> TrainFacts!Boot
  BY DEF Trains!Boot, TrainFacts!Boot, Trains!disk, TrainFacts!disk, Trains!scan,
         TrainFacts!scan, Trains!sessions, TrainFacts!sessions
<1>11. Trains!SessionChange <=> TrainFacts!SessionChange
  BY DEF Trains!SessionChange, TrainFacts!SessionChange, Trains!disk,
         TrainFacts!disk, Trains!scan, TrainFacts!scan
<1>12. Trains!vars = TrainFacts!vars
  BY DEF Trains!vars, TrainFacts!vars, Trains!sessions, TrainFacts!sessions,
         Trains!disk, TrainFacts!disk, Trains!scan, TrainFacts!scan
<1>13. QED
  BY <1>1, <1>2, <1>3, <1>4, <1>5, <1>6, <1>7, <1>8, <1>9, <1>10, <1>11, <1>12

LEMMA SameUsers ==
  /\ Users!Init <=> UserFacts!Init
  /\ Users!Command <=> UserFacts!Command
  /\ Users!Exit <=> UserFacts!Exit
  /\ Users!Boot <=> UserFacts!Boot
  /\ Users!vars = UserFacts!vars
<1>1. Users!Init <=> UserFacts!Init
  BY DEF Users!Init, UserFacts!Init, Users!EmptyIndex, UserFacts!EmptyIndex,
         Users!IndexInsert, UserFacts!IndexInsert, Users!AdminPrivilege,
         UserFacts!AdminPrivilege
<1>2. Users!Command <=> UserFacts!Command
  BY DEF Users!Command, UserFacts!Command, Users!LogIn, UserFacts!LogIn,
         Users!LogOut, UserFacts!LogOut, Users!Erase, UserFacts!Erase, Users!Erased,
         UserFacts!Erased, Users!Cardinality, UserFacts!Cardinality, Users!Seek,
         UserFacts!Seek, Users!MaySee, UserFacts!MaySee, Users!Find, UserFacts!Find,
         Users!AddUser, UserFacts!AddUser, Users!MayAdd, UserFacts!MayAdd,
         Users!Modify, UserFacts!Modify, Users!Modified, UserFacts!Modified,
         Users!Refuse, UserFacts!Refuse, Users!GivenPrivilege,
         UserFacts!GivenPrivilege, Users!INVALID_PRIVILEGE,
         UserFacts!INVALID_PRIVILEGE, Users!IndexInsert, UserFacts!IndexInsert,
         Users!IndexReplace, UserFacts!IndexReplace, Users!IndexRemove,
         UserFacts!IndexRemove
<1>3. Users!Exit <=> UserFacts!Exit
  BY DEF Users!Exit, UserFacts!Exit
<1>4. Users!Boot <=> UserFacts!Boot
  BY DEF Users!Boot, UserFacts!Boot
<1>5. Users!vars = UserFacts!vars
  BY DEF Users!vars, UserFacts!vars
<1>6. QED
  BY <1>1, <1>2, <1>3, <1>4, <1>5

\* What the proofs about the halves assume of the constants.
LEMMA ConstantsFit ==
  /\ TrainTotals \subseteq TrainFacts!Train
  /\ \A train \in TrainTotals : TrainFacts!WellFormed(train) /\ ~train.has_released
  /\ Date \subseteq Int /\ Amount \subseteq Nat /\ MaxOrders \in Nat
  /\ Privilege \subseteq Nat /\ Absent \notin Password
BY TrainAssumption, UserAssumption
   DEF Trains!Train, TrainFacts!Train, Trains!WellFormed, TrainFacts!WellFormed

\* The indexes of the two halves, as module Index makes them.
LEMMA InsertTrainIndex ==
  ASSUME NEW index, NEW key, NEW value, NEW after,
         after = TrainFacts!IndexInsert(index, key, value)
  PROVE  /\ DOMAIN after = DOMAIN index \cup {key}
         /\ \A k \in DOMAIN index : after[k] = index[k]
         /\ key \notin DOMAIN index => after[key] = value
BY DEF TrainFacts!IndexInsert

LEMMA RemoveTrainIndex ==
  ASSUME NEW index, NEW key, NEW after, after = TrainFacts!IndexRemove(index, key)
  PROVE  /\ DOMAIN after = DOMAIN index \ {key}
         /\ \A k \in DOMAIN index \ {key} : after[k] = index[k]
BY DEF TrainFacts!IndexRemove

LEMMA ReplaceTrainIndex ==
  ASSUME NEW index, NEW key, NEW value, NEW after,
         after = TrainFacts!IndexReplace(index, key, value)
  PROVE  /\ DOMAIN after = DOMAIN index \cup {key}
         /\ \A k \in DOMAIN index \ {key} : after[k] = index[k]
         /\ after[key] = value
BY DEF TrainFacts!IndexReplace, TrainFacts!IndexInsert, TrainFacts!IndexRemove

LEMMA InsertAllTrainIndex ==
  ASSUME NEW index, NEW entries, NEW after,
         after = TrainFacts!IndexInsertAll(index, entries)
  PROVE  DOMAIN after = DOMAIN index \cup DOMAIN entries
BY DEF TrainFacts!IndexInsertAll

LEMMA ReplaceUserIndex ==
  ASSUME NEW index, NEW key, NEW value, NEW after,
         after = UserFacts!IndexReplace(index, key, value)
  PROVE  DOMAIN after = DOMAIN index \cup {key}
BY DEF UserFacts!IndexReplace, UserFacts!IndexInsert, UserFacts!IndexRemove

-----------------------------------------------------------------------------
\* A step of the program is one of train_sys: a user command may change the
\* sessions, and is not carried out during a refund_ticket.
LEMMA StepOfTrains ==
  ASSUME users_id_now' \in SUBSET Uid, [Next]_vars
  PROVE  [TrainFacts!Next]_(TrainFacts!vars)
<1>1. CASE UNCHANGED vars
  BY <1>1 DEF vars, TrainFacts!vars, TrainFacts!sessions, TrainFacts!disk, TrainFacts!scan
<1>2. CASE AddTrain
  BY <1>2, SameTrains DEF AddTrain, TrainFacts!Next, TrainFacts!TrainCommand
<1>3. CASE TrainStep
  BY <1>3, SameTrains DEF TrainStep, TrainFacts!Next, TrainFacts!TrainCommand
<1>4. CASE UserStep
  BY <1>4 DEF UserStep, TrainFacts!Next, TrainFacts!SessionChange, TrainFacts!disk,
              TrainFacts!scan
<1>5. CASE Exit \/ Boot
  BY <1>5, SameTrains DEF Exit, Boot, TrainFacts!Next
<1>6. QED
  BY <1>1, <1>2, <1>3, <1>4, <1>5 DEF Next

\* The commands of train_sys change neither sessions nor registry, and leave
\* the program running.
LEMMA TrainStepOfUsers ==
  ASSUME AddTrain \/ TrainStep
  PROVE  UNCHANGED <<user_info, users_id_now, answer>> /\ (pc # "down" <=> pc' # "down")
<1>1. CASE AddTrain
  BY <1>1 DEF AddTrain, Trains!AddTrain, Trains!sessions
<1>2. ASSUME NEW id \in TrainId, Trains!DeleteTrain(id) \/ Trains!ReleaseTrain(id)
      PROVE  users_id_now' = users_id_now /\ pc' = pc
  BY <1>2 DEF Trains!DeleteTrain, Trains!ReleaseTrain, Trains!sessions
<1>3. ASSUME Trains!BuyCommand PROVE users_id_now' = users_id_now /\ pc' = pc
  BY <1>3 DEF Trains!BuyCommand, Trains!BuyTicket, Trains!sessions
<1>4. ASSUME Trains!RefundCommand
      PROVE  /\ users_id_now' = users_id_now
             /\ pc \in {"idle", "scan"} /\ pc' \in {"idle", "scan"}
  BY <1>4 DEF Trains!RefundCommand, Trains!RefundRefused, Trains!RefundPending,
              Trains!RefundBegin, Trains!sessions
<1>5. ASSUME Trains!RefundVisit \/ Trains!RefundEnd
      PROVE  /\ users_id_now' = users_id_now
             /\ pc \in {"idle", "scan"} /\ pc' \in {"idle", "scan"}
  BY <1>5 DEF Trains!RefundVisit, Trains!RefundEnd, Trains!sessions
<1>6. QED
  BY <1>1, <1>2, <1>3, <1>4, <1>5 DEF TrainStep, AddTrain

\* A step of the program is one of user_sys.
LEMMA StepOfUsers ==
  ASSUME [Next]_vars
  PROVE  [UserFacts!Next]_(UserFacts!vars)
<1>1. CASE UNCHANGED vars
  BY <1>1 DEF vars, UserFacts!vars
<1>2. CASE AddTrain \/ TrainStep
  <2>1. UNCHANGED <<user_info, users_id_now, answer>> /\ (pc # "down" <=> pc' # "down")
    BY <1>2, TrainStepOfUsers
  <2>2. UserFacts!vars' = UserFacts!vars
    BY <2>1 DEF UserFacts!vars
  <2>3. QED
    BY <2>2
<1>3. CASE UserStep
  BY <1>3, SameUsers DEF UserStep, UserFacts!Next
<1>4. CASE Exit \/ Boot
  BY <1>4, SameUsers DEF Exit, Boot, UserFacts!Next
<1>5. QED
  BY <1>1, <1>2, <1>3, <1>4 DEF Next

-----------------------------------------------------------------------------
\* What one half relies on of the other.

\* A session lasts as long as the refund_ticket that it began.
RefunderOnline == pc = "scan" => target.uid \in users_id_now

\* The inductive invariant: the invariants of the halves, and what ties them.
ProgramInv ==
  /\ TrainFacts!QueueInv
  /\ UserFacts!IInv
  /\ ReferencesResolve
  /\ RefunderOnline

LEMMA HalvesStep ==
  ASSUME TrainFacts!QueueInv, UserFacts!IInv, [Next]_vars
  PROVE  /\ [TrainFacts!Next]_(TrainFacts!vars) /\ TrainFacts!QueueInv'
         /\ [UserFacts!Next]_(UserFacts!vars) /\ UserFacts!IInv'
<1>1. [UserFacts!Next]_(UserFacts!vars)
  BY StepOfUsers
<1>2. UserFacts!IInv'
  BY <1>1, UserFacts!NextIInv, ConstantsFit
<1>3. users_id_now' \in SUBSET Uid
  BY <1>2 DEF UserFacts!IInv, UserFacts!TypeOK
<1>4. [TrainFacts!Next]_(TrainFacts!vars)
  BY <1>3, StepOfTrains
<1>5. TrainFacts!QueueInv'
  BY <1>4, TrainFacts!NextQueueInv, ConstantsFit
<1>6. QED
  BY <1>1, <1>2, <1>4, <1>5

\* Nobody is ever struck off the registry.
LEMMA RegistryGrows ==
  ASSUME UserFacts!IInv, [UserFacts!Next]_(UserFacts!vars)
  PROVE  DOMAIN user_info \subseteq DOMAIN user_info'
<1>1. CASE user_info' = user_info
  BY <1>1
<1>2. ASSUME NEW uid, NEW uinfo, user_info' = UserFacts!IndexReplace(user_info, uid, uinfo)
      PROVE  DOMAIN user_info \subseteq DOMAIN user_info'
  <2>1. DOMAIN user_info' = DOMAIN user_info \cup {uid}
    BY <1>2, ReplaceUserIndex
  <2>2. QED
    BY <2>1
<1>3. QED
  BY <1>1, <1>2, UserFacts!StepGrants, ConstantsFit

\* A station that a train calls at is one of its stations.
LEMMA CallsAt ==
  ASSUME NEW train, NEW station, TrainFacts!FindStation(train, station) # 0
  PROVE  station \in StationsOf(train)
BY DEF TrainFacts!FindStation, StationsOf

\* The routes that release_train opens lead between the train's stations.
LEMMA RoutesBetweenStations ==
  ASSUME NEW id, NEW train, NEW r \in DOMAIN TrainFacts!OpenedRoutes(id, train)
  PROVE  r[1] \in StationsOf(train) /\ r[2] \in StationsOf(train)
BY DEF TrainFacts!OpenedRoutes, StationsOf

\* What is stored stays stored: no command removes a name.
LEMMA NamesKept ==
  ASSUME [Next]_vars
  PROVE  hash_str \subseteq hash_str'
BY DEF Next, vars, AddTrain, TrainStep, UserStep, Exit, Boot

\* The names of the stations of every train and route are stored.
NamesStored ==
  /\ \A r \in DOMAIN routes : {r[1], r[2]} \subseteq hash_str
  /\ \A id \in DOMAIN release : StationsOf(release[id]) \subseteq hash_str

LEMMA NamesStep ==
  ASSUME NamesStored, [Next]_vars
  PROVE  NamesStored'
<1>1. hash_str \subseteq hash_str'
  BY NamesKept
<1>2. CASE UNCHANGED <<routes, release>>
  BY <1>1, <1>2 DEF NamesStored, StationsOf
<1>3. CASE AddTrain
  <2>1. PICK id \in TrainId, train \in TrainTotals :
          TrainFacts!AddTrain(id, train) /\ hash_str' = hash_str \cup StationsOf(train)
    BY <1>3, SameTrains DEF AddTrain
  <2>2. release' = TrainFacts!IndexInsert(release, id, train) /\ routes' = routes
    BY <2>1 DEF TrainFacts!AddTrain
  <2>3. DOMAIN release' = DOMAIN release \cup {id}
    BY <2>2, InsertTrainIndex
  <2>4. \A k \in DOMAIN release : release'[k] = release[k]
    BY <2>2 DEF TrainFacts!IndexInsert
  <2>5. id \notin DOMAIN release => release'[id] = train
    BY <2>2 DEF TrainFacts!IndexInsert
  <2>6. ASSUME NEW k \in DOMAIN release' PROVE StationsOf(release'[k]) \subseteq hash_str'
    BY <1>1, <2>1, <2>3, <2>4, <2>5 DEF NamesStored
  <2>7. QED
    BY <1>1, <2>2, <2>6 DEF NamesStored, StationsOf
<1>4. ASSUME NEW id \in TrainId, TrainFacts!DeleteTrain(id), ~UNCHANGED <<routes, release>>
      PROVE  NamesStored'
  <2>1. release' = TrainFacts!IndexRemove(release, id) /\ routes' = routes
    BY <1>4 DEF TrainFacts!DeleteTrain
  <2>2. DOMAIN release' = DOMAIN release \ {id}
    BY <2>1, RemoveTrainIndex
  <2>3. \A k \in DOMAIN release \ {id} : release'[k] = release[k]
    BY <2>1 DEF TrainFacts!IndexRemove
  <2>4. ASSUME NEW k \in DOMAIN release' PROVE StationsOf(release'[k]) \subseteq hash_str'
    BY <1>1, <2>2, <2>3 DEF NamesStored
  <2>5. QED
    BY <1>1, <2>1, <2>4 DEF NamesStored, StationsOf
<1>5. ASSUME NEW id \in TrainId, TrainFacts!ReleaseTrain(id), ~UNCHANGED <<routes, release>>
      PROVE  NamesStored'
  <2>1. PICK train, released :
          /\ train = release[id] /\ id \in DOMAIN release
          /\ released = [train EXCEPT !.has_released = TRUE]
          /\ routes' = TrainFacts!IndexInsertAll(routes, TrainFacts!OpenedRoutes(id, train))
          /\ release' = TrainFacts!IndexReplace(release, id, released)
    BY <1>5 DEF TrainFacts!ReleaseTrain
  <2> release' = TrainFacts!IndexReplace(release, id, released)
    BY <2>1
  <2>2. DOMAIN release' = DOMAIN release \cup {id}
    BY <2>1, ReplaceTrainIndex
  <2>3. release'[id] = released
    BY DEF TrainFacts!IndexReplace, TrainFacts!IndexInsert, TrainFacts!IndexRemove
  <2>4. \A k \in DOMAIN release \ {id} : release'[k] = release[k]
    BY DEF TrainFacts!IndexReplace, TrainFacts!IndexInsert, TrainFacts!IndexRemove
  <2>5. StationsOf(release'[id]) \subseteq hash_str'
    <3>1. released.stations = train.stations
      BY <2>1
    <3>2. StationsOf(released) = StationsOf(train)
      BY <3>1 DEF StationsOf
    <3>3. StationsOf(train) \subseteq hash_str
      BY <2>1 DEF NamesStored
    <3>4. QED
      BY <1>1, <2>3, <3>2, <3>3
  <2>6. ASSUME NEW k \in DOMAIN release' PROVE StationsOf(release'[k]) \subseteq hash_str'
    BY <1>1, <2>1, <2>2, <2>4, <2>5 DEF NamesStored
  <2>7. DOMAIN routes' = DOMAIN routes \cup DOMAIN TrainFacts!OpenedRoutes(id, train)
    BY <2>1, InsertAllTrainIndex
  <2>8. ASSUME NEW r \in DOMAIN routes' PROVE {r[1], r[2]} \subseteq hash_str'
    BY <1>1, <2>1, <2>7, RoutesBetweenStations DEF NamesStored
  <2>9. QED
    BY <2>6, <2>8 DEF NamesStored, StationsOf
<1>6. CASE TrainStep
  <2>1. CASE \E id \in TrainId : TrainFacts!DeleteTrain(id) \/ TrainFacts!ReleaseTrain(id)
    BY <1>2, <1>4, <1>5, <2>1
  <2>2. CASE TrainFacts!BuyCommand
    BY <1>2, <2>2 DEF TrainFacts!BuyCommand, TrainFacts!BuyTicket
  <2>3. CASE TrainFacts!RefundCommand
    BY <1>2, <2>3 DEF TrainFacts!RefundCommand, TrainFacts!RefundRefused,
                TrainFacts!RefundPending, TrainFacts!RefundBegin, TrainFacts!disk
  <2>4. CASE TrainFacts!RefundVisit \/ TrainFacts!RefundEnd
    BY <1>2, <2>4 DEF TrainFacts!RefundVisit, TrainFacts!RefundEnd
  <2>5. QED
    BY <1>6, <2>1, <2>2, <2>3, <2>4, SameTrains DEF TrainStep
<1>7. CASE UNCHANGED vars \/ UserStep \/ Exit \/ Boot
  BY <1>2, <1>7 DEF vars, UserStep, Exit, Boot, Trains!Exit, Trains!Boot, Trains!disk
<1>8. QED
  BY <1>3, <1>6, <1>7 DEF Next

\* A request that buy_ticket accepts is made in a session, and between two
\* stations of its train.
LEMMA AcceptedRequest ==
  ASSUME TrainFacts!IInv, NEW query, TrainFacts!Bookable(query)
  PROVE  /\ query.uid \in users_id_now
         /\ query.train_id \in DOMAIN release
         /\ query.origin \in StationsOf(release[query.train_id])
         /\ query.des \in StationsOf(release[query.train_id])
<1> DEFINE train == release[query.train_id]
           start == TrainFacts!FindStation(train, query.origin)
           end == TrainFacts!FindStation(train, query.des)
<1>1. query.uid \in users_id_now /\ query.train_id \in DOMAIN release
  BY DEF TrainFacts!Bookable
<1>2. start # 0 /\ start < end
  BY DEF TrainFacts!Bookable
<1>3. train \in TrainFacts!Train
  BY <1>1 DEF TrainFacts!IInv, TrainFacts!TypeOK, TrainFacts!IsIndex
<1>4. train.stations \in Seq(Station)
  BY <1>3 DEF TrainFacts!Train
<1> HIDE DEF train
<1>5. start \in Nat /\ end \in Nat
  BY <1>4, TrainFacts!FindStationFacts, ConstantsFit
<1>6. end # 0
  <2> HIDE DEF start, end
  <2>1. QED
    BY <1>2, <1>5
<1>7. query.origin \in StationsOf(train) /\ query.des \in StationsOf(train)
  BY <1>2, <1>6, CallsAt
<1>8. QED
  BY <1>1, <1>7 DEF train

\* The order that a step enters belongs to a user who is logged in, and its
\* stations have their names stored.
LEMMA EnteredOrder ==
  ASSUME TrainFacts!IInv, [TrainFacts!Next]_(TrainFacts!vars), NamesStored,
         NEW k \in DOMAIN user_order' \ DOMAIN user_order
  PROVE  /\ k[1] \in users_id_now
         /\ {user_order'[k].origin, user_order'[k].des} \subseteq hash_str
<1>1. PICK query \in TrainFacts!Query :
        /\ k = TrainFacts!GetKey(query)
        /\ TrainFacts!Bookable(query)
        /\ \/ user_order'[k] = TrainFacts!AsOrder(query, "SUCCESS")
           \/ user_order'[k] = TrainFacts!AsOrder(query, "PENDING")
  BY TrainFacts!NewOrder, ConstantsFit
<1>2. /\ query.uid \in users_id_now
      /\ query.train_id \in DOMAIN release
      /\ query.origin \in StationsOf(release[query.train_id])
      /\ query.des \in StationsOf(release[query.train_id])
  BY <1>1, AcceptedRequest
<1>3. k[1] = query.uid
  BY <1>1 DEF TrainFacts!GetKey
<1>4. user_order'[k].origin = query.origin /\ user_order'[k].des = query.des
  BY <1>1 DEF TrainFacts!AsOrder
<1>5. StationsOf(release[query.train_id]) \subseteq hash_str
  BY <1>2 DEF NamesStored
<1>6. QED
  BY <1>2, <1>3, <1>4, <1>5

LEMMA ReferencesStep ==
  ASSUME TrainFacts!IInv, UserFacts!IInv, ReferencesResolve, [Next]_vars,
         [TrainFacts!Next]_(TrainFacts!vars), [UserFacts!Next]_(UserFacts!vars)
  PROVE  ReferencesResolve'
<1>1. NamesStored
  BY DEF ReferencesResolve, NamesStored
<1>2. NamesStored'
  BY <1>1, NamesStep
<1>3. hash_str \subseteq hash_str' /\ DOMAIN user_info \subseteq DOMAIN user_info'
  BY NamesKept, RegistryGrows
<1>4. users_id_now \subseteq DOMAIN user_info
  BY DEF UserFacts!IInv, UserFacts!OnlineRegistered
<1>5. ASSUME NEW k \in DOMAIN user_order'
      PROVE  /\ k[1] \in DOMAIN user_info'
             /\ {user_order'[k].origin, user_order'[k].des} \subseteq hash_str'
  <2>1. CASE k \in DOMAIN user_order
    <3>1. user_order'[k].origin = user_order[k].origin
      BY <2>1, TrainFacts!OrderKept, ConstantsFit
    <3>2. user_order'[k].des = user_order[k].des
      BY <2>1, TrainFacts!OrderKept, ConstantsFit
    <3>3. /\ k[1] \in DOMAIN user_info
          /\ {user_order[k].origin, user_order[k].des} \subseteq hash_str
      BY <2>1 DEF ReferencesResolve
    <3>4. QED
      BY <1>3, <3>1, <3>2, <3>3
  <2>2. CASE k \notin DOMAIN user_order
    BY <1>1, <1>3, <1>4, <1>5, <2>2, EnteredOrder
  <2>3. QED
    BY <2>1, <2>2
<1>6. QED
  BY <1>2, <1>5 DEF ReferencesResolve, NamesStored

\* The order that refund_ticket has chosen is one of its user's.
LEMMA RankedIsOwn ==
  ASSUME NEW key, NEW uid, NEW rank, TrainFacts!IsRanked(key, uid, rank)
  PROVE  key[1] = uid
BY DEF TrainFacts!IsRanked, TrainFacts!UserOrders

LEMMA RefunderStep ==
  ASSUME TrainFacts!IInv, RefunderOnline, [Next]_vars
  PROVE  RefunderOnline'
<1>1. CASE UNCHANGED vars
  BY <1>1 DEF vars, RefunderOnline
<1>2. CASE UserStep \/ Exit \/ Boot
  BY <1>2 DEF UserStep, Exit, Boot, Trains!Exit, Trains!Boot, RefunderOnline
<1>3. CASE AddTrain
  BY <1>3 DEF AddTrain, Trains!AddTrain, RefunderOnline
<1>4. ASSUME NEW id \in TrainId, TrainFacts!DeleteTrain(id) \/ TrainFacts!ReleaseTrain(id)
      PROVE  pc' = "idle"
  BY <1>4 DEF TrainFacts!DeleteTrain, TrainFacts!ReleaseTrain
<1>5. ASSUME TrainFacts!BuyCommand PROVE pc' = "idle"
  BY <1>5 DEF TrainFacts!BuyCommand, TrainFacts!BuyTicket
<1>6. CASE TrainFacts!RefundCommand
  <2>1. PICK uid \in Uid, rank \in 1 .. MaxOrders :
          \/ TrainFacts!RefundRefused(uid, rank)
          \/ TrainFacts!RefundPending(uid, rank)
          \/ TrainFacts!RefundBegin(uid, rank)
    BY <1>6 DEF TrainFacts!RefundCommand
  <2>2. CASE TrainFacts!RefundRefused(uid, rank) \/ TrainFacts!RefundPending(uid, rank)
    BY <2>2 DEF TrainFacts!RefundRefused, TrainFacts!RefundPending, RefunderOnline
  <2>3. CASE TrainFacts!RefundBegin(uid, rank)
    <3>1. PICK key \in DOMAIN user_order :
            TrainFacts!IsRanked(key, uid, rank) /\ target' = user_order[key]
      BY <2>3 DEF TrainFacts!RefundBegin
    <3>2. key[1] = uid
      BY <3>1, RankedIsOwn
    <3>3. key = TrainFacts!GetKey(user_order[key])
      BY DEF TrainFacts!IInv, TrainFacts!OrderNumbersUnique
    <3>4. target'.uid = uid
      BY <3>1, <3>2, <3>3 DEF TrainFacts!GetKey
    <3>5. uid \in users_id_now /\ users_id_now' = users_id_now
      BY <2>3 DEF TrainFacts!RefundBegin, TrainFacts!sessions
    <3>6. QED
      BY <3>4, <3>5 DEF RefunderOnline
  <2>4. QED
    BY <2>1, <2>2, <2>3
<1>7. CASE TrainFacts!RefundVisit \/ TrainFacts!RefundEnd
  BY <1>7 DEF TrainFacts!RefundVisit, TrainFacts!RefundEnd, TrainFacts!sessions,
              RefunderOnline
<1>8. CASE TrainStep
  BY <1>4, <1>5, <1>6, <1>7, <1>8, SameTrains DEF TrainStep, RefunderOnline
<1>9. QED
  BY <1>1, <1>2, <1>3, <1>8 DEF Next

LEMMA InitProgramInv == Init => ProgramInv
<1> SUFFICES ASSUME Init PROVE ProgramInv
  OBVIOUS
<1>1. TrainFacts!Init /\ UserFacts!Init
  BY SameTrains, SameUsers DEF Init
<1>2. TrainFacts!QueueInv
  BY <1>1, TrainFacts!InitQueueInv, ConstantsFit
<1>3. UserFacts!IInv
  BY <1>1, UserFacts!InitIInv, ConstantsFit
<1>4. ReferencesResolve
  BY <1>1 DEF TrainFacts!Init, TrainFacts!EmptyIndex, ReferencesResolve
<1>5. RefunderOnline
  BY <1>1 DEF TrainFacts!Init, RefunderOnline
<1>6. QED
  BY <1>2, <1>3, <1>4, <1>5 DEF ProgramInv

LEMMA NextProgramInv == ProgramInv /\ [Next]_vars => ProgramInv'
<1> SUFFICES ASSUME ProgramInv, [Next]_vars PROVE ProgramInv'
  OBVIOUS
<1>1. TrainFacts!QueueInv /\ UserFacts!IInv /\ ReferencesResolve /\ RefunderOnline
  BY DEF ProgramInv
<1>2. /\ [TrainFacts!Next]_(TrainFacts!vars) /\ TrainFacts!QueueInv'
      /\ [UserFacts!Next]_(UserFacts!vars) /\ UserFacts!IInv'
  BY <1>1, HalvesStep
<1>3. TrainFacts!IInv
  BY <1>1 DEF TrainFacts!QueueInv, TrainFacts!SeatInv
<1>4. ReferencesResolve'
  BY <1>1, <1>2, <1>3, ReferencesStep
<1>5. RefunderOnline'
  BY <1>1, <1>3, RefunderStep
<1>6. QED
  BY <1>2, <1>4, <1>5 DEF ProgramInv

-----------------------------------------------------------------------------
\* Every order belongs to a registered user and every station that a query may
\* print has its name stored, after any commands and restarts: the .value()
\* that the queries take without a test has a value.
THEOREM NothingDangles == Spec => []ReferencesResolve
<1>1. Init => ProgramInv
  BY InitProgramInv
<1>2. ProgramInv /\ [Next]_vars => ProgramInv'
  BY NextProgramInv
<1>3. ProgramInv => ReferencesResolve
  BY DEF ProgramInv
<1>4. QED
  BY <1>1, <1>2, <1>3, PTL DEF Spec

\* train_sys in the program behaves as train_sys alone: user_sys changes the
\* sessions only between two of its commands and only to sets of users, and
\* leaves its data alone.
THEOREM ProgramRunsTrains == Spec => ImplementsTrains
<1>1. Init => Trains!Init
  BY DEF Init
<1>2. Init => ProgramInv
  BY InitProgramInv
<1>3. ProgramInv /\ [Next]_vars => ProgramInv'
  BY NextProgramInv
<1>4. ProgramInv /\ [Next]_vars => [Trains!Next]_(Trains!vars)
  <2> SUFFICES ASSUME ProgramInv, [Next]_vars PROVE [Trains!Next]_(Trains!vars)
    OBVIOUS
  <2>1. [TrainFacts!Next]_(TrainFacts!vars)
    BY HalvesStep DEF ProgramInv
  <2>2. TrainFacts!Next <=> Trains!Next
    BY SameTrains DEF Trains!Next, TrainFacts!Next, Trains!TrainCommand,
                      TrainFacts!TrainCommand
  <2>3. TrainFacts!vars' = TrainFacts!vars <=> Trains!vars' = Trains!vars
    BY DEF Trains!vars, TrainFacts!vars, Trains!sessions, TrainFacts!sessions,
           Trains!disk, TrainFacts!disk, Trains!scan, TrainFacts!scan
  <2>4. QED
    BY <2>1, <2>2, <2>3
<1>5. QED
  BY <1>1, <1>2, <1>3, <1>4, PTL DEF Spec, ImplementsTrains

-----------------------------------------------------------------------------
\* What one step may do to an order that is stored: mark it as refunded for
\* its own user alone.
LEMMA OwnRefund ==
  ASSUME TrainFacts!IInv, RefunderOnline, [TrainFacts!Next]_(TrainFacts!vars),
         NEW k \in DOMAIN user_order,
         user_order'[k].status = "REFUNDED", user_order[k].status # "REFUNDED"
  PROVE  k[1] \in users_id_now
<1>1. user_order' # user_order
  OBVIOUS
<1>2. ASSUME NEW key, NEW order, user_order' = TrainFacts!IndexReplace(user_order, key, order)
      PROVE  /\ k # key => user_order'[k] = user_order[k]
             /\ user_order'[key] = order
  BY <1>2 DEF TrainFacts!IndexReplace, TrainFacts!IndexInsert, TrainFacts!IndexRemove
<1>3. ASSUME TrainFacts!BuyCommand PROVE FALSE
  <2>1. ASSUME NEW query, NEW order,
               user_order' = TrainFacts!IndexInsert(user_order, TrainFacts!GetKey(query), order)
        PROVE  FALSE
    <3>1. user_order'[k] = user_order[k]
      BY <2>1 DEF TrainFacts!IndexInsert
    <3>2. QED
      BY <3>1
  <2>2. PICK query, queue : \/ TrainFacts!BuyNow(query)
                            \/ TrainFacts!BuyQueued(query, queue)
                            \/ TrainFacts!BuyRefused(query, queue)
    BY <1>3 DEF TrainFacts!BuyCommand, TrainFacts!BuyTicket
  <2>3. QED
    BY <1>1, <2>1, <2>2 DEF TrainFacts!BuyNow, TrainFacts!BuyQueued, TrainFacts!BuyRefused
<1>4. CASE TrainFacts!RefundCommand
  <2>1. PICK uid \in Uid, rank \in 1 .. MaxOrders : TrainFacts!RefundPending(uid, rank)
    BY <1>1, <1>4 DEF TrainFacts!RefundCommand, TrainFacts!RefundRefused,
                      TrainFacts!RefundBegin, TrainFacts!disk
  <2>2. PICK key, order :
          /\ key \in DOMAIN user_order
          /\ TrainFacts!IsRanked(key, uid, rank)
          /\ user_order' = TrainFacts!IndexReplace(user_order, key, order)
    BY <2>1 DEF TrainFacts!RefundPending, TrainFacts!SetStatus
  <2>3. k = key
    BY <1>2, <2>2
  <2>4. QED
    BY <2>1, <2>2, <2>3, RankedIsOwn DEF TrainFacts!RefundPending
<1>5. CASE TrainFacts!RefundVisit
  <2>1. PICK key, order : /\ order = [user_order[key] EXCEPT !.status = "SUCCESS"]
                          /\ user_order' = TrainFacts!IndexReplace(user_order, key, order)
    BY <1>1, <1>5 DEF TrainFacts!RefundVisit, TrainFacts!SetStatus
  <2>2. k = key /\ user_order'[key] = order
    BY <1>2, <2>1
  <2>3. user_order[key] \in TrainFacts!Order
    BY <2>2 DEF TrainFacts!IInv, TrainFacts!TypeOK, TrainFacts!IsIndex
  <2>4. order.status = "SUCCESS"
    BY <2>1, <2>3 DEF TrainFacts!Order
  <2>5. QED
    BY <2>2, <2>4
<1>6. CASE TrainFacts!RefundEnd
  <2>1. PICK order :
          user_order' = TrainFacts!IndexReplace(user_order, TrainFacts!GetKey(target), order)
    BY <1>6 DEF TrainFacts!RefundEnd, TrainFacts!SetStatus
  <2>2. k = TrainFacts!GetKey(target)
    BY <1>2, <2>1
  <2>3. target.uid \in users_id_now
    BY <1>6 DEF TrainFacts!RefundEnd, RefunderOnline
  <2>4. QED
    BY <2>2, <2>3 DEF TrainFacts!GetKey
<1>7. ASSUME \/ TrainFacts!vars' = TrainFacts!vars
             \/ TrainFacts!SessionChange \/ TrainFacts!Exit \/ TrainFacts!Boot
             \/ TrainFacts!TrainCommand
      PROVE  FALSE
  BY <1>1, <1>7 DEF TrainFacts!vars, TrainFacts!SessionChange, TrainFacts!Exit,
     TrainFacts!Boot, TrainFacts!TrainCommand, TrainFacts!AddTrain,
     TrainFacts!DeleteTrain, TrainFacts!ReleaseTrain, TrainFacts!disk
<1>8. QED
  BY <1>3, <1>4, <1>5, <1>6, <1>7 DEF TrainFacts!Next

\* Orders are made and given back by their owner alone.
THEOREM OwnersAct == Spec => OwnerActs
<1> DEFINE Owned ==
      /\ \A k \in DOMAIN user_order' \ DOMAIN user_order : k[1] \in users_id_now
      /\ \A k \in DOMAIN user_order :
           user_order'[k].status = "REFUNDED" /\ user_order[k].status # "REFUNDED"
             => k[1] \in users_id_now
<1>1. ProgramInv /\ [Next]_vars => Owned
  <2> SUFFICES ASSUME ProgramInv, [Next]_vars PROVE Owned
    OBVIOUS
  <2>1. TrainFacts!QueueInv /\ UserFacts!IInv /\ ReferencesResolve /\ RefunderOnline
    BY DEF ProgramInv
  <2>2. TrainFacts!IInv
    BY <2>1 DEF TrainFacts!QueueInv, TrainFacts!SeatInv
  <2>3. [TrainFacts!Next]_(TrainFacts!vars)
    BY <2>1, HalvesStep
  <2>4. NamesStored
    BY <2>1 DEF ReferencesResolve, NamesStored
  <2>5. ASSUME NEW k \in DOMAIN user_order' \ DOMAIN user_order PROVE k[1] \in users_id_now
    BY <2>2, <2>3, <2>4, EnteredOrder
  <2>6. ASSUME NEW k \in DOMAIN user_order,
               user_order'[k].status = "REFUNDED", user_order[k].status # "REFUNDED"
        PROVE  k[1] \in users_id_now
    BY <2>1, <2>2, <2>3, <2>6, OwnRefund
  <2>7. QED
    BY <2>5, <2>6
<1>2. Init => ProgramInv
  BY InitProgramInv
<1>3. ProgramInv /\ [Next]_vars => ProgramInv'
  BY NextProgramInv
<1>4. Owned => [Owned]_vars
  OBVIOUS
<1> HIDE DEF Owned
<1>5. Spec => [][Owned]_vars
  BY <1>1, <1>2, <1>3, <1>4, PTL DEF Spec
<1>6. QED
  BY <1>5 DEF OwnerActs, Owned

-----------------------------------------------------------------------------
\* What is proved of train_sys alone, said of the program.

\* The two namings of its properties say the same.
LEMMA SamePromises ==
  /\ TrainFacts!LookupsNeverMiss <=> Trains!LookupsNeverMiss
  /\ TrainFacts!OrderNumbersUnique <=> Trains!OrderNumbersUnique
  /\ TrainFacts!QueueMatchesOrders <=> Trains!QueueMatchesOrders
  /\ TrainFacts!SeatsConserved <=> Trains!SeatsConserved
  /\ TrainFacts!NoWaiterFits <=> Trains!NoWaiterFits
  /\ TrainFacts!NoOvertaking <=> Trains!NoOvertaking
<1>1. TrainFacts!LookupsNeverMiss <=> Trains!LookupsNeverMiss
  BY DEF TrainFacts!LookupsNeverMiss, Trains!LookupsNeverMiss, TrainFacts!Departure,
         Trains!Departure
<1>2. TrainFacts!OrderNumbersUnique <=> Trains!OrderNumbersUnique
  BY DEF TrainFacts!OrderNumbersUnique, Trains!OrderNumbersUnique, TrainFacts!GetKey,
         Trains!GetKey, TrainFacts!IssuedTime, Trains!IssuedTime
<1>3. TrainFacts!QueueMatchesOrders <=> Trains!QueueMatchesOrders
  BY DEF TrainFacts!QueueMatchesOrders, Trains!QueueMatchesOrders, TrainFacts!GetKey,
         Trains!GetKey, TrainFacts!QueryKey, Trains!QueryKey, TrainFacts!AsOrder,
         Trains!AsOrder, TrainFacts!Waiting, Trains!Waiting
<1>4. TrainFacts!SeatsConserved <=> Trains!SeatsConserved
  <2>1. \A td : TrainFacts!SeatsNow(td) = Trains!SeatsNow(td)
    BY DEF TrainFacts!SeatsNow, Trains!SeatsNow, TrainFacts!Departure, Trains!Departure
  <2>2. \A td, i : TrainFacts!Holders(td, i) = Trains!Holders(td, i)
    BY DEF TrainFacts!Holders, Trains!Holders, TrainFacts!Departure, Trains!Departure,
           TrainFacts!LegsOf, Trains!LegsOf, TrainFacts!Legs, Trains!Legs,
           TrainFacts!FindStation, Trains!FindStation, TrainFacts!GetKey, Trains!GetKey
  <2>3. \A td, i : TrainFacts!SoldSeats(td, i) = Trains!SoldSeats(td, i)
    BY <2>2 DEF TrainFacts!SoldSeats, Trains!SoldSeats
  <2>4. \A set : TrainFacts!Cardinality(set) = Trains!Cardinality(set)
    BY DEF TrainFacts!Cardinality, Trains!Cardinality
  <2>5. QED
    BY <2>1, <2>3, <2>4 DEF TrainFacts!SeatsConserved, Trains!SeatsConserved
<1>5. TrainFacts!NoWaiterFits <=> Trains!NoWaiterFits
  BY DEF TrainFacts!NoWaiterFits, Trains!NoWaiterFits, TrainFacts!Departure,
         Trains!Departure, TrainFacts!SeatsNow, Trains!SeatsNow, TrainFacts!Fits,
         Trains!Fits, TrainFacts!LegsOf, Trains!LegsOf, TrainFacts!Legs, Trains!Legs,
         TrainFacts!FindStation, Trains!FindStation
<1>6. TrainFacts!NoOvertaking <=> Trains!NoOvertaking
  BY DEF TrainFacts!NoOvertaking, Trains!NoOvertaking, TrainFacts!Departure,
         Trains!Departure, TrainFacts!LegsOf, Trains!LegsOf, TrainFacts!Legs, Trains!Legs,
         TrainFacts!FindStation, Trains!FindStation
<1>7. QED
  BY <1>1, <1>2, <1>3, <1>4, <1>5, <1>6

\* Whatever users log in and out and change their profiles meanwhile, no seat
\* is lost or sold twice, nobody waits for seats that are there, nobody is
\* overtaken, and no lookup misses (Execute of commandparser.cpp, which gives
\* both halves their turns).
TicketPromises ==
  /\ Trains!SeatsConserved
  /\ Trains!NoWaiterFits
  /\ Trains!NoOvertaking
  /\ Trains!QueueMatchesOrders
  /\ Trains!OrderNumbersUnique
  /\ Trains!LookupsNeverMiss

THEOREM ProgramKeepsPromises == Spec => []TicketPromises
<1>1. ProgramInv => TicketPromises
  BY SamePromises DEF ProgramInv, TrainFacts!QueueInv, TrainFacts!SeatInv,
                      TrainFacts!IInv, TicketPromises
<1>2. Init => ProgramInv
  BY InitProgramInv
<1>3. ProgramInv /\ [Next]_vars => ProgramInv'
  BY NextProgramInv
<1>4. QED
  BY <1>1, <1>2, <1>3, PTL DEF Spec

\* The program is a ledger of orders: what users do to accounts and sessions
\* is a stutter of it, and a restart of the program leaves it as it is.
THEOREM ProgramKeepsTheLedger == Spec => TrainFacts!ImplementsLedger
<1> DEFINE Inv == ProgramInv /\ TrainFacts!ScanDecides
<1>1. Init => Inv /\ TrainFacts!Ledger!Init
  <2> SUFFICES ASSUME Init PROVE Inv /\ TrainFacts!Ledger!Init
    OBVIOUS
  <2>1. ProgramInv /\ TrainFacts!Init
    BY InitProgramInv, SameTrains DEF Init
  <2>2. TrainFacts!ScanDecides
    BY <2>1 DEF TrainFacts!Init, TrainFacts!ScanDecides
  <2>3. TrainFacts!Ledger!Init
    BY <2>1, TrainFacts!InitOfLedger, ConstantsFit
  <2>4. QED
    BY <2>1, <2>2, <2>3
<1>2. Inv /\ [Next]_vars => Inv' /\ [TrainFacts!Ledger!Next]_(TrainFacts!Ledger!ledger)
  <2> SUFFICES ASSUME Inv, [Next]_vars
               PROVE  Inv' /\ [TrainFacts!Ledger!Next]_(TrainFacts!Ledger!ledger)
    OBVIOUS
  <2>1. ProgramInv'
    BY NextProgramInv
  <2>2. [TrainFacts!Next]_(TrainFacts!vars)
    BY HalvesStep DEF ProgramInv
  <2>3. TrainFacts!SeatInv /\ TrainFacts!IInv'
    BY <2>1 DEF ProgramInv, TrainFacts!QueueInv, TrainFacts!SeatInv
  <2>4. TrainFacts!ScanDecides'
    BY <2>2, <2>3, TrainFacts!ScanDecidesStep, ConstantsFit
  <2>5. [TrainFacts!Ledger!Next]_(TrainFacts!Ledger!ledger)
    BY <2>2, <2>3, TrainFacts!StepOfLedger, ConstantsFit DEF TrainFacts!LedgerInv
  <2>6. QED
    BY <2>1, <2>4, <2>5
<1> HIDE DEF Inv
<1>3. QED
  BY <1>1, <1>2, PTL DEF Spec, TrainFacts!ImplementsLedger, TrainFacts!Ledger!Spec
=============================================================================
