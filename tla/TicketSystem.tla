---------------------------- MODULE TicketSystem ----------------------------
(***************************************************************************)
(* The program: main reads a command, carries it out on user_sys or on     *)
(* train_sys, and reads the next one (src/main/ioput.cpp, the Execute      *)
(* functions of src/IO/commandparser.cpp).  The two halves share the set   *)
(* of the users who are logged in, which user_sys changes and train_sys    *)
(* consults, and the process they live in.  add_train also stores the      *)
(* names of its stations in core::hash_str, where every command that       *)
(* prints a station looks its hash up; a name is not told apart from its   *)
(* hash here.                                                              *)
(***************************************************************************)
EXTENDS Integers, Sequences

CONSTANTS
  Uid, Password, Privilege, Absent,
  TrainId, Station, TrainTotals, Date, Amount, MaxOrders

VARIABLES
  pc, users_id_now, order_time, has_opened, release, states, routes,
  user_order, train_query, target, seats, cursor, complete_query, reply,
  user_info, answer,
  hash_str  \* the stations whose names are stored

Trains == INSTANCE TrainProperties
Users == INSTANCE UserSystem WITH up <- pc # "down"

ASSUME TrainAssumption ==
  /\ TrainTotals \subseteq Trains!Train
  /\ \A train \in TrainTotals : Trains!WellFormed(train) /\ ~train.has_released
  /\ Date \subseteq Int /\ Amount \subseteq Nat /\ MaxOrders \in Nat
ASSUME UserAssumption == Privilege \subseteq Nat /\ Absent \notin Password

vars == <<pc, users_id_now, order_time, has_opened, release, states, routes,
          user_order, train_query, target, seats, cursor, complete_query, reply,
          user_info, answer, hash_str>>

Init == Trains!Init /\ Users!Init /\ hash_str = {}

StationsOf(train) == {train.stations[i] : i \in DOMAIN train.stations}

\* A mistake: the name of the last station is not stored.
AddTrainButLast ==
  /\ \E id \in TrainId, train \in TrainTotals :
       /\ Trains!AddTrain(id, train)
       /\ hash_str' = hash_str \cup (StationsOf(train) \ {train.stations[Len(train.stations)]})
  /\ UNCHANGED <<user_info, answer>>

\* add_train stores the names while it reads its parameters, before it knows
\* whether the train will be accepted.
AddTrain ==
  /\ \E id \in TrainId, train \in TrainTotals :
       /\ Trains!AddTrain(id, train)
       /\ hash_str' = hash_str \cup StationsOf(train)
  /\ UNCHANGED <<user_info, answer>>

\* Another command for train_sys, or one more step of the refund_ticket under way.
TrainStep ==
  /\ \/ \E id \in TrainId : Trains!DeleteTrain(id) \/ Trains!ReleaseTrain(id)
     \/ Trains!BuyCommand
     \/ Trains!RefundCommand
     \/ Trains!RefundVisit
     \/ Trains!RefundEnd
  /\ UNCHANGED <<user_info, answer, hash_str>>

\* A mistake: a command is read while a refund_ticket is under way.
UserStepAnytime ==
  /\ UNCHANGED <<pc, order_time, has_opened, release, states, routes, user_order,
                 train_query, target, seats, cursor, complete_query, reply, hash_str>>
  /\ Users!Command

\* A command for user_sys.
UserStep ==
  /\ pc = "idle"
  /\ UNCHANGED <<pc, order_time, has_opened, release, states, routes, user_order,
                 train_query, target, seats, cursor, complete_query, reply, hash_str>>
  /\ Users!Command

Exit == Trains!Exit /\ Users!Exit /\ UNCHANGED hash_str

Boot == Trains!Boot /\ Users!Boot /\ UNCHANGED hash_str

Next == AddTrain \/ TrainStep \/ UserStep \/ Exit \/ Boot

\* A refund_ticket that has begun is carried on to its end.
Fairness == WF_vars(pc = "scan" /\ TrainStep)

Spec == Init /\ [][Next]_vars /\ Fairness

-----------------------------------------------------------------------------
\* What one index says of another holds over all commands and restarts: every
\* order belongs to a registered user (buy_ticket asks for a session only),
\* and every station of a train, a route or an order has its name stored, which
\* the queries take with .value() and no test.  Registry, trains and names are
\* files of their own.
ReferencesResolve ==
  /\ \A k \in DOMAIN user_order :
       k[1] \in DOMAIN user_info /\ {user_order[k].origin, user_order[k].des} \subseteq hash_str
  /\ \A r \in DOMAIN routes : {r[1], r[2]} \subseteq hash_str
  /\ \A id \in DOMAIN release : StationsOf(release[id]) \subseteq hash_str

\* Orders are made and given back by their owner alone: from the command's
\* test of the session to its last write the owner is logged in, and another
\* user's command can do no more to an order than promote it.
OwnerActs ==
  [][/\ \A k \in DOMAIN user_order' \ DOMAIN user_order : k[1] \in users_id_now
     /\ \A k \in DOMAIN user_order :
          user_order'[k].status = "REFUNDED" /\ user_order[k].status # "REFUNDED"
            => k[1] \in users_id_now]_vars

\* What train_sys assumes of user_sys is so: the sessions change only between
\* two of its commands, and only to other sets of users, so that every run of
\* the program is a run of TrainSystem.
ImplementsTrains == Trains!Init /\ [][Trains!Next]_(Trains!vars)

\* A refund_ticket is answered: main gives no other command the turn before
\* the one under way has ended.
RefundAnswers == Trains!RefundAnswers
=============================================================================
