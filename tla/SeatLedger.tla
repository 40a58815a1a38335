---------------------------- MODULE SeatLedger ----------------------------
(***************************************************************************)
(* What ticketing promises, without seat counts, queue or scan: a ledger   *)
(* of orders numbered in the order of arrival and the capacity of every    *)
(* departure on sale.  The seats left are what the bought orders leave,    *)
(* the queue is the set of pending orders, and giving back an order        *)
(* promotes, at once, the waiters that a first-come scan would satisfy.    *)
(***************************************************************************)
EXTENDS Integers, FiniteSets

VARIABLES
  orders,    \* number -> [uid, departure, legs, amount, status]
  capacity,  \* departure -> the seats of its train
  reply      \* the command answered last and what it printed

ledger == <<orders, capacity, reply>>

\* The seats that a set of orders occupies on leg i.
Load(numbers, i) ==
  Cardinality(UNION {{n} \X (1 .. orders[n].amount) :
                       n \in {m \in numbers : i \in orders[m].legs}})

InState(departure, status) ==
  {n \in DOMAIN orders :
     orders[n].departure = departure /\ orders[n].status = status}

\* An order for legs and amount fits beside the orders in held.
FitsBeside(held, departure, legs, amount) ==
  \A i \in legs : Load(held, i) + amount <= capacity[departure]

\* promoted is what a scan from the oldest to the newest waiter satisfies when
\* the orders in held keep their seats.
IsPromotion(promoted, held, waiting) ==
  \A n \in waiting :
    n \in promoted <=>
      FitsBeside(held \cup {m \in promoted : m < n},
                 orders[n].departure, orders[n].legs, orders[n].amount)

Init ==
  /\ orders = [n \in {} |-> {}]
  /\ capacity = [d \in {} |-> {}]
  /\ reply = <<"start", "0">>

\* release_train: new departures go on sale; the old ones stay as they are.
Open ==
  /\ reply' = <<"release_train", "0">>
  /\ DOMAIN capacity \subseteq DOMAIN capacity'
  /\ \A d \in DOMAIN capacity : capacity'[d] = capacity[d]
  /\ UNCHANGED orders

\* buy_ticket enters a new order under a number above all earlier ones: it is
\* bought exactly when it fits beside the bought orders.
Buy ==
  /\ \E n \in DOMAIN orders' \ DOMAIN orders :
       LET order == orders'[n]
           fits == FitsBeside(InState(order.departure, "SUCCESS"),
                              order.departure, order.legs, order.amount)
       IN /\ DOMAIN orders' = DOMAIN orders \cup {n}
          /\ \A m \in DOMAIN orders : m < n /\ orders'[m] = orders[m]
          /\ order.departure \in DOMAIN capacity
          /\ order.legs # {}
          /\ \/ fits /\ order.status = "SUCCESS" /\ reply' = <<"buy_ticket", "price">>
             \/ /\ ~fits
                /\ order.amount <= capacity[order.departure]
                /\ order.status = "PENDING"
                /\ reply' = <<"buy_ticket", "queue">>
  /\ UNCHANGED capacity

\* refund_ticket of a bought order.
GiveBack ==
  /\ \E n \in DOMAIN orders :
       LET departure == orders[n].departure
           waiting == InState(departure, "PENDING")
       IN /\ orders[n].status = "SUCCESS"
          /\ \E promoted \in SUBSET waiting :
               /\ IsPromotion(promoted, InState(departure, "SUCCESS") \ {n}, waiting)
               /\ orders' = [m \in DOMAIN orders |->
                    [orders[m] EXCEPT !.status =
                       CASE m = n -> "REFUNDED"
                         [] m \in promoted -> "SUCCESS"
                         [] OTHER -> @]]
  /\ reply' = <<"refund_ticket", "0">>
  /\ UNCHANGED capacity

\* refund_ticket of a waiting order.
Withdraw ==
  /\ \E n \in DOMAIN orders :
       /\ orders[n].status = "PENDING"
       /\ orders' = [orders EXCEPT ![n].status = "REFUNDED"]
  /\ reply' = <<"refund_ticket", "0">>
  /\ UNCHANGED capacity

\* A refusal, or a command that has nothing to do with orders.
NoEffect ==
  /\ \/ reply' \in {<<"buy_ticket", "-1">>, <<"refund_ticket", "-1">>,
                    <<"release_train", "-1">>}
     \/ reply'[1] \in {"add_train", "delete_train", "exit", "start"}
  /\ UNCHANGED <<orders, capacity>>

Next == Open \/ Buy \/ GiveBack \/ Withdraw \/ NoEffect

Spec == Init /\ [][Next]_ledger
=============================================================================
