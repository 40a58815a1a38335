-------------------------- MODULE TrainRefinement --------------------------
(***************************************************************************)
(* TrainSystem implements SeatLedger.  The ledger has one order for each   *)
(* order number; an order that a Refund in progress has already promoted   *)
(* is pending for the ledger until that Refund ends.                       *)
(***************************************************************************)
EXTENDS TrainProperties

OrderOf(n) == user_order[CHOOSE k \in DOMAIN user_order : k[2] = n]

LedgerOrder(order) ==
  [uid |-> order.uid, departure |-> Departure(order), legs |-> LegsOf(order),
   amount |-> order.amount,
   status |-> IF QueryKey(order) \in complete_query THEN "PENDING" ELSE order.status]

LedgerOrders == [n \in {k[2] : k \in DOMAIN user_order} |-> LedgerOrder(OrderOf(n))]
CapacityNow == [td \in DOMAIN states |-> release[td[1]].tickets_num]

Ledger == INSTANCE SeatLedger WITH
  orders <- LedgerOrders, capacity <- CapacityNow, reply <- reply

\* Every run of the train system, seen as a ledger, is a run of the ledger:
\* counts, queue and scan decide every purchase and every promotion as the
\* orders alone do.
ImplementsLedger == Ledger!Spec
=============================================================================
