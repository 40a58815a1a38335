--------------------------- MODULE IndexContract ---------------------------
(***************************************************************************)
(* What bpt::BPlusTree promises its callers (train_sys, user_sys, core): a *)
(* map, as module Index writes it down and TrainSystem and UserSystem use  *)
(* it.  Insert answers whether the key was new.                            *)
(***************************************************************************)
EXTENDS Index

CONSTANTS Key, Value

VARIABLES index, answer

Init == index = EmptyIndex /\ answer = "none"

Insert ==
  \E key \in Key, value \in Value :
    /\ index' = IndexInsert(index, key, value)
    /\ answer' = IF key \in DOMAIN index THEN "exists" ELSE "inserted"

Remove ==
  \E key \in Key :
    /\ index' = IndexRemove(index, key)
    /\ answer' = "none"

\* The constructor of the next run finds the tree as it was.
Reopen == answer' = "none" /\ UNCHANGED index

Spec == Init /\ [][Insert \/ Remove \/ Reopen]_<<index, answer>>
=============================================================================
