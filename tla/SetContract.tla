---------------------------- MODULE SetContract ----------------------------
(***************************************************************************)
(* The set of the users who are logged in as core uses it: three calls and *)
(* their answers.  UserSystem goes by it, RBSet implements it.             *)
(***************************************************************************)
EXTENDS SessionSet

CONSTANT Value

VARIABLES set, answer

Init == set = {} /\ answer = <<>>

Insert(value) ==
  /\ set' = set \cup {value}
  /\ answer' = <<"Insert", value, value \notin set>>

EraseValue(value) ==
  /\ set' = Erase(set, value)
  /\ answer' = <<"Erase", value, Erased(set, value)>>

Exist(value) ==
  /\ answer' = <<"Exist", value, value \in set>>
  /\ UNCHANGED set

Next == \E value \in Value : Insert(value) \/ EraseValue(value) \/ Exist(value)

Spec == Init /\ [][Next]_<<set, answer>>
=============================================================================
